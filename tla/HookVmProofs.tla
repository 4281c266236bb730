----------------------------- MODULE HookVmProofs -----------------------------
(* Proofs about what HookRegistry makes the VM run: the flag it sets and      *)
(* clears, the definitions it installs, the natives it binds, the order of    *)
(* the calls it inserts, and, last, that it implements HookTable.             *)
EXTENDS HookEntriesProofs

-----------------------------------------------------------------------------
(* The flag AllowRedefinitionToAddDeleteMethods *)

\* What g_flag_state says of the flag: never set, found clear, found set.
FlagInv ==
    /\ ~g_initialized => vmFlag = flagFound /\ g_flag_state = -1
    /\ g_initialized => \/ g_flag_state = -1 /\ vmFlag = flagFound
                        \/ g_flag_state = 1 /\ vmFlag = TRUE /\ flagFound = FALSE
                        \/ g_flag_state = 0 /\ vmFlag = TRUE /\ flagFound = TRUE
    /\ op.pc = "return" /\ op.call = "Shutdown" => ~g_initialized

\* Only ShutdownFinish ends a shutdown.
LEMMA ShutdownReturns ==
    ASSUME TypeInv, PhaseInv, Step, op'.pc = "return", op'.call = "Shutdown"
    PROVE  ShutdownFinish
<1>1. CASE ReapplyFails \/ RedefineRefused \/ RedefineClasses \/ ResumeOthers \/ ResumeRefused
  BY <1>1, ReapplyLocals
<1>2. CASE RegisterNative
  BY <1>2, RegisterLocals
<1>3. CASE InstallDone \/ InstallUndone \/ UninstallDone \/ UninstallUndo
  <2>1. op'.call = op.call /\ op.call \in {"Install", "Uninstall"}
    BY <1>3, ReturnLocals DEF InstallDone, InstallUndone, UninstallDone, UninstallUndo, SameWork,
       SameCall
  <2> QED
    BY <2>1
<1>4. CASE InstallUndo
  <2>1. op'.call = op.call /\ op.call = "Install"
    BY <1>4, ReturnLocals, RollbackLocals DEF InstallUndo, SameWork, SameCall
  <2> QED
    BY <2>1
<1>5. CASE PartitionStep \/ PartitionDone
  <2>1. op.call = "Uninstall"
    BY <1>5 DEF PartitionStep, PartitionDone, PhaseInv, CallKnown
  <2> QED
    BY <1>5, <2>1, PartitionLocals, PartitionDoneLocals DEF SameWork, SameCall
<1>6. CASE ShutdownClass \/ ShutdownClassDone
  BY <1>6, ShutdownLocals
<1>7. CASE Return
  BY <1>7 DEF Return, Idle
<1> QED
  BY <1>1, <1>2, <1>3, <1>4, <1>5, <1>6, <1>7 DEF Step

\* The steps that leave the session alone.
LEMMA SessionKept ==
    ASSUME Step, ~ShutdownFinish
    PROVE  UNCHANGED <<session, vmFlag, flagFound>>
  BY DEF Step, ReapplyFails, RedefineRefused, RedefineClasses, RegisterNative, ResumeOthers,
     ResumeRefused, InstallDone,
     InstallUndo, InstallUndone, PartitionStep, PartitionDone, UninstallDone, UninstallUndo,
     ShutdownClass, ShutdownClassDone, Return, vm

LEMMA CallSession ==
    ASSUME NEW t \in Threads, Call(t), ~JNI2Hook_Init(t)
    PROVE  UNCHANGED <<session, vmFlag, flagFound>>
  BY DEF Call, CheckInitialized, GiveUp, JNI2Hook_Install, JNI2Hook_InstallAt, install,
     JNI2Hook_Uninstall, JNI2Hook_UninstallAt, Uninstall, JNI2Hook_Shutdown,
     JNI2Hook_RedefineClass, vm

LEMMA FlagNext ==
    ASSUME "callbacks" \notin Faults, TypeInv, PhaseInv, BodyRunsInitialized, FlagInv, [Next]_vars
    PROVE  FlagInv'
<1>1. /\ g_initialized \in BOOLEAN /\ vmFlag \in BOOLEAN /\ flagFound \in BOOLEAN
      /\ g_flag_state \in {-1, 0, 1}
  BY DEF TypeInv, TypeOK
<1>2. ASSUME UNCHANGED <<session, vmFlag, flagFound>>,
             ~(op'.pc = "return" /\ op'.call = "Shutdown") \/ op' = op
      PROVE  FlagInv'
  <2>1. /\ g_initialized' = g_initialized /\ g_flag_state' = g_flag_state
        /\ vmFlag' = vmFlag /\ flagFound' = flagFound
    BY <1>2 DEF session
  <2> QED
    BY <1>2, <2>1 DEF FlagInv
<1>3. ASSUME NEW t \in Threads, Call(t) PROVE FlagInv'
  <2>1. ~(op'.pc = "return" /\ op'.call = "Shutdown") \/ op' = op
    BY <1>3, CallBegins DEF Fresh
  <2>2. CASE ~JNI2Hook_Init(t)
    BY <1>2, <1>3, <2>1, <2>2, CallSession
  <2>3. CASE JNI2Hook_Init(t)
    <3>1. flagFound' = flagFound /\ op'.call = "Init"
      <4>1. \E s : op' = Returning(Began("Init", NoClass), s)
        BY <2>3 DEF JNI2Hook_Init
      <4> QED
        BY <2>3, <4>1, ReturnsAtOnce DEF JNI2Hook_Init, Fresh
    <3>2. CASE UNCHANGED <<session, vmFlag>>
      BY <1>2, <2>1, <3>1, <3>2 DEF session
    <3>3. CASE ~g_initialized /\ g_initialized' = TRUE /\ SetFlag
      BY <1>1, <3>1, <3>3 DEF SetFlag, FlagInv
    <3>4. CASE ~g_initialized /\ g_initialized' = TRUE /\ UNCHANGED <<vmFlag, g_flag_state>>
      BY <1>1, <3>1, <3>4 DEF FlagInv
    <3> QED
      BY <2>3, <3>2, <3>3, <3>4 DEF JNI2Hook_Init
  <2> QED
    BY <2>2, <2>3
<1>4. CASE Step
  <2>1. CASE ShutdownFinish
    <3>1. g_initialized
      BY <2>1 DEF ShutdownFinish, BodyRunsInitialized
    <3>2. g_initialized' = FALSE /\ g_flag_state' = -1 /\ flagFound' = flagFound
      BY <2>1 DEF ShutdownFinish
    <3>3. vmFlag' = RestoredFlag
      BY <2>1 DEF ShutdownFinish
    <3>4. RestoredFlag = flagFound
      <4>1. CASE g_flag_state = 1 /\ flagFound = FALSE
        BY <4>1 DEF RestoredFlag
      <4>2. CASE g_flag_state # 1 /\ vmFlag = flagFound
        BY <4>2 DEF RestoredFlag
      <4>3. \/ g_flag_state = -1 /\ vmFlag = flagFound
            \/ g_flag_state = 1 /\ vmFlag = TRUE /\ flagFound = FALSE
            \/ g_flag_state = 0 /\ vmFlag = TRUE /\ flagFound = TRUE
        BY <3>1 DEF FlagInv
      <4>4. -1 # 1 /\ 0 # 1
        OBVIOUS
      <4>5. CASE g_flag_state = 0 /\ vmFlag = TRUE /\ flagFound = TRUE
        BY <4>2, <4>4, <4>5
      <4>6. CASE g_flag_state = -1 /\ vmFlag = flagFound
        BY <4>2, <4>4, <4>6
      <4> QED
        BY <4>1, <4>3, <4>5, <4>6
    <3> QED
      BY <3>2, <3>3, <3>4 DEF FlagInv
  <2>2. CASE ~ShutdownFinish
    BY <1>2, <1>4, <2>2, SessionKept, ShutdownReturns
  <2> QED
    BY <2>1, <2>2
<1>5. CASE UNCHANGED vars
  BY <1>2, <1>5 DEF vars, vm
<1> QED
  BY <1>3, <1>4, <1>5 DEF Next

\* Whatever else fails and however many sessions follow one another, the flag
\* the VM was started with is back when a Shutdown returns, provided that
\* class_cache_start never failed after the flag was set (jni2hook.c:1138).
THEOREM FlagIsRestored ==
    ASSUME "callbacks" \notin Faults
    PROVE  Spec => []FlagRestored
<1> DEFINE Inv == TypeInv /\ PhaseInv /\ BodyRunsInitialized /\ FlagInv
<1>1. Init => Inv
  <2>1. Init => BodyRunsInitialized /\ FlagInv
    BY DEF Init, Idle, BodyRunsInitialized, FlagInv
  <2> QED
    BY <2>1, TypeInit, PhaseInit
<1>2. Inv /\ [Next]_vars => Inv'
  BY TypeNext, PhaseNext, InitializedNext, FlagNext
<1>3. Inv => FlagRestored
  BY DEF FlagInv, FlagRestored
<1> QED
  BY <1>1, <1>2, <1>3, PTL DEF Spec

-----------------------------------------------------------------------------
(* What a call changes before it reaches reapply *)

\* A call adds a hook, or leaves the hooks and goes on without a rebuild.
BeginsAdding(t, k, e) ==
    /\ lock = NoThread /\ lock' = t /\ AddsTail(k, e) /\ cache' = Captured(k)
    /\ UNCHANGED <<session, vm, warned>>
Begins(t, call, c) ==
    /\ lock = NoThread /\ lock' = t /\ UNCHANGED <<hooks, pages, warned, suspended>>
    /\ Fresh(call, c) /\ op'.pc \in {"scan", "next", "return"}
    /\ op'.pc = "scan" => call = "Uninstall"
    /\ op'.pc = "next" <=> call = "Shutdown"
    /\ cache' = cache \/ \E k \in Classes : cache' = Captured(k)
    /\ UNCHANGED <<def, bound>> \/ JNI2Hook_RedefineClass(t)

LEMMA CallCases ==
    ASSUME TypeInv, PhaseInv, TypeInv', NEW t \in Threads, Call(t)
    PROVE  \/ UNCHANGED <<session, registry, cache, pages, vm, lock, op, warned>>
           \/ \E k, e : BeginsAdding(t, k, e)
           \/ \E call, c : Begins(t, call, c)
<1>1. ASSUME NEW m \in Methods, NEW o \in Offsets, NEW f \in Fns, NEW k \in Kinds,
             install(t, m, o, f, k)
      PROVE  \/ \E c, e : BeginsAdding(t, c, e)
             \/ \E call, c : Begins(t, call, c)
  <2>1. lock = NoThread /\ lock' = t /\ UNCHANGED <<session, vm, warned>>
    BY <1>1 DEF install, Enter
  <2>2. ClassOf[m] \in Classes
    BY ConstantsAssumption
  <2>3. CASE Adds(m, o, f, k)
    BY <2>1, <2>3, AddsAtTheEnd DEF BeginsAdding
  <2>4. CASE ~Adds(m, o, f, k)
    <3>1. /\ \E s : op' = Returning(Began("Install", ClassOf[m]), s)
          /\ UNCHANGED <<hooks, pages>>
          /\ cache' = cache \/ cache' = Captured(ClassOf[m])
      BY <1>1, <2>4 DEF install, InstallFails, Adds, registry
    <3>2. Fresh("Install", ClassOf[m]) /\ op'.pc = "return"
      BY <3>1, ReturnsAtOnce
    <3>3. Begins(t, "Install", ClassOf[m])
      BY <2>1, <2>2, <3>1, <3>2 DEF Begins, vm
    <3> QED
      BY <3>3
  <2> QED
    BY <2>3, <2>4
<1>2. CASE JNI2Hook_Install(t) \/ JNI2Hook_InstallAt(t)
  <2>1. PICK m \in Methods, o \in Offsets, f \in Fns, k \in Kinds : install(t, m, o, f, k)
    BY <1>2, ConstantsAssumption DEF JNI2Hook_Install, JNI2Hook_InstallAt, Kinds
  <2> QED
    BY <1>1, <2>1
<1>3. CASE CheckInitialized(t) \/ GiveUp(t)
  BY <1>3 DEF CheckInitialized, GiveUp
<1>4. ASSUME NEW call, NEW c, Fresh(call, c), lock = NoThread, lock' = t, warned' = warned,
             op'.pc \in {"scan", "next", "return"}, op'.pc = "scan" => call = "Uninstall",
             op'.pc = "next" <=> call = "Shutdown", UNCHANGED <<hooks, pages, suspended, cache>>,
             UNCHANGED <<def, bound>> \/ JNI2Hook_RedefineClass(t)
      PROVE  \E x, d : Begins(t, x, d)
  BY <1>4 DEF Begins
<1>5. CASE \/ JNI2Hook_Init(t) \/ JNI2Hook_Uninstall(t) \/ JNI2Hook_UninstallAt(t)
           \/ JNI2Hook_Shutdown(t) \/ JNI2Hook_RedefineClass(t)
  <2>1. /\ UNCHANGED <<hooks, pages, suspended, cache>>
        /\ UNCHANGED <<def, bound>> \/ JNI2Hook_RedefineClass(t)
    BY <1>5 DEF JNI2Hook_Init, JNI2Hook_Uninstall, JNI2Hook_UninstallAt, Uninstall,
       JNI2Hook_Shutdown, JNI2Hook_RedefineClass, registry, vm
  <2>2. CASE lock = NoThread /\ lock' = t /\ ~(JNI2Hook_Install(t) \/ JNI2Hook_InstallAt(t))
    <3>1. lock' # lock
      BY <2>2, ConstantsAssumption
    <3> QED
      BY <1>4, <2>1, <2>2, <3>1, CallBegins
  <2>3. lock = NoThread /\ lock' = t
    BY <1>5 DEF JNI2Hook_Init, JNI2Hook_Uninstall, JNI2Hook_UninstallAt, Uninstall,
       JNI2Hook_Shutdown, JNI2Hook_RedefineClass, Enter
  <2> QED
    BY <1>2, <2>2, <2>3
<1> QED
  BY <1>2, <1>3, <1>5 DEF Call

-----------------------------------------------------------------------------
(* The hooks that are in the class the VM runs *)

\* The class under work has not been rebuilt: not yet, or the attempt failed.
NotRebuilt == op.pc = "apply" \/ (op.pc \in {"refused", "after"} /\ op.result # "OK")
Adding == op.call = "Install" /\ op.rollback = FALSE

\* The hooks known to fit the class: all of them but one an install is adding.
Fitting(c) == IF op.cls = c /\ Adding /\ NotRebuilt THEN Older(c) ELSE Entries(c)

\* The hooks that are in the definition the VM runs.
Committed(c) == IF op.cls = c /\ NotRebuilt THEN Fitting(c) ELSE hooks[c]

\* The bindings of a rebuilt class work: what "register" and "original" exclude.
BindingWorks == op.pc = "bind" => op.result = "OK"

Permutes(s, t) == Embeds(s, t) /\ Embeds(t, s)

LEMMA CommittedNow ==
    ASSUME GoBackInv, NEW c \in Classes
    PROVE  /\ Committed(c) \in Seq(Entry) /\ hooks[c] \in Seq(Entry)
           /\ op.cls # c \/ ~NotRebuilt => Committed(c) = hooks[c]
           /\ op.cls = c /\ NotRebuilt /\ Adding =>
                 Committed(c) = SubSeq(hooks[c], 1, Len(hooks[c]) - 1) /\ hooks[c] # <<>>
           /\ op.cls = c /\ NotRebuilt /\ ~Adding => Committed(c) = Entries(c)
<1>1. TypeInv /\ hooks[c] \in Seq(Entry) /\ Entries(c) \in Seq(Entry)
  BY EntriesNow DEF GoBackInv, EntriesInv, BytesInv
<1>2. op.cls = c /\ NotRebuilt /\ Adding => hooks[c] # <<>>
  BY DEF GoBackInv, CanGoBack, NotRebuilt, Adding, InReapply
<1>3. hooks[c] # <<>> => SubSeq(hooks[c], 1, Len(hooks[c]) - 1) \in Seq(Entry)
  <2> SUFFICES ASSUME hooks[c] # <<>> PROVE SubSeq(hooks[c], 1, Len(hooks[c]) - 1) \in Seq(Entry)
    OBVIOUS
  <2>1. Len(hooks[c]) - 1 \in 0..Len(hooks[c])
    BY <1>1
  <2> QED
    BY <1>1, <2>1, EmbedsCut
<1> QED
  BY <1>1, <1>2, <1>3 DEF Committed, Fitting, Older

LEMMA CommittedThen ==
    ASSUME GoBackInv', NEW c \in Classes
    PROVE  /\ Committed(c)' \in Seq(Entry) /\ hooks'[c] \in Seq(Entry)
           /\ op'.cls # c \/ ~NotRebuilt' => Committed(c)' = hooks'[c]
           /\ op'.cls = c /\ NotRebuilt' /\ Adding' =>
                 Committed(c)' = SubSeq(hooks'[c], 1, Len(hooks'[c]) - 1) /\ hooks'[c] # <<>>
           /\ op'.cls = c /\ NotRebuilt' /\ ~Adding' => Committed(c)' = Entries(c)'
<1>1. TypeInv' /\ hooks'[c] \in Seq(Entry) /\ Entries(c)' \in Seq(Entry)
  BY EntriesThen DEF GoBackInv, EntriesInv, BytesInv
<1>2. op'.cls = c /\ NotRebuilt' /\ Adding' => hooks'[c] # <<>>
  BY DEF GoBackInv, CanGoBack, NotRebuilt, Adding, InReapply
<1>3. hooks'[c] # <<>> => SubSeq(hooks'[c], 1, Len(hooks'[c]) - 1) \in Seq(Entry)
  <2> SUFFICES ASSUME hooks'[c] # <<>>
               PROVE  SubSeq(hooks'[c], 1, Len(hooks'[c]) - 1) \in Seq(Entry)
    OBVIOUS
  <2>1. Len(hooks'[c]) - 1 \in 0..Len(hooks'[c])
    BY <1>1
  <2> QED
    BY <1>1, <2>1, EmbedsCut
<1> QED
  BY <1>1, <1>2, <1>3 DEF Committed, Fitting, Older

\* A call that begins leaves them alone: a new hook is not in the class yet.
LEMMA CommittedAtCall ==
    ASSUME GoBackInv, GoBackInv', NEW t \in Threads, Call(t), NEW c \in Classes
    PROVE  Committed(c)' = Committed(c)
<1>1. TypeInv /\ PhaseInv /\ TypeInv'
  BY DEF GoBackInv, EntriesInv, BytesInv
<1>2. CASE UNCHANGED <<session, registry, cache, pages, vm, lock, op, warned>>
  BY <1>2 DEF Committed, Fitting, Older, Entries, NotRebuilt, Adding, registry
<1>3. ASSUME lock = NoThread PROVE Committed(c) = hooks[c]
  <2>1. ~NotRebuilt
    BY <1>1, <1>3 DEF PhaseInv, Idle, NotRebuilt
  <2> QED
    BY <2>1, CommittedNow
<1>4. ASSUME NEW k, NEW e, BeginsAdding(t, k, e) PROVE Committed(c)' = hooks[c]
  <2>1. /\ op'.cls = k /\ NotRebuilt' /\ Adding' /\ e \in Entry
        /\ hooks[c] \in Seq(Entry)
        /\ c = k => hooks'[c] = Append(hooks[c], e)
        /\ c # k => hooks'[c] = hooks[c]
    BY <1>1, <1>4, EntriesNow DEF BeginsAdding, AddsTail, Fresh, NotRebuilt, Adding
  <2>2. CASE c = k
    <3>1. Committed(c)' = SubSeq(hooks'[c], 1, Len(hooks'[c]) - 1)
      BY <2>1, <2>2, CommittedThen
    <3>2. SubSeq(Append(hooks[c], e), 1, Len(Append(hooks[c], e)) - 1) = hooks[c]
      BY <2>1, AppendAt
    <3> QED
      BY <2>1, <2>2, <3>1, <3>2
  <2>3. CASE c # k
    BY <2>1, <2>3, CommittedThen
  <2> QED
    BY <2>2, <2>3
<1>5. ASSUME NEW call, NEW d, Begins(t, call, d) PROVE Committed(c)' = hooks[c]
  <2>1. ~NotRebuilt' /\ hooks' = hooks
    BY <1>5 DEF Begins, NotRebuilt
  <2> QED
    BY <2>1, CommittedThen
<1> QED
  BY <1>1, <1>2, <1>3, <1>4, <1>5, CallCases DEF BeginsAdding, Begins

\* Only a rebuild changes them, as long as bindings work: entries are put in
\* another order, moved aside and back, and a hook that did not get into the
\* class is cut off, but none that is in the class is lost.
LEMMA CommittedAtStep ==
    ASSUME GoBackInv, GoBackInv', Step, ~RedefineClasses, BindingWorks,
           ShutdownClassDone => op.result = "OK", NEW c \in Classes
    PROVE  Permutes(Committed(c)', Committed(c))
<1>1. TypeInv /\ PhaseInv /\ TypeInv'
  BY DEF GoBackInv, EntriesInv, BytesInv
<1>2. /\ Committed(c) \in Seq(Entry) /\ hooks[c] \in Seq(Entry)
      /\ op.cls # c \/ ~NotRebuilt => Committed(c) = hooks[c]
      /\ op.cls = c /\ NotRebuilt /\ Adding =>
            Committed(c) = SubSeq(hooks[c], 1, Len(hooks[c]) - 1) /\ hooks[c] # <<>>
      /\ op.cls = c /\ NotRebuilt /\ ~Adding => Committed(c) = Entries(c)
  BY CommittedNow
<1>3. /\ Committed(c)' \in Seq(Entry) /\ hooks'[c] \in Seq(Entry)
      /\ op'.cls # c \/ ~NotRebuilt' => Committed(c)' = hooks'[c]
      /\ op'.cls = c /\ NotRebuilt' /\ Adding' =>
            Committed(c)' = SubSeq(hooks'[c], 1, Len(hooks'[c]) - 1) /\ hooks'[c] # <<>>
      /\ op'.cls = c /\ NotRebuilt' /\ ~Adding' => Committed(c)' = Entries(c)'
  BY CommittedThen
<1>4. /\ op.cls # c \/ op.pc = "return" \/ op.aside = <<>> => Entries(c) = hooks[c]
      /\ op'.cls # c \/ op'.pc = "return" \/ op'.aside = <<>> => Entries(c)' = hooks'[c]
      /\ hooks \in [Classes -> Seq(Entry)]
  BY <1>1, EntriesNow, EntriesThen
<1>5. ASSUME ~Frees PROVE Permutes(Entries(c)', Entries(c))
  BY <1>1, <1>5, StepKeepsEntries DEF SameEntries, Permutes
<1>6. ASSUME Committed(c)' = Committed(c) PROVE Permutes(Committed(c)', Committed(c))
  BY <1>6, EmbedsSelf DEF Permutes
<1>7. ASSUME ~NotRebuilt, ~NotRebuilt', UNCHANGED hooks PROVE Permutes(Committed(c)', Committed(c))
  BY <1>2, <1>3, <1>6, <1>7
<1>8. CASE ReapplyFails \/ RedefineRefused \/ ResumeRefused
  <2>1. UNCHANGED hooks
    BY <1>8 DEF ReapplyFails, RedefineRefused, ResumeRefused, registry
  <2>2. /\ SameWork /\ op.pc # "return" /\ op'.pc # "return"
        /\ NotRebuilt' = NotRebuilt /\ Adding' = Adding
    BY <1>1, <1>8, ReapplyLocals DEF NotRebuilt, Adding, SameWork, SameCall
  <2>3. Committed(c)' = Committed(c)
    BY <2>1, <2>2 DEF Committed, Fitting, Older, Entries, SameWork
  <2> QED
    BY <1>6, <2>3
<1>9. CASE RegisterNative
  <2>1. UNCHANGED hooks /\ op.pc = "bind" /\ op'.pc = "bind"
    BY <1>1, <1>9, RegisterLocals DEF RegisterNative, registry
  <2> QED
    BY <1>7, <2>1 DEF NotRebuilt
<1>10. CASE ResumeOthers
  <2>1. UNCHANGED hooks /\ op.pc = "bind" /\ op'.pc = "after" /\ op'.result = op.result
    BY <1>1, <1>10, ReapplyLocals DEF ResumeOthers, registry
  <2> QED
    BY <1>7, <2>1 DEF NotRebuilt, BindingWorks
<1>11. CASE InstallDone \/ UninstallDone \/ ShutdownClassDone
  <2>1. UNCHANGED hooks /\ op.pc = "after" /\ op.result = "OK"
    BY <1>11 DEF InstallDone, UninstallDone, ShutdownClassDone, registry
  <2>2. op'.pc \in {"return", "next"}
    BY <1>1, <1>11, ReturnLocals, ShutdownLocals DEF InstallDone, UninstallDone
  <2> QED
    BY <1>7, <2>1, <2>2 DEF NotRebuilt
<1>12. CASE ShutdownFinish \/ Return
  <2>1. UNCHANGED hooks /\ op.pc \in {"next", "return"}
    BY <1>12 DEF ShutdownFinish, Return, registry
  <2>2. op'.pc \in {"return", "idle"}
    BY <1>1, <1>12, ReturnLocals DEF ShutdownFinish, Return, Idle
  <2> QED
    BY <1>7, <2>1, <2>2 DEF NotRebuilt
<1>13. CASE InstallUndone
  <2>1. /\ UNCHANGED hooks /\ op.pc = "after" /\ op.call = "Install" /\ op.rollback = TRUE
        /\ op' = Returning(op, op.first)
    BY <1>1, <1>13 DEF InstallUndone, registry, TypeInv, TypeOK, OpType
  <2>2. op.aside = <<>> /\ ~Adding
    BY <1>1, <2>1 DEF PhaseInv, Adding
  <2>3. op'.pc = "return"
    BY <1>1, <2>1, ReturnLocals
  <2>4. Committed(c) = hooks[c] /\ Committed(c)' = hooks'[c]
    BY <1>2, <1>3, <1>4, <2>2, <2>3 DEF NotRebuilt
  <2> QED
    BY <1>6, <2>1, <2>4
<1>14. CASE InstallUndo
  <2>1. /\ op.pc = "after" /\ op.result # "OK" /\ op.call = "Install" /\ op.rollback = FALSE
        /\ hooks' = [hooks EXCEPT ![op.cls] = SubSeq(@, 1, Len(hooks[op.cls]) - 1)]
    BY <1>1, <1>14 DEF InstallUndo, TypeInv, TypeOK, OpType
  <2>2. op.aside = <<>> /\ Adding /\ NotRebuilt
    BY <1>1, <2>1 DEF PhaseInv, Adding, NotRebuilt
  <2>3. /\ op'.cls = op.cls /\ op'.aside = <<>>
        /\ op'.pc = "return" \/ op'.rollback = TRUE
    BY <1>1, <1>14, <2>2, ReturnLocals, RollbackLocals DEF InstallUndo, SameWork
  <2>4. Committed(c)' = hooks'[c]
    BY <1>3, <1>4, <2>3 DEF NotRebuilt, Adding
  <2>5. Committed(c) = hooks'[c]
    BY <1>2, <1>4, <2>1, <2>2
  <2> QED
    BY <1>6, <2>4, <2>5
<1>15. CASE PartitionStep
  <2>1. op.pc = "scan" /\ op'.pc = "scan"
    BY <1>1, <1>15, PartitionLocals
  <2>2. op.aside = <<>> /\ op'.aside = <<>> /\ ~Frees
    BY <1>1, <1>15, <2>1, PartitionLocals
       DEF PhaseInv, SameWork, Frees, InstallUndo, UninstallDone, ShutdownClassDone
  <2>3. Committed(c) = Entries(c) /\ Committed(c)' = Entries(c)'
    BY <1>2, <1>3, <1>4, <2>1, <2>2 DEF NotRebuilt
  <2> QED
    BY <1>5, <2>2, <2>3
<1>16. CASE PartitionDone \/ UninstallUndo \/ ShutdownClass
  <2>1. ~Frees
    BY <1>16 DEF Frees, InstallUndo, UninstallDone, ShutdownClassDone, PartitionDone,
       UninstallUndo, ShutdownClass
  <2>2. Committed(c) = Entries(c)
    <3>1. CASE PartitionDone \/ ShutdownClass
      <4>1. op.aside = <<>> /\ ~NotRebuilt
        BY <1>1, <3>1 DEF PartitionDone, ShutdownClass, PhaseInv, NotRebuilt
      <4> QED
        BY <1>2, <1>4, <4>1
    <3>2. CASE UninstallUndo
      <4>1. ~Adding /\ NotRebuilt
        BY <3>2 DEF UninstallUndo, Adding, NotRebuilt
      <4> QED
        BY <1>2, <1>4, <4>1
    <3> QED
      BY <1>16, <3>1, <3>2
  <2>3. Committed(c)' = Entries(c)'
    <3>1. op'.pc = "return" \/ (op'.pc = "apply" /\ op'.call # "Install")
      <4>1. CASE PartitionDone
        BY <1>1, <4>1, PartitionDoneLocals DEF SameCall, PhaseInv, CallKnown
      <4>2. CASE ShutdownClass
        BY <1>1, <4>2, ShutdownLocals DEF SameCall, PhaseInv, CallKnown
      <4>3. CASE UninstallUndo
        BY <1>1, <4>3, ReturnLocals DEF UninstallUndo
      <4> QED
        BY <1>16, <4>1, <4>2, <4>3
    <3>2. CASE op'.pc = "return"
      BY <1>3, <1>4, <3>2 DEF NotRebuilt
    <3>3. CASE op'.pc = "apply" /\ op'.call # "Install"
      BY <1>3, <1>4, <3>3 DEF NotRebuilt, Adding
    <3> QED
      BY <3>1, <3>2, <3>3
  <2> QED
    BY <1>5, <2>1, <2>2, <2>3
<1> QED
  BY <1>8, <1>9, <1>10, <1>11, <1>12, <1>13, <1>14, <1>15, <1>16 DEF Step

\* The loop that binds is entered from RedefineClasses only.
LEMMA OnlyReapplyBinds ==
    ASSUME TypeInv, Step, ~(RedefineClasses \/ RegisterNative)
    PROVE  op'.pc # "bind"
<1>1. CASE ReapplyFails \/ RedefineRefused \/ ResumeOthers \/ ResumeRefused
  BY <1>1, ReapplyLocals
<1>2. CASE InstallDone \/ InstallUndone \/ UninstallDone \/ UninstallUndo \/ ShutdownFinish
  BY <1>2, ReturnLocals
     DEF InstallDone, InstallUndone, UninstallDone, UninstallUndo, ShutdownFinish
<1>3. CASE InstallUndo
  BY <1>3, ReturnLocals, RollbackLocals DEF InstallUndo
<1>4. CASE PartitionStep \/ PartitionDone
  BY <1>4, PartitionLocals, PartitionDoneLocals
<1>5. CASE ShutdownClass \/ ShutdownClassDone
  BY <1>5, ShutdownLocals
<1>6. CASE Return
  BY <1>6 DEF Return, Idle
<1> QED
  BY <1>1, <1>2, <1>3, <1>4, <1>5, <1>6 DEF Step

LEMMA BindingNext ==
    ASSUME {"register", "original"} \intersect Faults = {}, TypeInv, BindingWorks, [Next]_vars
    PROVE  BindingWorks'
<1>1. ASSUME NEW t \in Threads, Call(t) PROVE BindingWorks'
  BY <1>1, CallBegins DEF BindingWorks
<1>2. CASE RedefineClasses
  BY <1>2, ReapplyLocals DEF BindingWorks
<1>3. CASE RegisterNative
  <2>1. op.pc = "bind" /\ op' = [op EXCEPT !.i = @ + 1] /\ op \in OpType
    BY <1>3 DEF RegisterNative, TypeInv, TypeOK
  <2>2. op'.result = op.result
    BY <2>1 DEF OpType
  <2> QED
    BY <2>1, <2>2 DEF BindingWorks
<1>4. CASE Step /\ ~(RedefineClasses \/ RegisterNative)
  BY <1>4, OnlyReapplyBinds DEF BindingWorks
<1>5. CASE UNCHANGED vars
  BY <1>5 DEF vars, BindingWorks
<1> QED
  BY <1>1, <1>2, <1>3, <1>4, <1>5 DEF Next

\* A step goes on with the call under way, or ends it.
LEMMA StepSameCall ==
    ASSUME TypeInv, Step, ~Return
    PROVE  SameCall
<1>1. CASE ReapplyFails \/ RedefineRefused \/ RedefineClasses \/ ResumeOthers \/ ResumeRefused
  BY <1>1, ReapplyLocals DEF SameWork
<1>2. CASE RegisterNative
  BY <1>2, RegisterLocals DEF SameWork
<1>3. CASE InstallDone \/ InstallUndone \/ UninstallDone \/ UninstallUndo \/ ShutdownFinish
  BY <1>3, ReturnLocals
     DEF InstallDone, InstallUndone, UninstallDone, UninstallUndo, ShutdownFinish, SameWork
<1>4. CASE InstallUndo
  BY <1>4, ReturnLocals, RollbackLocals DEF InstallUndo, SameWork
<1>5. CASE PartitionStep \/ PartitionDone
  BY <1>5, PartitionLocals, PartitionDoneLocals DEF SameWork
<1>6. CASE ShutdownClass \/ ShutdownClassDone
  BY <1>6, ShutdownLocals
<1> QED
  BY <1>1, <1>2, <1>3, <1>4, <1>5, <1>6 DEF Step

-----------------------------------------------------------------------------
(* The edits of a rebuilt class *)

Edits(hs) == {EditOf(hs[i]) : i \in 1..Len(hs)}
Pairs(hs) == {<<EditOf(hs[i]), hs[i].id>> : i \in 1..Len(hs)}

LEMMA BuildEdits ==
    ASSUME NEW b \in Definition, NEW hs \in Seq(Entry)
    PROVE  EditSet(Build(b, hs)) = EditSet(b) \union Edits(hs) /\ Build(b, hs).ver = b.ver
<1> DEFINE x == b.edits
           y == EditsOf(hs)
           n == Len(x)
           m == Len(hs)
<1>1. Build(b, hs).edits = x \o y /\ Build(b, hs).ver = b.ver
  BY DEF Build
<1>2. x \in Seq(Edit) /\ n \in Nat /\ m \in Nat
  BY DEF Definition
<1>3. y \in Seq(Edit) /\ Len(y) = m /\ \A i \in 1..m : y[i] = EditOf(hs[i])
  <2>1. \A i \in 1..m : EditOf(hs[i]) \in Edit
    BY EditOfType
  <2> QED
    BY <1>2, <2>1 DEF EditsOf
<1> HIDE DEF x, y, m
<1>4. /\ Len(x \o y) = n + m
      /\ \A i \in 1..n : (x \o y)[i] = x[i]
      /\ \A i \in 1..m : (x \o y)[n + i] = y[i]
  BY <1>2, <1>3
<1> HIDE DEF n
<1>5. ASSUME NEW i \in 1..(n + m)
      PROVE  (x \o y)[i] \in {x[k] : k \in 1..n} \union {y[k] : k \in 1..m}
  <2>1. i \in 1..n \/ i - n \in 1..m
    BY <1>2
  <2>2. CASE i \in 1..n
    BY <1>4, <2>2
  <2>3. CASE i - n \in 1..m
    <3>1. (x \o y)[n + (i - n)] = y[i - n]
      BY <1>4, <2>3
    <3>2. n + (i - n) = i
      BY <1>2
    <3> QED
      BY <2>3, <3>1, <3>2
  <2> QED
    BY <2>1, <2>2, <2>3
<1>6. \A i \in 1..n : i \in 1..(n + m)
  BY <1>2
<1>7. \A i \in 1..m : n + i \in 1..(n + m)
  BY <1>2
<1>8. {(x \o y)[i] : i \in 1..(n + m)} = {x[k] : k \in 1..n} \union {y[k] : k \in 1..m}
  <2>1. ASSUME NEW i \in 1..n PROVE x[i] \in {(x \o y)[k] : k \in 1..(n + m)}
    BY <1>4, <1>6
  <2>2. ASSUME NEW i \in 1..m PROVE y[i] \in {(x \o y)[k] : k \in 1..(n + m)}
    BY <1>4, <1>7
  <2> QED
    BY <1>5, <2>1, <2>2
<1>9. EditSet(b) = {x[k] : k \in 1..n}
  BY DEF EditSet, x, n
<1>10. Edits(hs) = {y[k] : k \in 1..m}
  BY <1>3 DEF Edits, m
<1>11. EditSet(Build(b, hs)) = {(x \o y)[i] : i \in 1..(n + m)}
  BY <1>1, <1>4 DEF EditSet
<1> QED
  BY <1>1, <1>8, <1>9, <1>10, <1>11

LEMMA EmbedsEdits ==
    ASSUME NEW s, NEW t, Embeds(s, t)
    PROVE  Edits(s) \subseteq Edits(t) /\ Pairs(s) \subseteq Pairs(t)
<1>1. PICK f \in [1..Len(s) -> 1..Len(t)] : \A i \in 1..Len(s) : s[i] = t[f[i]]
  BY DEF Embeds
<1>2. \A i \in 1..Len(s) : f[i] \in 1..Len(t)
  BY <1>1
<1> QED
  BY <1>1, <1>2 DEF Edits, Pairs

LEMMA PermutesEdits ==
    ASSUME NEW s, NEW t, Permutes(s, t)
    PROVE  Edits(s) = Edits(t) /\ Pairs(s) = Pairs(t)
  BY EmbedsEdits DEF Permutes

LEMMA NoEdits == Edits(<<>>) = {} /\ Pairs(<<>>) = {}
  BY DEF Edits, Pairs

\* What RedefineClasses, RegisterNatives and the end of a shutdown alone change.
LEMMA StepKeepsVm ==
    ASSUME Step
    PROVE  /\ RedefineClasses \/ UNCHANGED def
           /\ RedefineClasses \/ RegisterNative \/ UNCHANGED bound
           /\ ShutdownFinish \/ UNCHANGED cache
  BY DEF Step, ReapplyFails, RedefineRefused, RedefineClasses, RegisterNative, ResumeOthers,
     ResumeRefused, InstallDone,
     InstallUndo, InstallUndone, PartitionStep, PartitionDone, UninstallDone, UninstallUndo,
     ShutdownClass, ShutdownClassDone, ShutdownFinish, Return, vm

\* A class is captured before it has hooks.
LEMMA CaptureIsClean ==
    ASSUME BytesInv, NEW k \in Classes, cache' = Captured(k), NEW c \in Classes
    PROVE  cache'[c] = cache[c] \/ (cache[c] = NoDef /\ cache'[c] = def[c] /\ hooks[c] = <<>>)
<1>1. cache \in [Classes -> Definition \union {NoDef}]
  BY DEF BytesInv, TypeInv, TypeOK
<1>2. cache[c] = NoDef => hooks[c] = <<>>
  BY DEF BytesInv, RebuildHasItsBytes, IsTracked
<1> QED
  BY <1>1, <1>2 DEF Captured

LEMMA RebuiltClass ==
    ASSUME GoBackInv, GoBackInv', RedefineClasses
    PROVE  /\ op.cls \in Classes /\ cache[op.cls] \in Definition
           /\ Build(cache[op.cls], hooks[op.cls]) \in Definition
           /\ def' = [def EXCEPT ![op.cls] = Build(cache[op.cls], hooks[op.cls])]
           /\ bound' = KeepBound(op.cls, Build(cache[op.cls], hooks[op.cls]))
           /\ hooks[op.cls] = <<>> \/ CanApply(cache[op.cls], hooks[op.cls])
           /\ UNCHANGED <<hooks, cache, pages, warned>> /\ SameWork /\ op.pc = "apply"
           /\ op'.pc = "bind" /\ op'.i = 1
           /\ \A c \in Classes : Committed(c)' = hooks[c]
           /\ \A c \in Classes : c # op.cls => Committed(c) = hooks[c]
<1>1. TypeInv
  BY DEF GoBackInv, EntriesInv, BytesInv
<1>2. op.cls \in Classes /\ op.pc = "apply"
  BY <1>1 DEF RedefineClasses, TypeInv, ClassChosen, InReapply
<1>3. Prepare(op.cls) = "OK"
  BY DEF RedefineClasses
<1>4. cache[op.cls] # NoDef
  BY <1>3 DEF Prepare
<1>5. hooks[op.cls] = <<>> \/ CanApply(cache[op.cls], hooks[op.cls])
  BY <1>3, <1>4 DEF Prepare
<1>6. cache[op.cls] \in Definition /\ hooks[op.cls] \in Seq(Entry)
  BY <1>1, <1>2, <1>4 DEF TypeInv, TypeOK
<1>7. SameWork /\ op'.pc = "bind" /\ op'.i = 1
  BY <1>1, ReapplyLocals
<1>8. UNCHANGED <<hooks, cache, pages, warned>>
  BY DEF RedefineClasses, registry
<1>9. \A c \in Classes : Committed(c)' = hooks[c]
  BY <1>7, <1>8, CommittedThen DEF NotRebuilt
<1>10. \A c \in Classes : c # op.cls => Committed(c) = hooks[c]
  BY CommittedNow
<1> QED
  BY <1>2, <1>5, <1>6, <1>7, <1>8, <1>9, <1>10, BuildType DEF RedefineClasses

-----------------------------------------------------------------------------
(* The VM runs the registered hooks *)

LiveClass(c) ==
    cache[c] # NoDef =>
        /\ def[c].ver = cache[c].ver
        /\ EditSet(def[c]) = EditSet(Build(cache[c], Committed(c)))

\* Every captured class runs its captured bytes with the hooks committed to it;
\* a shutdown restores classes and forgets the bytes.
LiveInv ==
    /\ op.call # "Shutdown" => \A c \in Classes : LiveClass(c)
    /\ op.call = "Shutdown" /\ op.pc = "return" => \A c \in Classes : cache[c] = NoDef

LEMMA LiveKept ==
    ASSUME GoBackInv, GoBackInv', NEW c \in Classes, LiveClass(c), cache'[c] = cache[c],
           def'[c] = def[c], Permutes(Committed(c)', Committed(c))
    PROVE  LiveClass(c)'
<1> SUFFICES ASSUME cache[c] # NoDef
             PROVE  /\ def'[c].ver = cache'[c].ver
                    /\ EditSet(def'[c]) = EditSet(Build(cache'[c], Committed(c)'))
  <2>1. EditSet(def[c])' = EditSet(def'[c])
    BY DEF EditSet
  <2>2. EditSet(Build(cache[c], Committed(c)))' = EditSet(Build(cache'[c], Committed(c)'))
    BY DEF EditSet, Build, EditsOf, EditOf
  <2> QED
    BY <2>1, <2>2 DEF LiveClass
<1>1. cache[c] \in Definition
  BY DEF GoBackInv, EntriesInv, BytesInv, TypeInv, TypeOK
<1>2. Committed(c) \in Seq(Entry) /\ Committed(c)' \in Seq(Entry)
  BY CommittedNow, CommittedThen
<1>3. Edits(Committed(c)') = Edits(Committed(c))
  BY PermutesEdits
<1>4. EditSet(Build(cache[c], Committed(c)')) = EditSet(Build(cache[c], Committed(c)))
  BY <1>1, <1>2, <1>3, BuildEdits
<1> QED
  BY <1>4 DEF LiveClass

LEMMA LiveNext ==
    ASSUME {"register", "original"} \intersect Faults = {}, Versions = {},
           GoBackInv, GoBackInv', BindingWorks, LiveInv, [Next]_vars
    PROVE  LiveInv'
<1>1. TypeInv /\ PhaseInv /\ TypeInv' /\ BytesInv /\ BytesInv'
  BY DEF GoBackInv, EntriesInv, BytesInv
<1>2. ASSUME NEW t \in Threads, Call(t) PROVE LiveInv'
  <2>1. CASE UNCHANGED <<session, registry, cache, pages, vm, lock, op, warned>>
    <3>1. op' = op /\ cache' = cache /\ def' = def /\ hooks' = hooks
      BY <2>1 DEF vm, registry
    <3>2. \A c \in Classes : Permutes(Committed(c)', Committed(c))
      BY <1>2, CommittedAtCall, EmbedsSelf DEF Permutes
    <3>3. \A c \in Classes : LiveClass(c) => LiveClass(c)'
      BY <3>1, <3>2, LiveKept
    <3> QED
      BY <3>1, <3>3 DEF LiveInv
  <2>2. CASE /\ lock = NoThread /\ def' = def
             /\ op'.call = "Shutdown" => op'.pc # "return"
             /\ cache' = cache \/ \E k \in Classes : cache' = Captured(k)
    <3>1. \A c \in Classes : LiveClass(c) /\ Committed(c) = hooks[c]
      <4>1. op.call = "none" /\ op.pc = "idle"
        BY <1>1, <2>2 DEF PhaseInv, Idle
      <4> QED
        BY <4>1, CommittedNow DEF LiveInv, NotRebuilt
    <3>2. ASSUME NEW c \in Classes PROVE LiveClass(c)'
      <4>1. Committed(c)' = Committed(c) /\ Permutes(Committed(c)', Committed(c))
        BY <1>2, CommittedAtCall, EmbedsSelf DEF Permutes
      <4>2. CASE cache'[c] = cache[c]
        BY <2>2, <3>1, <4>1, <4>2, LiveKept
      <4>3. CASE cache'[c] = def[c] /\ hooks[c] = <<>>
        <5>1. def[c] \in Definition /\ <<>> \in Seq(Entry)
          BY <1>1 DEF TypeInv, TypeOK
        <5>2. EditSet(Build(def[c], <<>>)) = EditSet(def[c])
          BY <5>1, BuildEdits, NoEdits
        <5>3. Committed(c)' = <<>>
          BY <3>1, <4>1, <4>3
        <5>4. EditSet(Build(cache[c], Committed(c)))' = EditSet(Build(cache'[c], Committed(c)'))
          BY DEF EditSet, Build, EditsOf, EditOf
        <5>5. EditSet(def[c])' = EditSet(def'[c])
          BY DEF EditSet
        <5>6. EditSet(def[c])' = EditSet(Build(cache[c], Committed(c)))'
          BY <2>2, <4>3, <5>2, <5>3, <5>4, <5>5
        <5>7. (def[c].ver = cache[c].ver)'
          BY <2>2, <4>3
        <5> QED
          BY <5>6, <5>7 DEF LiveClass
      <4> QED
        BY <1>1, <2>2, <4>2, <4>3, CaptureIsClean
    <3> QED
      BY <2>2, <3>2 DEF LiveInv
  <2>3. ~JNI2Hook_RedefineClass(t)
    BY DEF JNI2Hook_RedefineClass
  <2>4. ASSUME NEW k, NEW e, BeginsAdding(t, k, e) PROVE LiveInv'
    <3>1. lock = NoThread /\ def' = def /\ op'.call = "Install" /\ cache' = Captured(k) /\ k \in Classes
      BY <2>4 DEF BeginsAdding, AddsTail, Fresh, vm
    <3> QED
      BY <2>2, <3>1
  <2>5. ASSUME NEW call, NEW c, Begins(t, call, c) PROVE LiveInv'
    <3>1. /\ lock = NoThread /\ def' = def
          /\ op'.call = "Shutdown" => op'.pc # "return"
          /\ cache' = cache \/ \E k \in Classes : cache' = Captured(k)
      BY <2>3, <2>5 DEF Begins, Fresh
    <3> QED
      BY <2>2, <3>1
  <2> QED
    BY <1>1, <1>2, <2>1, <2>4, <2>5, CallCases
<1>3. CASE UNCHANGED vars
  <2>1. op' = op /\ cache' = cache /\ def' = def /\ hooks' = hooks
    BY <1>3 DEF vars, vm, registry
  <2>2. \A c \in Classes : Committed(c)' = Committed(c)
    BY <2>1 DEF Committed, Fitting, Older, Entries, NotRebuilt, Adding
  <2>3. \A c \in Classes : LiveClass(c) => LiveClass(c)'
    BY <2>1, <2>2, LiveKept, EmbedsSelf DEF Permutes
  <2> QED
    BY <2>1, <2>3 DEF LiveInv
<1>4. CASE Step /\ op.call = "Shutdown" /\ ~Return
  <2>1. op'.call = "Shutdown"
    BY <1>1, <1>4, StepSameCall DEF SameCall
  <2>2. ASSUME op'.pc = "return" PROVE \A c \in Classes : cache'[c] = NoDef
    <3>1. ShutdownFinish
      BY <1>1, <1>4, <2>1, <2>2, ShutdownReturns
    <3> QED
      BY <3>1 DEF ShutdownFinish
  <2> QED
    BY <2>1, <2>2 DEF LiveInv
<1>5. CASE Step /\ op.call = "Shutdown" /\ Return
  <2>1. op.pc = "return" /\ op'.pc = "idle" /\ cache' = cache
    BY <1>5 DEF Return, Idle
  <2>2. \A c \in Classes : LiveClass(c)'
    BY <1>5, <2>1 DEF LiveInv, LiveClass
  <2> QED
    BY <2>1, <2>2 DEF LiveInv
<1>6. CASE Step /\ op.call # "Shutdown" /\ ~RedefineClasses
  <2>1. ~ShutdownFinish /\ ~ShutdownClassDone
    BY <1>1, <1>6 DEF ShutdownFinish, ShutdownClassDone, PhaseInv, CallKnown
  <2>2. cache' = cache /\ def' = def
    BY <1>6, <2>1, StepKeepsVm
  <2>3. \A c \in Classes : Permutes(Committed(c)', Committed(c))
    BY <1>6, <2>1, CommittedAtStep
  <2>4. \A c \in Classes : LiveClass(c)'
    BY <1>6, <2>2, <2>3, LiveKept DEF LiveInv
  <2>5. ~(op'.call = "Shutdown" /\ op'.pc = "return")
    BY <1>1, <1>6, <2>1, ShutdownReturns
  <2> QED
    BY <2>4, <2>5 DEF LiveInv
<1>7. CASE RedefineClasses /\ op.call # "Shutdown"
  <2>1. PICK k \in Classes : k = op.cls
    BY <1>7, RebuiltClass
  <2>2. /\ cache[k] \in Definition /\ Build(cache[k], hooks[k]) \in Definition
        /\ def' = [def EXCEPT ![k] = Build(cache[k], hooks[k])]
        /\ UNCHANGED <<hooks, cache>> /\ op'.pc = "bind"
        /\ \A c \in Classes : Committed(c)' = hooks[c]
        /\ \A c \in Classes : c # k => Committed(c) = hooks[c]
    BY <1>7, <2>1, RebuiltClass
  <2>3. def \in [Classes -> Definition] /\ hooks[k] \in Seq(Entry)
    BY <1>1 DEF TypeInv, TypeOK
  <2>4. ASSUME NEW c \in Classes, c # k PROVE LiveClass(c)'
    <3>1. def'[c] = def[c] /\ cache'[c] = cache[c] /\ Committed(c)' = Committed(c)
      BY <2>2, <2>3, <2>4
    <3> QED
      BY <1>7, <3>1, LiveKept, EmbedsSelf DEF LiveInv, Permutes
  <2>5. LiveClass(k)'
    <3>1. def'[k] = Build(cache'[k], Committed(k)') /\ def'[k].ver = cache'[k].ver
      BY <2>2, <2>3, BuildEdits
    <3>2. EditSet(def[k])' = EditSet(Build(cache[k], Committed(k)))'
      <4>1. EditSet(def[k])' = EditSet(def'[k])
        BY DEF EditSet
      <4>2. EditSet(Build(cache[k], Committed(k)))' = EditSet(Build(cache'[k], Committed(k)'))
        BY DEF EditSet, Build, EditsOf, EditOf
      <4> QED
        BY <3>1, <4>1, <4>2
    <3> QED
      BY <3>1, <3>2 DEF LiveClass
  <2>6. \A c \in Classes : LiveClass(c)'
    BY <2>4, <2>5
  <2> QED
    BY <2>2, <2>6 DEF LiveInv
<1> QED
  BY <1>2, <1>3, <1>4, <1>5, <1>6, <1>7 DEF Next, RedefineClasses, Return

\* Unless RegisterNatives or the lookup of a parked copy fails, or the user
\* redefines a class, the VM runs, between calls, the captured bytes of every
\* captured class with exactly the tracked hooks, whatever else was refused:
\* a rebuild that fails leaves the hooks that are in the class (reapply).
THEOREM VmMatchesRegistry ==
    ASSUME {"register", "original"} \intersect Faults = {}, Versions = {}
    PROVE  Spec => []LiveMatchesRegistry
<1> DEFINE Inv == GoBackInv /\ BindingWorks /\ LiveInv
<1>1. Init => Inv
  <2>1. Init => BindingWorks /\ LiveInv
    BY DEF Init, Idle, BindingWorks, LiveInv, LiveClass
  <2> QED
    BY <2>1, GoBackInit
<1>2. Inv /\ [Next]_vars => Inv'
  <2> SUFFICES ASSUME Inv, [Next]_vars PROVE Inv'
    OBVIOUS
  <2>1. GoBackInv'
    BY GoBackNext
  <2>2. TypeInv
    BY DEF GoBackInv, EntriesInv, BytesInv
  <2> QED
    BY <2>1, <2>2, BindingNext, LiveNext
<1>3. Inv => LiveMatchesRegistry
  <2> SUFFICES ASSUME Inv, lock = NoThread, NEW c \in Classes, cache[c] # NoDef
               PROVE  /\ EditSet(def[c]) = EditSet(Build(cache[c], hooks[c]))
                      /\ def[c].ver = cache[c].ver
    BY DEF LiveMatchesRegistry
  <2>1. op.call = "none" /\ op.pc = "idle"
    BY DEF GoBackInv, EntriesInv, PhaseInv, Idle
  <2>2. Committed(c) = hooks[c]
    BY <2>1, CommittedNow DEF NotRebuilt
  <2> QED
    BY <2>1, <2>2 DEF LiveInv, LiveClass
<1> QED
  BY <1>1, <1>2, <1>3, PTL DEF Spec

-----------------------------------------------------------------------------
(* A failed call leaves the edits the VM runs *)

\* The hooks the call under way found in the class it works on.
Found(c) == IF Adding THEN Older(c) ELSE Entries(c)

BeforeClass(c) ==
    /\ c # op.cls \/ op.pc = "scan" => def[c] = op.before[c]
    /\ c = op.cls /\ op.pc \in Reapplying =>
          EditSet(op.before[c]) = EditSet(cache[c]) \union Edits(Found(c))
    /\ op.pc = "return" /\ op.result # "OK" => EditSet(def[c]) = EditSet(op.before[c])
BeforeInv == op.call \in {"Install", "Uninstall"} => \A c \in Classes : BeforeClass(c)

\* What LiveInv says of the class under work.
LEMMA LiveAtWork ==
    ASSUME GoBackInv, LiveInv, op.call # "Shutdown", op.pc \in Reapplying, NEW c \in Classes,
           c = op.cls
    PROVE  EditSet(def[c]) = EditSet(cache[c]) \union Edits(Committed(c))
<1>1. cache[c] # NoDef
  BY DEF GoBackInv, EntriesInv, BytesInv, RebuildHasItsBytes, IsTracked, Reapplying
<1>2. cache[c] \in Definition
  BY <1>1 DEF GoBackInv, EntriesInv, BytesInv, TypeInv, TypeOK
<1>3. Committed(c) \in Seq(Entry)
  BY CommittedNow
<1> QED
  BY <1>1, <1>2, <1>3, BuildEdits DEF LiveInv, LiveClass

LEMMA LiveAtWorkThen ==
    ASSUME GoBackInv', LiveInv', op'.call # "Shutdown", op'.pc \in Reapplying, NEW c \in Classes,
           c = op'.cls
    PROVE  EditSet(def'[c]) = EditSet(cache'[c]) \union Edits(Committed(c)')
<1>1. cache'[c] # NoDef
  BY DEF GoBackInv, EntriesInv, BytesInv, RebuildHasItsBytes, IsTracked, Reapplying
<1>2. cache'[c] \in Definition
  BY <1>1 DEF GoBackInv, EntriesInv, BytesInv, TypeInv, TypeOK
<1>3. Committed(c)' \in Seq(Entry)
  BY CommittedThen
<1>4. EditSet(def[c])' = EditSet(def'[c])
  BY DEF EditSet
<1>5. EditSet(Build(cache[c], Committed(c)))' = EditSet(Build(cache'[c], Committed(c)'))
  BY DEF EditSet, Build, EditsOf, EditOf
<1>6. EditSet(Build(cache'[c], Committed(c)')) = EditSet(cache'[c]) \union Edits(Committed(c)')
  BY <1>2, <1>3, BuildEdits
<1> QED
  BY <1>1, <1>4, <1>5, <1>6 DEF LiveInv, LiveClass

\* The primes of BeforeClass, pushed inward.
LEMMA BeforeThen ==
    ASSUME NEW c \in Classes,
           c # op'.cls \/ op'.pc = "scan" => def'[c] = op'.before[c],
           c = op'.cls /\ op'.pc \in Reapplying =>
               EditSet(op'.before[c]) = EditSet(cache'[c]) \union Edits(Found(c)'),
           op'.pc = "return" /\ op'.result # "OK" => EditSet(def'[c]) = EditSet(op'.before[c])
    PROVE  BeforeClass(c)'
<1>1. /\ EditSet(op.before[c])' = EditSet(op'.before[c]) /\ EditSet(cache[c])' = EditSet(cache'[c])
      /\ EditSet(def[c])' = EditSet(def'[c])
  BY DEF EditSet
<1>2. Edits(Found(c))' = Edits(Found(c)')
  BY DEF Edits, EditOf
<1> QED
  BY <1>1, <1>2 DEF BeforeClass

\* A call begins: nothing has changed yet.
LEMMA BeforeAtCall ==
    ASSUME Versions = {}, GoBackInv, GoBackInv', LiveInv', BeforeInv, NEW t \in Threads, Call(t)
    PROVE  BeforeInv'
<1>1. TypeInv /\ PhaseInv /\ TypeInv'
  BY DEF GoBackInv, EntriesInv, BytesInv
<1>2. CASE UNCHANGED <<session, registry, cache, pages, vm, lock, op, warned>>
  <2>1. op' = op /\ cache' = cache /\ def' = def /\ hooks' = hooks
    BY <1>2 DEF vm, registry
  <2>2. \A c \in Classes : Found(c)' = Found(c)
    BY <2>1 DEF Found, Older, Entries, Adding
  <2>3. \A c \in Classes : BeforeClass(c) => BeforeClass(c)'
    BY <2>1, <2>2, BeforeThen DEF BeforeClass
  <2> QED
    BY <2>1, <2>3 DEF BeforeInv
<1>3. ASSUME NEW call, NEW k, Begins(t, call, k) PROVE BeforeInv'
  <2>1. def' = def /\ op'.before = def /\ op'.pc \notin Reapplying
    BY <1>3 DEF Begins, Fresh, JNI2Hook_RedefineClass, Reapplying
  <2> QED
    BY <2>1, BeforeThen DEF BeforeInv
<1>4. ASSUME NEW k, NEW e, BeginsAdding(t, k, e) PROVE BeforeInv'
  <2>1. /\ def' = def /\ op'.before = def /\ op'.pc = "apply" /\ op'.cls = k
        /\ op'.call = "Install" /\ NotRebuilt' /\ Adding'
    BY <1>4 DEF BeginsAdding, AddsTail, Fresh, vm, NotRebuilt, Adding
  <2>2. ASSUME NEW c \in Classes, c = op'.cls
        PROVE  EditSet(op'.before[c]) = EditSet(cache'[c]) \union Edits(Found(c)')
    <3>1. Found(c)' = Committed(c)'
      BY <2>1, <2>2 DEF Found, Committed, Fitting
    <3>2. EditSet(def'[c]) = EditSet(cache'[c]) \union Edits(Committed(c)')
      BY <2>1, <2>2, LiveAtWorkThen DEF Reapplying
    <3> QED
      BY <2>1, <3>1, <3>2
  <2> QED
    BY <2>1, <2>2, BeforeThen DEF BeforeInv
<1> QED
  BY <1>1, <1>2, <1>3, <1>4, CallCases

LEMMA BeforeAtStep ==
    ASSUME GoBackInv, GoBackInv', LiveInv, LiveInv', BindingWorks, BeforeInv, Step
    PROVE  BeforeInv'
<1>1. TypeInv /\ PhaseInv /\ TypeInv'
  BY DEF GoBackInv, EntriesInv, BytesInv
<1>2. CASE Return
  BY <1>2 DEF Return, Idle, BeforeInv
<1> SUFFICES ASSUME ~Return, op.call \in {"Install", "Uninstall"}, NEW c \in Classes
             PROVE  BeforeClass(c)'
  BY <1>1, <1>2, StepSameCall DEF BeforeInv, SameCall
<1>3. op'.call = op.call /\ op'.before = op.before /\ BeforeClass(c)
  BY <1>1, StepSameCall DEF BeforeInv, SameCall
<1>4. /\ op.cls # c \/ op.pc = "return" \/ op.aside = <<>> => Entries(c) = hooks[c]
      /\ op'.cls # c \/ op'.pc = "return" \/ op'.aside = <<>> => Entries(c)' = hooks'[c]
      /\ hooks \in [Classes -> Seq(Entry)] /\ def \in [Classes -> Definition]
  BY <1>1, EntriesNow, EntriesThen DEF TypeInv, TypeOK
<1>5. ~ShutdownFinish /\ ~ShutdownClass /\ ~ShutdownClassDone /\ cache' = cache
  BY <1>1, StepKeepsVm DEF ShutdownFinish, ShutdownClass, ShutdownClassDone, PhaseInv, CallKnown
<1>6. ASSUME op.pc = "after", c = op.cls, Committed(c) = Found(c)
      PROVE  EditSet(def[c]) = EditSet(op.before[c])
  <2>1. EditSet(def[c]) = EditSet(cache[c]) \union Edits(Committed(c))
    BY <1>6, LiveAtWork DEF Reapplying
  <2> QED
    BY <1>3, <1>6, <2>1 DEF BeforeClass, Reapplying
<1>7. CASE \/ ReapplyFails \/ RedefineRefused \/ ResumeOthers \/ ResumeRefused
           \/ RegisterNative \/ RedefineClasses
  <2>1. /\ SameWork /\ op.pc \in {"apply", "bind", "refused"}
        /\ op'.pc \in {"bind", "refused", "after"}
    BY <1>1, <1>7, ReapplyLocals, RegisterLocals
  <2>2. hooks' = hooks
    BY <1>7 DEF ReapplyFails, RedefineRefused, ResumeOthers, ResumeRefused, RegisterNative,
       RedefineClasses, registry
  <2>3. Found(c)' = Found(c)
    BY <2>1, <2>2 DEF Found, Older, Entries, Adding, SameWork, SameCall
  <2>4. c # op.cls => def'[c] = def[c]
    <3>1. CASE RedefineClasses
      BY <1>4, <3>1 DEF RedefineClasses
    <3>2. CASE ~RedefineClasses
      BY <3>2, StepKeepsVm
    <3> QED
      BY <3>1, <3>2
  <2> QED
    BY <1>3, <1>5, <2>1, <2>3, <2>4, BeforeThen DEF BeforeClass, SameWork, Reapplying
<1>8. ASSUME ~RedefineClasses PROVE def' = def
  BY <1>8, StepKeepsVm
<1>9. CASE InstallDone \/ UninstallDone
  <2>1. op.pc = "after" /\ op'.pc = "return" /\ op'.result = "OK" /\ op'.cls = op.cls
    BY <1>1, <1>9, ReturnLocals DEF InstallDone, UninstallDone, SameWork
  <2>2. def' = def
    BY <1>8, <2>1 DEF RedefineClasses
  <2> QED
    BY <1>3, <2>1, <2>2, BeforeThen DEF BeforeClass, Reapplying
<1>10. ASSUME op.pc = "after", op'.pc = "return", op'.cls = op.cls, c = op.cls => Committed(c) = Found(c)
       PROVE  BeforeClass(c)'
  <2>1. def' = def
    BY <1>8, <1>10 DEF RedefineClasses
  <2>2. EditSet(def'[c]) = EditSet(op'.before[c])
    <3>1. CASE c = op.cls
      BY <1>3, <1>6, <1>10, <2>1, <3>1
    <3>2. CASE c # op.cls
      BY <1>3, <2>1, <3>2 DEF BeforeClass
    <3> QED
      BY <3>1, <3>2
  <2>3. c # op'.cls => def'[c] = op'.before[c]
    BY <1>3, <1>10, <2>1 DEF BeforeClass
  <2> QED
    BY <1>10, <2>2, <2>3, BeforeThen DEF Reapplying
<1>11. CASE InstallUndone
  <2>1. op.pc = "after" /\ op.call = "Install" /\ op.rollback = TRUE
    BY <1>1, <1>11 DEF InstallUndone, TypeInv, TypeOK, OpType
  <2>2. op'.pc = "return" /\ op'.cls = op.cls
    BY <1>1, <1>11, ReturnLocals DEF InstallUndone, SameWork
  <2>3. op.aside = <<>> /\ ~Adding
    BY <1>1, <2>1 DEF PhaseInv, Adding
  <2>4. Committed(c) = Found(c)
    BY <1>4, <2>3 DEF Committed, Fitting, Found
  <2> QED
    BY <1>10, <2>1, <2>2, <2>4
<1>12. CASE UninstallUndo
  <2>1. op.pc = "after" /\ NotRebuilt /\ ~Adding
    BY <1>12 DEF UninstallUndo, NotRebuilt, Adding
  <2>2. op'.pc = "return" /\ op'.cls = op.cls
    BY <1>1, <1>12, ReturnLocals DEF UninstallUndo, SameWork
  <2>3. c = op.cls => Committed(c) = Found(c)
    BY <2>1 DEF Committed, Fitting, Found
  <2> QED
    BY <1>10, <2>1, <2>2, <2>3
<1>13. CASE InstallUndo
  <2>1. /\ op.pc = "after" /\ op.result # "OK" /\ op.call = "Install" /\ op.rollback = FALSE
        /\ hooks' = [hooks EXCEPT ![op.cls] = SubSeq(@, 1, Len(hooks[op.cls]) - 1)]
    BY <1>1, <1>13 DEF InstallUndo, TypeInv, TypeOK, OpType
  <2>2. op.aside = <<>> /\ Adding /\ NotRebuilt
    BY <1>1, <2>1 DEF PhaseInv, Adding, NotRebuilt
  <2>3. c = op.cls => Committed(c) = Found(c)
    BY <2>2 DEF Committed, Fitting, Found
  <2>4. CASE op' = Returning(op, op.result)
    BY <1>1, <1>10, <2>1, <2>3, <2>4, ReturnLocals DEF SameWork
  <2>5. CASE op' = [op EXCEPT !.pc = "apply", !.rollback = TRUE, !.first = op.result]
    <3>1. /\ op'.cls = op.cls /\ op'.aside = <<>> /\ op'.pc = "apply" /\ op'.rollback = TRUE
      BY <1>1, <2>2, <2>5, RollbackLocals
    <3>2. def' = def
      BY <1>8, <2>1 DEF RedefineClasses
    <3>3. c = op.cls => Found(c)' = Found(c)
      <4>1. Found(c)' = hooks'[c]
        BY <1>4, <3>1 DEF Found, Adding
      <4>2. c = op.cls => Found(c) = hooks'[c]
        BY <1>4, <2>1, <2>2 DEF Found, Older
      <4> QED
        BY <4>1, <4>2
    <3> QED
      BY <1>3, <1>5, <2>1, <3>1, <3>2, <3>3, BeforeThen DEF BeforeClass, Reapplying
  <2> QED
    BY <1>13, <2>4, <2>5 DEF InstallUndo
<1>14. CASE PartitionStep
  <2>1. op.pc = "scan" /\ op'.pc = "scan"
    BY <1>1, <1>14, PartitionLocals
  <2>2. def' = def
    BY <1>8, <2>1 DEF RedefineClasses
  <2> QED
    BY <1>3, <2>1, <2>2, BeforeThen DEF BeforeClass, Reapplying
<1>15. CASE PartitionDone
  <2>1. op.pc = "scan" /\ op'.pc \in {"return", "apply"} /\ op'.cls = op.cls
    BY <1>1, <1>15, PartitionDoneLocals
  <2>2. def'[c] = def[c] /\ def[c] = op'.before[c] /\ op'.call = "Uninstall"
    BY <1>1, <1>3, <1>8, <2>1 DEF RedefineClasses, BeforeClass, PhaseInv, CallKnown
  <2>3. ASSUME c = op'.cls, op'.pc = "apply"
        PROVE  EditSet(op'.before[c]) = EditSet(cache'[c]) \union Edits(Found(c)')
    <3>1. Found(c)' = Committed(c)'
      BY <2>2, <2>3 DEF Found, Committed, Fitting, Adding, NotRebuilt
    <3>2. EditSet(def'[c]) = EditSet(cache'[c]) \union Edits(Committed(c)')
      BY <2>2, <2>3, LiveAtWorkThen DEF Reapplying
    <3> QED
      BY <2>2, <3>1, <3>2
  <2> QED
    BY <2>1, <2>2, <2>3, BeforeThen DEF Reapplying
<1> QED
  BY <1>5, <1>7, <1>9, <1>11, <1>12, <1>13, <1>14, <1>15 DEF Step

\* With the same provisos an install or uninstall that returns an error has
\* changed neither the hooks tracked nor the edits any class runs: it failed
\* before the redefinition, or its rollback had nothing to put back.
THEOREM FailureChangesNothing ==
    ASSUME {"register", "original"} \intersect Faults = {}, Versions = {}
    PROVE  Spec => []FailedCallChangesNothing
<1> DEFINE Inv == GoBackInv /\ BindingWorks /\ LiveInv /\ BeforeInv
<1>1. Init => Inv
  <2>1. Init => BindingWorks /\ LiveInv /\ BeforeInv
    BY DEF Init, Idle, BindingWorks, LiveInv, LiveClass, BeforeInv
  <2> QED
    BY <2>1, GoBackInit
<1>2. Inv /\ [Next]_vars => Inv'
  <2> SUFFICES ASSUME Inv, [Next]_vars PROVE Inv'
    OBVIOUS
  <2>1. GoBackInv'
    BY GoBackNext
  <2>2. TypeInv
    BY DEF GoBackInv, EntriesInv, BytesInv
  <2>3. BindingWorks' /\ LiveInv'
    BY <2>1, <2>2, BindingNext, LiveNext
  <2>4. CASE UNCHANGED vars
    <3>1. op' = op /\ cache' = cache /\ def' = def /\ hooks' = hooks
      BY <2>4 DEF vars, vm, registry
    <3>2. \A c \in Classes : Found(c)' = Found(c)
      BY <3>1 DEF Found, Older, Entries, Adding
    <3>3. \A c \in Classes : BeforeClass(c) => BeforeClass(c)'
      BY <3>1, <3>2, BeforeThen DEF BeforeClass
    <3> QED
      BY <2>1, <2>3, <3>1, <3>3 DEF BeforeInv
  <2> QED
    BY <2>1, <2>3, <2>4, BeforeAtCall, BeforeAtStep DEF Next
<1>3. Inv => FailedCallChangesNothing
  BY DEF GoBackInv, FailedCallKeepsHooks, BeforeInv, BeforeClass, FailedCallChangesNothing
<1> QED
  BY <1>1, <1>2, <1>3, PTL DEF Spec

-----------------------------------------------------------------------------
(* The hooks of a class fit it *)

\* class_transform_make_native and class_transform_insert_call accept the hooks
\* of every captured class, but for one that an install is trying.
Buildable == \A c \in Classes : cache[c] # NoDef => CanApply(cache[c], Fitting(c))

\* What fits with other hooks fits without them, and in any order.
LEMMA CanApplyFewer ==
    ASSUME NEW b, NEW s, NEW t, Embeds(s, t), CanApply(b, t)
    PROVE  CanApply(b, s)
<1>1. PICK f \in [1..Len(s) -> 1..Len(t)] :
        /\ \A x, y \in 1..Len(s) : f[x] = f[y] => x = y
        /\ \A x \in 1..Len(s) : s[x] = t[f[x]]
  BY DEF Embeds
<1> SUFFICES ASSUME NEW i \in 1..Len(s)
             PROVE  /\ s[i].method \notin Unhookable
                    /\ s[i].kind = INSERT_CALL => s[i].offset \in CodeOffsets
                    /\ \A e \in EditSet(b) \union {EditOf(s[j]) : j \in 1..Len(s) \ {i}} :
                          /\ ~(e.kind = MAKE_NATIVE /\ e.method = s[i].method)
                          /\ ~(e.kind = INSERT_CALL /\ s[i].kind = INSERT_CALL /\ e.name = s[i].name)
  BY DEF CanApply
<1>2. f[i] \in 1..Len(t) /\ s[i] = t[f[i]]
  BY <1>1
<1>3. {EditOf(s[j]) : j \in 1..Len(s) \ {i}} \subseteq {EditOf(t[j]) : j \in 1..Len(t) \ {f[i]}}
  <2>1. ASSUME NEW j \in 1..Len(s) \ {i}
        PROVE  EditOf(s[j]) \in {EditOf(t[x]) : x \in 1..Len(t) \ {f[i]}}
    <3>1. f[j] \in 1..Len(t) \ {f[i]} /\ s[j] = t[f[j]]
      BY <1>1
    <3> QED
      BY <3>1
  <2> QED
    BY <2>1
<1> QED
  BY <1>2, <1>3 DEF CanApply

LEMMA CanApplyNone == ASSUME NEW b PROVE CanApply(b, <<>>)
  BY DEF CanApply

LEMMA OlderEmbeds ==
    ASSUME GoBackInv, NEW c \in Classes, op.cls = c, Adding, NotRebuilt
    PROVE  Embeds(Older(c), Entries(c)) /\ Entries(c) = hooks[c]
<1>1. op.aside = <<>> /\ TypeInv
  BY DEF GoBackInv, EntriesInv, PhaseInv, BytesInv, Adding
<1>2. Entries(c) = hooks[c] /\ hooks[c] \in Seq(Entry)
  BY <1>1, EntriesNow
<1>3. hooks[c] # <<>>
  BY DEF GoBackInv, CanGoBack, NotRebuilt, Adding, InReapply
<1>4. Len(hooks[c]) - 1 \in 0..Len(hooks[c])
  BY <1>2, <1>3
<1> QED
  BY <1>2, <1>4, EmbedsCut DEF Older

LEMMA OlderEmbedsThen ==
    ASSUME GoBackInv', NEW c \in Classes, op'.cls = c, Adding', NotRebuilt'
    PROVE  Embeds(Older(c)', Entries(c)') /\ Entries(c)' = hooks'[c]
<1>1. op'.aside = <<>> /\ TypeInv'
  BY DEF GoBackInv, EntriesInv, PhaseInv, BytesInv, Adding
<1>2. Entries(c)' = hooks'[c] /\ hooks'[c] \in Seq(Entry)
  BY <1>1, EntriesThen
<1>3. hooks'[c] # <<>>
  BY DEF GoBackInv, CanGoBack, NotRebuilt, Adding, InReapply
<1>4. Len(hooks'[c]) - 1 \in 0..Len(hooks'[c])
  BY <1>2, <1>3
<1> QED
  BY <1>2, <1>4, EmbedsCut DEF Older

\* The prime of CanApply, pushed inward.
LEMMA FitsThen ==
    ASSUME NEW c \in Classes, CanApply(cache'[c], Fitting(c)')
    PROVE  CanApply(cache[c], Fitting(c))'
  BY DEF CanApply, EditSet, EditOf

LEMMA BuildableAtCall ==
    ASSUME GoBackInv, GoBackInv', Buildable, NEW t \in Threads, Call(t)
    PROVE  Buildable'
<1>1. TypeInv /\ PhaseInv /\ TypeInv' /\ BytesInv
  BY DEF GoBackInv, EntriesInv, BytesInv
<1>2. CASE UNCHANGED <<session, registry, cache, pages, vm, lock, op, warned>>
  <2>1. op' = op /\ cache' = cache /\ hooks' = hooks
    BY <1>2 DEF registry
  <2>2. \A c \in Classes : Fitting(c)' = Fitting(c)
    BY <2>1 DEF Fitting, Older, Entries, Adding, NotRebuilt
  <2> QED
    BY <2>1, <2>2, FitsThen DEF Buildable
<1>3. ASSUME lock = NoThread, cache' = cache \/ \E k \in Classes : cache' = Captured(k),
             \A c \in Classes : Fitting(c)' = hooks[c]
      PROVE  Buildable'
  <2> SUFFICES ASSUME NEW c \in Classes, cache'[c] # NoDef PROVE CanApply(cache'[c], Fitting(c)')
    BY FitsThen DEF Buildable
  <2>1. op.aside = <<>> /\ ~NotRebuilt
    BY <1>1, <1>3 DEF PhaseInv, Idle, NotRebuilt
  <2>2. Fitting(c) = hooks[c]
    BY <1>1, <2>1, EntriesNow DEF Fitting
  <2>3. CASE cache'[c] = cache[c]
    BY <1>3, <2>2, <2>3 DEF Buildable
  <2>4. CASE hooks[c] = <<>>
    BY <1>3, <2>4, CanApplyNone
  <2> QED
    BY <1>1, <1>3, <2>3, <2>4, CaptureIsClean
<1>4. ASSUME NEW call, NEW k, Begins(t, call, k) PROVE Buildable'
  <2>1. op'.aside = <<>> /\ ~NotRebuilt' /\ hooks' = hooks
    BY <1>4 DEF Begins, Fresh, NotRebuilt
  <2>2. \A c \in Classes : Fitting(c)' = hooks[c]
    BY <1>1, <2>1, EntriesThen DEF Fitting
  <2> QED
    BY <1>3, <1>4, <2>2 DEF Begins
<1>5. ASSUME NEW k, NEW e, BeginsAdding(t, k, e) PROVE Buildable'
  <2>1. /\ op'.aside = <<>> /\ NotRebuilt' /\ Adding' /\ op'.cls = k /\ k \in Classes
        /\ \A c \in Classes : c # k => hooks'[c] = hooks[c]
    BY <1>5 DEF BeginsAdding, AddsTail, Fresh, NotRebuilt, Adding
  <2>2. ASSUME NEW c \in Classes PROVE Fitting(c)' = hooks[c]
    <3>1. CASE c # k
      BY <1>1, <2>1, <3>1, EntriesThen DEF Fitting
    <3>2. CASE c = k
      <4>1. Fitting(c)' = Committed(c)'
        BY <2>1, <3>2 DEF Committed
      <4>2. ~NotRebuilt
        BY <1>1, <1>5 DEF BeginsAdding, PhaseInv, Idle, NotRebuilt
      <4>3. Committed(c)' = Committed(c) /\ Committed(c) = hooks[c]
        BY <4>2, CommittedAtCall, CommittedNow
      <4> QED
        BY <4>1, <4>3
    <3> QED
      BY <3>1, <3>2
  <2> QED
    BY <1>3, <1>5, <2>1, <2>2 DEF BeginsAdding
<1> QED
  BY <1>1, <1>2, <1>4, <1>5, CallCases

LEMMA BuildableAtStep ==
    ASSUME GoBackInv, GoBackInv', Buildable, Step
    PROVE  Buildable'
<1>1. TypeInv /\ PhaseInv /\ TypeInv' /\ BytesInv
  BY DEF GoBackInv, EntriesInv, BytesInv
<1> SUFFICES ASSUME NEW c \in Classes, cache'[c] # NoDef PROVE CanApply(cache'[c], Fitting(c)')
  BY FitsThen DEF Buildable
<1>2. cache'[c] = cache[c] /\ CanApply(cache[c], Fitting(c))
  <2>1. ~ShutdownFinish
    BY DEF ShutdownFinish
  <2>2. cache' = cache
    BY <2>1, StepKeepsVm
  <2> QED
    BY <2>2 DEF Buildable
<1>3. Embeds(Entries(c)', Entries(c))
  <2>1. CASE Frees
    BY <1>1, <2>1, FreesCutTail, FreedEmbeds
  <2>2. CASE ~Frees
    BY <1>1, <2>2, StepKeepsEntries DEF SameEntries
  <2> QED
    BY <2>1, <2>2
<1>4. ASSUME CanApply(cache[c], Entries(c)') PROVE CanApply(cache'[c], Fitting(c)')
  <2>1. CASE op'.cls = c /\ Adding' /\ NotRebuilt'
    <3>1. Embeds(Fitting(c)', Entries(c)')
      BY <2>1, OlderEmbedsThen DEF Fitting
    <3> QED
      BY <1>2, <1>4, <3>1, CanApplyFewer
  <2>2. CASE ~(op'.cls = c /\ Adding' /\ NotRebuilt')
    BY <1>2, <1>4, <2>2 DEF Fitting
  <2> QED
    BY <2>1, <2>2
<1>5. CASE ~(op.cls = c /\ Adding /\ NotRebuilt)
  <2>1. CanApply(cache[c], Entries(c))
    BY <1>2, <1>5 DEF Fitting
  <2>2. CanApply(cache[c], Entries(c)')
    BY <1>3, <2>1, CanApplyFewer
  <2> QED
    BY <1>4, <2>2
<1>6. CASE op.cls = c /\ Adding /\ NotRebuilt
  <2>1. ReapplyFails \/ RedefineRefused \/ ResumeRefused \/ RedefineClasses \/ InstallUndo
    BY <1>6 DEF Step, Adding, NotRebuilt, RegisterNative, ResumeOthers, InstallDone, InstallUndone,
       PartitionStep, PartitionDone, UninstallDone, UninstallUndo, ShutdownClass,
       ShutdownClassDone, ShutdownFinish, Return
  <2>2. CASE ReapplyFails \/ RedefineRefused \/ ResumeRefused
    <3>1. hooks' = hooks
      BY <2>2 DEF ReapplyFails, RedefineRefused, ResumeRefused, registry
    <3>2. SameWork /\ NotRebuilt' /\ Adding'
      BY <1>1, <1>6, <2>2, ReapplyLocals DEF NotRebuilt, Adding, SameWork, SameCall
    <3>3. Fitting(c)' = Fitting(c)
      BY <1>6, <3>1, <3>2 DEF Fitting, Older, SameWork
    <3> QED
      BY <1>2, <3>3
  <2>3. CASE RedefineClasses
    <3>1. hooks' = hooks /\ (hooks[c] = <<>> \/ CanApply(cache[c], hooks[c]))
      BY <1>6, <2>3, RebuiltClass
    <3>2. CanApply(cache[c], hooks[c])
      BY <3>1, CanApplyNone
    <3>3. Entries(c) = hooks[c]
      BY <1>6, OlderEmbeds
    <3>4. CanApply(cache[c], Entries(c)')
      BY <1>3, <3>2, <3>3, CanApplyFewer
    <3> QED
      BY <1>4, <3>4
  <2>4. CASE InstallUndo
    <3>1. hooks' = [hooks EXCEPT ![c] = SubSeq(@, 1, Len(hooks[c]) - 1)] /\ op.call = "Install"
      BY <1>6, <2>4 DEF InstallUndo
    <3>2. op.aside = <<>>
      BY <1>1, <3>1 DEF PhaseInv
    <3>3. op'.aside = <<>>
      BY <1>1, <2>4, <3>2, ReturnLocals, RollbackLocals DEF InstallUndo, SameWork
    <3>4. Entries(c)' = hooks'[c] /\ hooks \in [Classes -> Seq(Entry)]
      BY <1>1, <3>3, EntriesThen, EntriesNow
    <3>5. Entries(c)' = Fitting(c)
      BY <1>6, <3>1, <3>4 DEF Fitting, Older
    <3> QED
      BY <1>2, <1>4, <3>5
  <2> QED
    BY <2>1, <2>2, <2>3, <2>4
<1> QED
  BY <1>5, <1>6

LEMMA BuildableNext == GoBackInv /\ Buildable /\ [Next]_vars => Buildable'
<1> SUFFICES ASSUME GoBackInv, Buildable, [Next]_vars PROVE Buildable'
  OBVIOUS
<1>1. GoBackInv'
  BY GoBackNext
<1>2. CASE UNCHANGED vars
  <2>1. op' = op /\ cache' = cache /\ hooks' = hooks
    BY <1>2 DEF vars, registry
  <2>2. \A c \in Classes : Fitting(c)' = Fitting(c)
    BY <2>1 DEF Fitting, Older, Entries, Adding, NotRebuilt
  <2> QED
    BY <2>1, <2>2, FitsThen DEF Buildable
<1> QED
  BY <1>1, <1>2, BuildableAtCall, BuildableAtStep DEF Next

LEMMA BuildableInit == Init => Buildable
  BY DEF Init, Buildable

-----------------------------------------------------------------------------
(* Callers may unload *)

\* Two hooks of a class that can be built do not make the same edit.
LEMMA EditsDiffer ==
    ASSUME NEW b, NEW hs \in Seq(Entry), CanApply(b, hs), NEW i \in 1..Len(hs), NEW j \in 1..Len(hs),
           EditOf(hs[i]) = EditOf(hs[j])
    PROVE  i = j
<1> SUFFICES ASSUME i # j PROVE FALSE
  OBVIOUS
<1> DEFINE e == EditOf(hs[j])
<1>1. e.kind = hs[i].kind /\ e.method = hs[i].method /\ e.name = hs[i].name
  BY DEF EditOf
<1>2. hs[i] \in Entry
  OBVIOUS
<1>3. hs[i].kind = MAKE_NATIVE \/ hs[i].kind = INSERT_CALL
  BY <1>2 DEF Entry, Kinds
<1>4. e \in EditSet(b) \union {EditOf(hs[x]) : x \in 1..Len(hs) \ {i}}
  OBVIOUS
<1> HIDE DEF e
<1>5. /\ ~(e.kind = MAKE_NATIVE /\ e.method = hs[i].method)
      /\ ~(e.kind = INSERT_CALL /\ hs[i].kind = INSERT_CALL /\ e.name = hs[i].name)
  BY <1>4 DEF CanApply
<1> QED
  BY <1>1, <1>3, <1>5

\* No Shutdown has failed to restore a class, not even the one under way.
Unwarned == warned = FALSE /\ (op.call = "Shutdown" => op.first = "OK")

\* Every edit that runs and every native that is bound belongs to a hook that
\* is in the class, and the captured bytes hold no edit of the library.
CleanClass(c) ==
    /\ EditSet(def[c]) \subseteq Edits(Committed(c))
    /\ bound[c] \subseteq Pairs(Committed(c))
    /\ cache[c] # NoDef => EditSet(cache[c]) = {}
CleanInv ==
    /\ Unwarned => \A c \in Classes : CleanClass(c)
    /\ op.call = "Shutdown" /\ op.pc = "return" => op.result = op.first

LEMMA CleanThen ==
    ASSUME NEW c \in Classes, EditSet(def'[c]) \subseteq Edits(Committed(c)'),
           bound'[c] \subseteq Pairs(Committed(c)'), cache'[c] # NoDef => EditSet(cache'[c]) = {}
    PROVE  CleanClass(c)'
<1>1. EditSet(def[c])' = EditSet(def'[c]) /\ EditSet(cache[c])' = EditSet(cache'[c])
  BY DEF EditSet
<1>2. Edits(Committed(c))' = Edits(Committed(c)') /\ Pairs(Committed(c))' = Pairs(Committed(c)')
  BY DEF Edits, Pairs, EditOf
<1> QED
  BY <1>1, <1>2 DEF CleanClass

\* A step under which no Shutdown fails starts where none has failed.
LEMMA UnwarnedBefore ==
    ASSUME TypeInv, PhaseInv, CleanInv, Step, Unwarned'
    PROVE  Unwarned /\ (ShutdownClassDone => op.result = "OK")
<1>1. CASE Return
  <2>1. warned' = (warned \/ (op.call = "Shutdown" /\ op.result # "OK")) /\ op.pc = "return"
    BY <1>1 DEF Return
  <2>2. warned' = FALSE /\ warned \in BOOLEAN
    BY DEF Unwarned, TypeInv, TypeOK
  <2>3. warned = FALSE /\ (op.call = "Shutdown" => op.result = "OK")
    BY <2>1, <2>2
  <2> QED
    BY <2>1, <2>3 DEF Unwarned, CleanInv, ShutdownClassDone
<1>2. CASE ~Return
  <2>1. warned' = warned /\ op'.call = op.call
    BY <1>2, StepHoldsLock, StepSameCall DEF SameCall
  <2>2. CASE op.call # "Shutdown"
    BY <2>1, <2>2 DEF Unwarned, ShutdownClassDone
  <2>3. CASE op.call = "Shutdown" /\ ShutdownClassDone
    <3>1. op'.first = FirstFailure(op.first, op.result)
      BY <2>3, ShutdownLocals
    <3>2. op'.first = "OK"
      BY <2>1, <2>3 DEF Unwarned
    <3> QED
      BY <2>1, <3>1, <3>2 DEF Unwarned, FirstFailure
  <2>4. CASE op.call = "Shutdown" /\ ~ShutdownClassDone
    <3>1. op'.first = op.first
      <4>1. CASE ReapplyFails \/ RedefineRefused \/ RedefineClasses \/ ResumeOthers \/ ResumeRefused
        BY <4>1, ReapplyLocals DEF SameWork
      <4>2. CASE RegisterNative
        BY <4>2, RegisterLocals DEF SameWork
      <4>3. CASE ShutdownFinish
        BY <4>3, ReturnLocals DEF ShutdownFinish, SameWork
      <4>4. CASE PartitionStep \/ PartitionDone
        BY <2>4, <4>4 DEF PartitionStep, PartitionDone, PhaseInv, CallKnown
      <4>5. CASE ShutdownClass
        BY <4>5, ShutdownLocals
      <4> QED
        BY <1>2, <2>4, <4>1, <4>2, <4>3, <4>4, <4>5 DEF Step, InstallDone, InstallUndo, InstallUndone,
           UninstallDone, UninstallUndo
    <3> QED
      BY <2>1, <2>4, <3>1 DEF Unwarned
  <2> QED
    BY <2>2, <2>3, <2>4
<1> QED
  BY <1>1, <1>2

LEMMA CleanAtCall ==
    ASSUME GoBackInv, GoBackInv', CleanInv, NEW t \in Threads, Call(t)
    PROVE  CleanInv'
<1>1. TypeInv /\ PhaseInv /\ TypeInv' /\ BytesInv
  BY DEF GoBackInv, EntriesInv, BytesInv
<1>2. CASE UNCHANGED <<session, registry, cache, pages, vm, lock, op, warned>>
  <2>1. op' = op /\ cache' = cache /\ def' = def /\ bound' = bound /\ warned' = warned
    BY <1>2 DEF vm
  <2>2. \A c \in Classes : Committed(c)' = Committed(c)
    BY CommittedAtCall
  <2>3. \A c \in Classes : CleanClass(c) => CleanClass(c)'
    BY <2>1, <2>2, CleanThen DEF CleanClass
  <2> QED
    BY <2>1, <2>3 DEF CleanInv, Unwarned
<1>3. ASSUME lock = NoThread, warned' = warned, ~(op'.call = "Shutdown" /\ op'.pc = "return"),
             cache' = cache \/ \E k \in Classes : cache' = Captured(k),
             \/ UNCHANGED <<def, bound>>
             \/ \E k \in Classes, d \in Definition :
                   /\ def' = [def EXCEPT ![k] = d] /\ EditSet(d) = {}
                   /\ bound' = KeepBound(k, d)
      PROVE  CleanInv'
  <2> SUFFICES ASSUME Unwarned', NEW c \in Classes PROVE CleanClass(c)'
    BY <1>3 DEF CleanInv
  <2>1. op.call = "none" /\ op.pc = "idle"
    BY <1>1, <1>3 DEF PhaseInv, Idle
  <2>2. CleanClass(c)
    BY <1>3, <2>1 DEF CleanInv, Unwarned
  <2>3. Committed(c)' = Committed(c) /\ Committed(c) = hooks[c]
    BY <2>1, CommittedAtCall, CommittedNow DEF NotRebuilt
  <2>4. cache'[c] # NoDef => EditSet(cache'[c]) = {}
    <3>1. CASE cache'[c] = cache[c]
      BY <2>2, <3>1 DEF CleanClass
    <3>2. CASE cache'[c] = def[c] /\ hooks[c] = <<>>
      BY <2>2, <2>3, <3>2, NoEdits DEF CleanClass
    <3> QED
      BY <1>1, <1>3, <3>1, <3>2, CaptureIsClean
  <2>5. EditSet(def'[c]) \subseteq EditSet(def[c]) /\ bound'[c] \subseteq bound[c]
    <3>1. def \in [Classes -> Definition] /\ bound \in [Classes -> SUBSET (Edit \X (Nat \ {0}))]
      BY <1>1 DEF TypeInv, TypeOK
    <3>2. ASSUME NEW k \in Classes, NEW d \in Definition, def' = [def EXCEPT ![k] = d],
                 EditSet(d) = {}, bound' = KeepBound(k, d)
          PROVE  EditSet(def'[c]) \subseteq EditSet(def[c]) /\ bound'[c] \subseteq bound[c]
      <4>1. CASE c # k
        BY <3>1, <3>2, <4>1 DEF KeepBound
      <4>2. CASE c = k
        BY <3>1, <3>2, <4>2 DEF KeepBound
      <4> QED
        BY <4>1, <4>2
    <3> QED
      BY <1>3, <3>2
  <2> QED
    BY <2>2, <2>3, <2>4, <2>5, CleanThen DEF CleanClass
<1>4. ASSUME NEW k, NEW e, BeginsAdding(t, k, e) PROVE CleanInv'
  <2>1. /\ lock = NoThread /\ warned' = warned /\ op'.call = "Install" /\ k \in Classes
        /\ cache' = Captured(k) /\ UNCHANGED <<def, bound>>
    BY <1>4 DEF BeginsAdding, AddsTail, Fresh, vm
  <2> QED
    BY <1>3, <2>1
<1>5. ASSUME NEW call, NEW k, Begins(t, call, k) PROVE CleanInv'
  <2>1. /\ lock = NoThread /\ warned' = warned
        /\ ~(op'.call = "Shutdown" /\ op'.pc = "return")
        /\ cache' = cache \/ \E c \in Classes : cache' = Captured(c)
    BY <1>5 DEF Begins, Fresh
  <2>2. CASE UNCHANGED <<def, bound>>
    BY <1>3, <2>1, <2>2
  <2>3. CASE JNI2Hook_RedefineClass(t)
    <3>1. PICK c \in Classes, v \in Versions :
            LET d == [ver |-> v, edits |-> <<>>] IN
            \/ def' = [def EXCEPT ![c] = d] /\ bound' = KeepBound(c, d)
            \/ UNCHANGED <<def, bound>>
      BY <2>3 DEF JNI2Hook_RedefineClass
    <3> DEFINE d == [ver |-> v, edits |-> <<>>]
    <3>2. d \in Definition /\ EditSet(d) = {}
      BY ConstantsAssumption DEF Definition, EditSet
    <3> HIDE DEF d
    <3>3. CASE def' = [def EXCEPT ![c] = d] /\ bound' = KeepBound(c, d)
      BY <1>3, <2>1, <3>2, <3>3
    <3> QED
      BY <2>2, <3>1, <3>3 DEF d
  <2> QED
    BY <1>5, <2>2, <2>3 DEF Begins
<1> QED
  BY <1>1, <1>2, <1>4, <1>5, CallCases

\* A rebuild keeps a native bound only for a hook that is in the new class.
LEMMA KeptNatives ==
    ASSUME GoBackInv, Buildable, NEW c \in Classes, c = op.cls, op.pc = "apply", cache[c] # NoDef,
           NEW b \in Pairs(Committed(c)), b[1] \in Edits(hooks[c])
    PROVE  b \in Pairs(hooks[c])
<1>1. TypeInv /\ NotRebuilt /\ Committed(c) = Fitting(c)
  BY DEF GoBackInv, EntriesInv, BytesInv, NotRebuilt, Committed
<1>2. CASE Adding
  <2>1. Embeds(Committed(c), hooks[c])
    BY <1>1, <1>2, OlderEmbeds DEF Fitting
  <2> QED
    BY <2>1, EmbedsEdits
<1>3. CASE ~Adding
  <2>1. Committed(c) = Entries(c) /\ CanApply(cache[c], Entries(c)) /\ Entries(c) \in Seq(Entry)
    BY <1>1, <1>3, EntriesNow DEF Fitting, Buildable
  <2>2. Embeds(hooks[c], Entries(c))
    <3>1. hooks[c] \in Seq(Entry) /\ op.aside \in Seq(Entry) /\ Entries(c) = hooks[c] \o op.aside
      BY <1>1, EntriesNow
    <3> QED
      BY <3>1, EmbedsConcat
  <2>3. PICK f \in [1..Len(hooks[c]) -> 1..Len(Entries(c))] :
          \A x \in 1..Len(hooks[c]) : hooks[c][x] = Entries(c)[f[x]]
    BY <2>2 DEF Embeds
  <2>4. PICK i \in 1..Len(Entries(c)) : b = <<EditOf(Entries(c)[i]), Entries(c)[i].id>>
    BY <2>1 DEF Pairs
  <2>5. PICK j \in 1..Len(hooks[c]) : b[1] = EditOf(hooks[c][j])
    BY DEF Edits
  <2>6. f[j] \in 1..Len(Entries(c)) /\ hooks[c][j] = Entries(c)[f[j]]
    BY <2>3
  <2>7. EditOf(Entries(c)[i]) = EditOf(Entries(c)[f[j]])
    BY <2>4, <2>5, <2>6
  <2>8. i = f[j]
    BY <2>1, <2>6, <2>7, EditsDiffer
  <2> QED
    BY <2>4, <2>6, <2>8 DEF Pairs
<1> QED
  BY <1>2, <1>3

LEMMA CleanAtStep ==
    ASSUME GoBackInv, GoBackInv', Buildable, BindingWorks, CleanInv, Step
    PROVE  CleanInv'
<1>1. TypeInv /\ PhaseInv /\ TypeInv' /\ BytesInv
  BY DEF GoBackInv, EntriesInv, BytesInv
<1>2. ASSUME op'.call = "Shutdown", op'.pc = "return" PROVE op'.result = op'.first
  <2>1. ShutdownFinish
    BY <1>1, <1>2, ShutdownReturns
  <2> QED
    BY <1>1, <2>1, ReturnLocals DEF ShutdownFinish, SameWork
<1> SUFFICES ASSUME Unwarned', NEW c \in Classes PROVE CleanClass(c)'
  BY <1>2 DEF CleanInv
<1>3. CleanClass(c) /\ (ShutdownClassDone => op.result = "OK")
  BY <1>1, UnwarnedBefore DEF CleanInv
<1>4. def \in [Classes -> Definition] /\ bound \in [Classes -> SUBSET (Edit \X (Nat \ {0}))]
  BY <1>1 DEF TypeInv, TypeOK
<1>5. cache'[c] # NoDef => EditSet(cache'[c]) = {}
  <2>1. CASE ShutdownFinish
    BY <2>1 DEF ShutdownFinish
  <2>2. CASE ~ShutdownFinish
    BY <1>3, <2>2, StepKeepsVm DEF CleanClass
  <2> QED
    BY <2>1, <2>2
<1>6. CASE ~RedefineClasses
  <2>1. Edits(Committed(c)') = Edits(Committed(c)) /\ Pairs(Committed(c)') = Pairs(Committed(c))
    BY <1>3, <1>6, CommittedAtStep, PermutesEdits
  <2>2. EditSet(def'[c]) \subseteq Edits(Committed(c)')
    BY <1>3, <1>6, <2>1, StepKeepsVm DEF CleanClass
  <2>3. bound'[c] \subseteq Pairs(Committed(c)')
    <3>1. CASE ~RegisterNative
      BY <1>3, <1>6, <2>1, <3>1, StepKeepsVm DEF CleanClass
    <3>2. CASE RegisterNative
      <4>1. PICK k \in Classes : k = op.cls
        BY <1>1, <3>2, RegisterLocals
      <4>2. op.i \in 1..Len(hooks[k]) /\ op.pc = "bind"
        BY <1>1, <3>2, <4>1, RegisterLocals
      <4> DEFINE e == hooks[k][op.i]
      <4>3. \/ bound' = bound
            \/ bound' = [bound EXCEPT ![k] = {b \in @ : b[1] # EditOf(e)}
                                                \union {<<EditOf(e), e.id>>}]
        BY <3>2, <4>1 DEF RegisterNative
      <4>4. bound'[c] \subseteq bound[c] \union (IF c = k THEN {<<EditOf(e), e.id>>} ELSE {})
        BY <1>4, <4>3
      <4>5. Committed(c) = hooks[c]
        BY <4>2, CommittedNow DEF NotRebuilt
      <4>6. c = k => <<EditOf(e), e.id>> \in Pairs(hooks[c])
        BY <4>2 DEF Pairs
      <4> QED
        BY <1>3, <2>1, <4>4, <4>5, <4>6 DEF CleanClass
    <3> QED
      BY <3>1, <3>2
  <2> QED
    BY <1>5, <2>2, <2>3, CleanThen
<1>7. CASE RedefineClasses
  <2>1. PICK k \in Classes : k = op.cls
    BY <1>7, RebuiltClass
  <2> DEFINE d == Build(cache[k], hooks[k])
  <2>2. /\ cache[k] \in Definition /\ def' = [def EXCEPT ![k] = d] /\ bound' = KeepBound(k, d)
        /\ Committed(c)' = hooks[c] /\ (c # k => Committed(c) = hooks[c]) /\ op.pc = "apply"
    BY <1>7, <2>1, RebuiltClass
  <2>3. CASE c # k
    <3>1. def'[c] = def[c] /\ bound'[c] = bound[c]
      BY <1>4, <2>2, <2>3 DEF KeepBound
    <3> QED
      BY <1>3, <1>5, <2>2, <2>3, <3>1, CleanThen DEF CleanClass
  <2>4. CASE c = k
    <3>1. cache[c] # NoDef
      BY <2>2, <2>4 DEF Definition, NoDef
    <3>2. EditSet(d) = Edits(hooks[c])
      <4>1. EditSet(cache[k]) = {} /\ hooks[k] \in Seq(Entry)
        BY <1>3, <2>4, <3>1, CommittedNow DEF CleanClass
      <4>2. EditSet(Build(cache[k], hooks[k])) = EditSet(cache[k]) \union Edits(hooks[k])
        BY <2>2, <4>1, BuildEdits
      <4> QED
        BY <2>4, <4>1, <4>2
    <3> HIDE DEF d
    <3>3. def'[c] = d /\ \A b \in bound'[c] : b \in bound[c] /\ b[1] \in EditSet(d)
      BY <1>4, <2>2, <2>4 DEF KeepBound
    <3>4. bound'[c] \subseteq Pairs(hooks[c])
      <4> SUFFICES ASSUME NEW b \in bound'[c] PROVE b \in Pairs(hooks[c])
        OBVIOUS
      <4>1. b \in Pairs(Committed(c)) /\ b[1] \in Edits(hooks[c])
        BY <1>3, <3>2, <3>3 DEF CleanClass
      <4> QED
        BY <2>1, <2>2, <2>4, <3>1, <4>1, KeptNatives
    <3> QED
      BY <1>5, <2>2, <3>2, <3>3, <3>4, CleanThen
  <2> QED
    BY <2>3, <2>4
<1> QED
  BY <1>6, <1>7

LEMMA CleanNext ==
    ASSUME GoBackInv, GoBackInv', Buildable, BindingWorks, CleanInv, [Next]_vars
    PROVE  CleanInv'
<1>1. CASE UNCHANGED vars
  <2>1. /\ op' = op /\ cache' = cache /\ def' = def /\ bound' = bound /\ warned' = warned
        /\ hooks' = hooks
    BY <1>1 DEF vars, vm, registry
  <2>2. \A c \in Classes : Committed(c)' = Committed(c)
    BY <2>1 DEF Committed, Fitting, Older, Entries, NotRebuilt, Adding
  <2>3. \A c \in Classes : CleanClass(c) => CleanClass(c)'
    BY <2>1, <2>2, CleanThen DEF CleanClass
  <2> QED
    BY <2>1, <2>3 DEF CleanInv, Unwarned
<1> QED
  BY <1>1, CleanAtCall, CleanAtStep DEF Next

LEMMA CleanInit == Init => CleanInv
<1> SUFFICES ASSUME Init PROVE CleanInv
  OBVIOUS
<1>1. op.call = "none"
  BY DEF Init, Idle
<1>2. ASSUME NEW c \in Classes PROVE CleanClass(c)
  <2>1. def[c] = [ver |-> 0, edits |-> <<>>] /\ bound[c] = {} /\ cache[c] = NoDef
    BY DEF Init
  <2> QED
    BY <2>1 DEF CleanClass, EditSet
<1> QED
  BY <1>1, <1>2 DEF CleanInv

\* As long as bindings work, and whatever else fails or is redefined, a native
\* method is bound, between calls, only to the function of a tracked hook,
\* unless a Shutdown has returned an error: a caller whose hooks are gone may
\* be unloaded (jni2hook.h).
THEOREM CallersMayUnload ==
    ASSUME {"register", "original"} \intersect Faults = {}
    PROVE  Spec => []UnloadIsSafe
<1> DEFINE Inv == GoBackInv /\ Buildable /\ BindingWorks /\ CleanInv
<1>1. Init => Inv
  <2>1. Init => BindingWorks
    BY DEF Init, Idle, BindingWorks
  <2> QED
    BY <2>1, GoBackInit, BuildableInit, CleanInit
<1>2. Inv /\ [Next]_vars => Inv'
  <2> SUFFICES ASSUME Inv, [Next]_vars PROVE Inv'
    OBVIOUS
  <2>1. GoBackInv'
    BY GoBackNext
  <2>2. TypeInv
    BY DEF GoBackInv, EntriesInv, BytesInv
  <2> QED
    BY <2>1, <2>2, BindingNext, BuildableNext, CleanNext
<1>3. Inv => UnloadIsSafe
  <2> SUFFICES ASSUME Inv, lock = NoThread, ~warned, NEW c \in Classes, NEW b \in bound[c]
               PROVE  b[2] \in TrackedIds
    BY DEF UnloadIsSafe
  <2>1. op.call = "none" /\ op.pc = "idle" /\ warned \in BOOLEAN
    BY DEF GoBackInv, EntriesInv, PhaseInv, Idle, BytesInv, TypeInv, TypeOK
  <2>2. Committed(c) = hooks[c]
    BY <2>1, CommittedNow DEF NotRebuilt
  <2>3. b \in Pairs(hooks[c])
    BY <2>1, <2>2 DEF CleanInv, CleanClass, Unwarned
  <2>4. PICK i \in 1..Len(hooks[c]) : b = <<EditOf(hooks[c][i]), hooks[c][i].id>>
    BY <2>3 DEF Pairs
  <2>5. b[2] \in Ids(hooks[c])
    BY <2>4 DEF Ids
  <2> QED
    BY <2>5 DEF TrackedIds
<1> QED
  BY <1>1, <1>2, <1>3, PTL DEF Spec

-----------------------------------------------------------------------------
(* No native method is unbound while Java threads run *)

IsBound(c, e) == \E b \in bound[c] : b[1] = e
StillToBind(c, e) ==
    op.pc = "bind" /\ op.cls = c /\ \E j \in op.i..Len(hooks[c]) : e = EditOf(hooks[c][j])

\* Every edit that runs is bound or in the rest of the loop that binds, during
\* which the threads are suspended; edits in the captured bytes were there, and
\* bound, when the bytes were captured.
UnboundInv ==
    /\ \A c \in Classes : \A e \in EditSet(def[c]) : IsBound(c, e) \/ StillToBind(c, e)
    /\ op.pc = "bind" /\ g_can_suspend = TRUE /\ hooks[op.cls] # <<>> => suspended = TRUE
    /\ \A c \in Classes : cache[c] # NoDef => EditSet(cache[c]) \subseteq EditSet(def[c])

\* Outside the loop and the redefinition nothing is lost.
LEMMA UnboundKept ==
    ASSUME UnboundInv, op.pc # "bind", op'.pc # "bind", UNCHANGED <<def, bound>>,
           \A c \in Classes : cache'[c] = NoDef \/ cache'[c] = cache[c] \/ cache'[c] = def[c]
    PROVE  UnboundInv'
<1>1. ASSUME NEW c \in Classes, NEW e \in EditSet(def'[c]) PROVE IsBound(c, e)'
  <2>1. IsBound(c, e)
    BY <1>1 DEF UnboundInv, StillToBind
  <2> QED
    BY <2>1 DEF IsBound
<1>2. ASSUME NEW c \in Classes, cache'[c] # NoDef PROVE EditSet(cache'[c]) \subseteq EditSet(def'[c])
  BY <1>2 DEF UnboundInv
<1>3. \A c \in Classes : EditSet(def[c])' = EditSet(def'[c]) /\ EditSet(cache[c])' = EditSet(cache'[c])
  BY DEF EditSet
<1> QED
  BY <1>1, <1>2, <1>3 DEF UnboundInv

LEMMA UnboundNext ==
    ASSUME Versions = {}, {"suspend", "register"} \intersect Faults = {},
           GoBackInv, GoBackInv', UnboundInv, [Next]_vars
    PROVE  UnboundInv'
<1>1. TypeInv /\ PhaseInv /\ TypeInv' /\ BytesInv
  BY DEF GoBackInv, EntriesInv, BytesInv
<1>2. /\ def \in [Classes -> Definition] /\ bound \in [Classes -> SUBSET (Edit \X (Nat \ {0}))]
      /\ op.i \in Nat /\ g_can_suspend \in BOOLEAN /\ suspended \in BOOLEAN
  BY <1>1 DEF TypeInv, TypeOK, OpType
<1>3. \A c \in Classes : EditSet(def[c])' = EditSet(def'[c]) /\ EditSet(cache[c])' = EditSet(cache'[c])
  BY DEF EditSet
<1>4. ASSUME op' = op, UNCHANGED <<def, bound, cache, hooks, g_can_suspend, suspended>>
      PROVE  UnboundInv'
  <2>1. \A c \in Classes : \A e : (IsBound(c, e) => IsBound(c, e)')
                                  /\ (StillToBind(c, e) => StillToBind(c, e)')
    BY <1>4 DEF IsBound, StillToBind
  <2> QED
    BY <1>3, <1>4, <2>1 DEF UnboundInv
<1>5. CASE UNCHANGED vars
  BY <1>4, <1>5 DEF vars, vm, registry, session
<1>6. ASSUME NEW t \in Threads, Call(t) PROVE UnboundInv'
  <2>1. CASE UNCHANGED <<session, registry, cache, pages, vm, lock, op, warned>>
    BY <1>4, <2>1 DEF vm, registry, session
  <2>2. ASSUME lock = NoThread, op'.pc # "bind", UNCHANGED <<def, bound>>,
               cache' = cache \/ \E k \in Classes : cache' = Captured(k)
        PROVE  UnboundInv'
    <3>1. op.pc # "bind"
      BY <1>1, <2>2 DEF PhaseInv, Idle
    <3>2. \A c \in Classes : cache'[c] = cache[c] \/ cache'[c] = def[c]
      BY <1>1, <2>2, CaptureIsClean
    <3> QED
      BY <2>2, <3>1, <3>2, UnboundKept
  <2>3. ~JNI2Hook_RedefineClass(t)
    BY DEF JNI2Hook_RedefineClass
  <2>4. ASSUME NEW k, NEW e, BeginsAdding(t, k, e) PROVE UnboundInv'
    <3>1. /\ lock = NoThread /\ UNCHANGED <<def, bound>> /\ op'.pc = "apply" /\ cache' = Captured(k)
          /\ k \in Classes
      BY <2>4 DEF BeginsAdding, AddsTail, Fresh, vm
    <3> QED
      BY <2>2, <3>1
  <2>5. ASSUME NEW call, NEW c, Begins(t, call, c) PROVE UnboundInv'
    BY <2>2, <2>3, <2>5 DEF Begins
  <2> QED
    BY <1>1, <1>6, <2>1, <2>4, <2>5, CallCases
<1>7. CASE RedefineClasses
  <2>1. PICK k \in Classes : k = op.cls
    BY <1>7, RebuiltClass
  <2> DEFINE d == Build(cache[k], hooks[k])
  <2>2. /\ cache[k] \in Definition /\ def' = [def EXCEPT ![k] = d] /\ bound' = KeepBound(k, d)
        /\ UNCHANGED <<hooks, cache>> /\ op.pc = "apply" /\ op'.pc = "bind" /\ op'.i = 1
        /\ op'.cls = k /\ d \in Definition
    BY <1>7, <2>1, RebuiltClass DEF SameWork
  <2>3. cache[k] # NoDef /\ hooks[k] \in Seq(Entry)
    BY <1>1, <2>2 DEF TypeInv, TypeOK, Definition, NoDef
  <2>4. EditSet(d) = EditSet(cache[k]) \union Edits(hooks[k])
    BY <2>2, <2>3, BuildEdits
  <2> HIDE DEF d
  <2>5. \A c \in Classes : c # k => def'[c] = def[c] /\ bound'[c] = bound[c]
    BY <1>2, <2>2 DEF KeepBound
  <2>6. def'[k] = d /\ bound'[k] = {b \in bound[k] : b[1] \in EditSet(d)}
    BY <1>2, <2>2 DEF KeepBound
  <2>7. \A c \in Classes : \A e \in EditSet(def[c]) : IsBound(c, e)
    BY <2>2 DEF UnboundInv, StillToBind
  <2>8. ASSUME NEW c \in Classes, NEW e \in EditSet(def'[c]) PROVE IsBound(c, e)' \/ StillToBind(c, e)'
    <3>1. CASE c # k
      BY <2>5, <2>7, <2>8, <3>1 DEF IsBound
    <3>2. CASE c = k /\ e \in EditSet(cache[k])
      <4>1. IsBound(c, e) /\ e \in EditSet(d)
        BY <2>3, <2>4, <2>7, <3>2 DEF UnboundInv
      <4>2. PICK b \in bound[k] : b[1] = e
        BY <3>2, <4>1 DEF IsBound
      <4>3. b \in bound'[k]
        BY <2>6, <4>1, <4>2
      <4> QED
        BY <3>2, <4>2, <4>3 DEF IsBound
    <3>3. CASE c = k /\ e \in Edits(hooks[k])
      <4>1. PICK j \in 1..Len(hooks[k]) : e = EditOf(hooks[k][j])
        BY <3>3 DEF Edits
      <4> QED
        BY <2>2, <3>3, <4>1 DEF StillToBind
    <3> QED
      BY <2>4, <2>6, <2>8, <3>1, <3>2, <3>3
  <2>9. ASSUME NEW c \in Classes, cache'[c] # NoDef PROVE EditSet(cache'[c]) \subseteq EditSet(def'[c])
    BY <2>2, <2>4, <2>5, <2>6, <2>9 DEF UnboundInv
  <2>10. g_can_suspend' = TRUE /\ hooks'[op'.cls] # <<>> => suspended' = TRUE
    <3>1. g_can_suspend' = g_can_suspend /\ suspended' \in SuspendOutcomes(k)
      BY <1>7, <2>1 DEF RedefineClasses, session
    <3> QED
      BY <1>2, <2>2, <3>1 DEF SuspendOutcomes
  <2> QED
    BY <1>3, <2>8, <2>9, <2>10 DEF UnboundInv
<1>8. CASE RegisterNative
  <2>1. PICK k \in Classes : k = op.cls
    BY <1>1, <1>8, RegisterLocals
  <2>2. /\ op.i \in 1..Len(hooks[k]) /\ op.pc = "bind" /\ op'.pc = "bind" /\ op'.i = op.i + 1
        /\ op'.cls = k
    BY <1>1, <1>8, <2>1, RegisterLocals DEF SameWork
  <2> DEFINE e == hooks[k][op.i]
  <2>3. /\ bound' = [bound EXCEPT ![k] = {b \in @ : b[1] # EditOf(e)} \union {<<EditOf(e), e.id>>}]
        /\ UNCHANGED <<def, cache, hooks, g_can_suspend, suspended>>
    BY <1>8, <2>1 DEF RegisterNative, registry, session
  <2>4. ASSUME NEW c \in Classes, NEW x, IsBound(c, x) PROVE IsBound(c, x)'
    <3>1. PICK b \in bound[c] : b[1] = x
      BY <2>4 DEF IsBound
    <3>2. CASE c = k /\ x = EditOf(e)
      <4>1. <<x, e.id>> \in bound'[c]
        BY <1>2, <2>3, <3>2
      <4> QED
        BY <4>1 DEF IsBound
    <3>3. CASE ~(c = k /\ x = EditOf(e))
      <4>1. b \in bound'[c]
        BY <1>2, <2>3, <3>1, <3>3
      <4> QED
        BY <3>1, <4>1 DEF IsBound
    <3> QED
      BY <3>2, <3>3
  <2>5. ASSUME NEW c \in Classes, NEW x, StillToBind(c, x) PROVE IsBound(c, x)' \/ StillToBind(c, x)'
    <3>1. c = k /\ \E j \in op.i..Len(hooks[c]) : x = EditOf(hooks[c][j])
      BY <2>1, <2>5 DEF StillToBind
    <3>2. PICK j \in op.i..Len(hooks[c]) : x = EditOf(hooks[c][j])
      BY <3>1
    <3>3. CASE j = op.i
      <4>1. <<x, e.id>> \in bound'[c]
        BY <1>2, <2>3, <3>1, <3>2, <3>3
      <4> QED
        BY <4>1 DEF IsBound
    <3>4. CASE j # op.i
      <4>1. j \in op'.i..Len(hooks'[c])
        BY <1>2, <2>2, <2>3, <3>2, <3>4
      <4> QED
        BY <2>2, <2>3, <3>1, <3>2, <4>1 DEF StillToBind
    <3> QED
      BY <3>3, <3>4
  <2>6. ASSUME NEW c \in Classes, NEW x \in EditSet(def'[c]) PROVE IsBound(c, x)' \/ StillToBind(c, x)'
    <3>1. IsBound(c, x) \/ StillToBind(c, x)
      BY <2>3, <2>6 DEF UnboundInv
    <3> QED
      BY <2>4, <2>5, <3>1
  <2>7. g_can_suspend' = TRUE /\ hooks'[op'.cls] # <<>> => suspended' = TRUE
    BY <2>1, <2>2, <2>3 DEF UnboundInv
  <2> QED
    BY <1>3, <2>3, <2>6, <2>7 DEF UnboundInv
<1>9. CASE ResumeOthers
  <2>1. /\ op.pc = "bind" /\ op.i > Len(hooks[op.cls]) /\ op'.pc = "after"
        /\ UNCHANGED <<def, bound, cache>>
    BY <1>1, <1>9, ReapplyLocals DEF ResumeOthers
  <2>2. ASSUME NEW c \in Classes, NEW e \in EditSet(def'[c]) PROVE IsBound(c, e)'
    <3>1. ~StillToBind(c, e)
      <4>1. op.cls = c => Len(hooks[c]) \in Nat
        BY <1>1 DEF TypeInv, TypeOK
      <4> QED
        BY <1>2, <2>1, <4>1 DEF StillToBind
    <3>2. IsBound(c, e)
      BY <2>1, <2>2, <3>1 DEF UnboundInv
    <3> QED
      BY <2>1, <3>2 DEF IsBound
  <2> QED
    BY <1>3, <2>1, <2>2 DEF UnboundInv
<1>10. CASE Step /\ ~(RedefineClasses \/ RegisterNative \/ ResumeOthers)
  <2>1. UNCHANGED <<def, bound>> /\ (ShutdownFinish \/ UNCHANGED cache)
    BY <1>10, StepKeepsVm
  <2>2. \A c \in Classes : cache'[c] = NoDef \/ cache'[c] = cache[c]
    BY <2>1 DEF ShutdownFinish
  <2>3. op.pc # "bind"
    BY <1>10 DEF Step, ReapplyFails, RedefineRefused, ResumeRefused, InstallDone, InstallUndo,
       InstallUndone, PartitionStep,
       PartitionDone, UninstallDone, UninstallUndo, ShutdownClass, ShutdownClassDone,
       ShutdownFinish, Return
  <2>4. op'.pc # "bind"
    BY <1>1, <1>10, OnlyReapplyBinds
  <2> QED
    BY <2>1, <2>2, <2>3, <2>4, UnboundKept
<1> QED
  BY <1>5, <1>6, <1>7, <1>8, <1>9, <1>10 DEF Next

\* While the capability to suspend works, RegisterNatives does not fail and the
\* user redefines nothing, no running Java thread meets a native method of the
\* library without its implementation, in any interleaving of calls and after
\* any other failure (suspend_others).
THEOREM NeverUnbound ==
    ASSUME Versions = {}, {"suspend", "register"} \intersect Faults = {}
    PROVE  Spec => []NoUnboundWhileRunning
<1> DEFINE Inv == GoBackInv /\ UnboundInv
<1>1. Init => Inv
  <2> SUFFICES ASSUME Init PROVE UnboundInv
    BY GoBackInit
  <2>1. op.pc = "idle"
    BY DEF Init, Idle
  <2>2. \A c \in Classes : EditSet(def[c]) = {} /\ cache[c] = NoDef
    BY DEF Init, EditSet
  <2> QED
    BY <2>1, <2>2 DEF UnboundInv
<1>2. Inv /\ [Next]_vars => Inv'
  BY GoBackNext, UnboundNext
<1>3. Inv => NoUnboundWhileRunning
  <2> SUFFICES ASSUME Inv, g_can_suspend, ~suspended, NEW c \in Classes, NEW e \in EditSet(def[c])
               PROVE  IsBound(c, e)
    BY DEF NoUnboundWhileRunning, IsBound
  <2>1. ASSUME StillToBind(c, e) PROVE FALSE
    <3>1. op.pc = "bind" /\ op.cls = c /\ \E j \in op.i..Len(hooks[c]) : TRUE
      BY <2>1 DEF StillToBind
    <3>2. /\ op.i \in Nat /\ op.i >= 1 /\ hooks[c] \in Seq(Entry)
          /\ g_can_suspend \in BOOLEAN /\ suspended \in BOOLEAN
      BY <3>1 DEF GoBackInv, EntriesInv, BytesInv, TypeInv, TypeOK, OpType, LoopInRange
    <3>3. hooks[c] = <<>>
      BY <3>1, <3>2 DEF UnboundInv
    <3> QED
      BY <3>1, <3>2, <3>3
  <2> QED
    BY <2>1 DEF UnboundInv
<1> QED
  BY <1>1, <1>2, <1>3, PTL DEF Spec

-----------------------------------------------------------------------------
(* The VM flag is needed for nothing that is not hooked *)

\* Init may go on without the flag, but then the VM takes no hook: a class with
\* hooks in it shows that the flag is set, and the VM takes a rebuild of it.
FlagWhileHooked == \A c \in Classes : Committed(c) # <<>> => vmFlag = TRUE

LEMMA PermutesNone ==
    ASSUME NEW s \in Seq(Entry), Permutes(s, <<>>)
    PROVE  s = <<>>
<1>1. PICK f \in [1..Len(s) -> 1..Len(<<>>)] : TRUE
  BY DEF Permutes, Embeds
<1>2. 1..Len(<<>>) = {} /\ Len(s) \in Nat
  OBVIOUS
<1>3. 1 \notin 1..Len(s)
  BY <1>1, <1>2
<1> QED
  BY <1>2, <1>3

LEMMA ConcatNone ==
    ASSUME NEW s \in Seq(Entry), NEW t \in Seq(Entry), s \o t = <<>>
    PROVE  s = <<>>
<1>1. Len(s) + Len(t) = Len(<<>>) /\ Len(s) \in Nat /\ Len(t) \in Nat
  BY ConcatAt
<1>2. Len(<<>>) = 0
  OBVIOUS
<1>3. Len(s) = 0
  BY <1>1, <1>2
<1> QED
  BY <1>3

LEMMA VmTakesBack ==
    ASSUME GoBackInv, CleanInv, Unwarned, FlagWhileHooked, op.pc = "apply", ~Adding,
           NEW c \in Classes, c = op.cls, cache[c] # NoDef
    PROVE  VmAccepts(c, Build(cache[c], hooks[c]))
<1>1. CASE vmFlag = TRUE
  BY <1>1 DEF VmAccepts
<1>2. CASE vmFlag # TRUE
  <2>1. /\ Committed(c) = <<>> /\ Committed(c) = hooks[c] \o op.aside
        /\ hooks[c] \in Seq(Entry) /\ op.aside \in Seq(Entry)
    <3>1. TypeInv
      BY DEF GoBackInv, EntriesInv, BytesInv
    <3> QED
      BY <1>2, <3>1, CommittedNow, EntriesNow DEF FlagWhileHooked, NotRebuilt
  <2>2. hooks[c] = <<>>
    BY <2>1, ConcatNone
  <2>3. EditSet(def[c]) = {} /\ EditSet(cache[c]) = {}
    BY <2>1, NoEdits DEF CleanInv, CleanClass
  <2>4. cache[c] \in Definition
    BY DEF GoBackInv, EntriesInv, BytesInv, TypeInv, TypeOK
  <2>5. EditSet(Build(cache[c], <<>>)) = EditSet(cache[c]) \union Edits(<<>>)
    BY <2>1, <2>2, <2>4, BuildEdits
  <2> QED
    BY <2>2, <2>3, <2>5, NoEdits DEF VmAccepts
<1> QED
  BY <1>1, <1>2

-----------------------------------------------------------------------------
(* Shutdown restores every class *)

\* The rebuild of a shutdown works on a class that has no hooks left and
\* succeeds, so no Shutdown returns an error.
RestoresWork ==
    /\ Unwarned
    /\ op.call = "Shutdown" /\ op.pc = "apply" => hooks[op.cls] = <<>>
    /\ op.call = "Shutdown" /\ op.pc \in {"refused", "after"} => op.result = "OK"

LEMMA ShutdownRebuilds ==
    ASSUME "redefine" \notin Faults, GoBackInv, CleanInv, FlagWhileHooked, RestoresWork,
           op.call = "Shutdown"
    PROVE  ~ReapplyFails /\ ~RedefineRefused
<1> SUFFICES ASSUME ReapplyFails \/ RedefineRefused PROVE FALSE
  OBVIOUS
<1>1. TypeInv /\ op.pc = "apply" /\ ~Adding
  BY DEF GoBackInv, EntriesInv, BytesInv, ReapplyFails, RedefineRefused, Adding
<1>2. PICK c \in Classes : c = op.cls
  BY <1>1 DEF TypeInv, ClassChosen, InReapply
<1>3. cache[c] # NoDef /\ hooks[c] = <<>>
  BY <1>1, <1>2 DEF GoBackInv, EntriesInv, BytesInv, RebuildHasItsBytes, IsTracked, RestoresWork
<1>4. Prepare(c) = "OK"
  BY <1>3 DEF Prepare
<1>5. VmAccepts(c, Build(cache[c], hooks[c]))
  BY <1>1, <1>2, <1>3, VmTakesBack DEF RestoresWork
<1> QED
  BY <1>2, <1>3, <1>4, <1>5 DEF ReapplyFails, RedefineRefused

LEMMA RestoresNext ==
    ASSUME "redefine" \notin Faults, GoBackInv, BindingWorks, CleanInv, FlagWhileHooked,
           RestoresWork, [Next]_vars
    PROVE  RestoresWork'
<1>1. TypeInv /\ PhaseInv /\ TypeInv'
  BY GoBackNext DEF GoBackInv, EntriesInv, BytesInv
<1>2. ASSUME op' = op, warned' = warned, hooks' = hooks PROVE RestoresWork'
  BY <1>2 DEF RestoresWork, Unwarned
<1>3. CASE UNCHANGED vars
  BY <1>2, <1>3 DEF vars, registry
<1>4. ASSUME warned' = warned, op'.call # "Shutdown" PROVE RestoresWork'
  BY <1>4 DEF RestoresWork, Unwarned
<1>5. ASSUME NEW t \in Threads, Call(t) PROVE RestoresWork'
  <2>1. CASE UNCHANGED <<session, registry, cache, pages, vm, lock, op, warned>>
    BY <1>2, <2>1 DEF registry
  <2>2. ASSUME NEW k, NEW e, BeginsAdding(t, k, e) PROVE RestoresWork'
    <3>1. warned' = warned /\ op'.call = "Install"
      BY <2>2 DEF BeginsAdding, AddsTail, Fresh
    <3> QED
      BY <1>4, <3>1
  <2>3. ASSUME NEW call, NEW c, Begins(t, call, c) PROVE RestoresWork'
    <3>1. warned' = warned /\ op'.pc \notin {"apply", "refused", "after"} /\ op'.first = "OK"
      BY <2>3 DEF Begins, Fresh
    <3> QED
      BY <3>1 DEF RestoresWork, Unwarned
  <2> QED
    BY <1>1, <1>5, <2>1, <2>2, <2>3, CallCases
<1>6. CASE Step /\ op.call # "Shutdown" /\ ~Return
  <2>1. warned' = warned /\ op'.call = op.call
    BY <1>1, <1>6, StepHoldsLock, StepSameCall DEF SameCall
  <2> QED
    BY <1>4, <1>6, <2>1
<1>7. CASE Return
  <2>1. warned' = warned
    <3>1. warned' = (warned \/ (op.call = "Shutdown" /\ op.result # "OK")) /\ op.pc = "return"
      BY <1>7 DEF Return
    <3>2. op.call = "Shutdown" => op.result = "OK"
      BY <3>1 DEF CleanInv, RestoresWork, Unwarned
    <3>3. warned \in BOOLEAN
      BY <1>1 DEF TypeInv, TypeOK
    <3> QED
      BY <3>1, <3>2, <3>3
  <2>2. op'.call = "none"
    BY <1>7 DEF Return, Idle
  <2> QED
    BY <1>4, <2>1, <2>2
<1>8. ASSUME Step, op.call = "Shutdown", ~Return, op'.first = "OK",
             op'.pc = "apply" => hooks'[op'.cls] = <<>>,
             op'.pc \in {"refused", "after"} => op'.result = "OK"
      PROVE  RestoresWork'
  <2>1. warned' = warned
    BY <1>8, StepHoldsLock
  <2> QED
    BY <1>8, <2>1 DEF RestoresWork, Unwarned
<1>9. CASE Step /\ op.call = "Shutdown" /\ ~Return
  <2>1. op.first = "OK"
    BY <1>9 DEF RestoresWork, Unwarned
  <2>2. CASE RedefineClasses \/ RegisterNative \/ ResumeOthers \/ ResumeRefused
    <3>1. /\ op'.first = op.first /\ op'.pc # "apply"
          /\ op'.pc \in {"refused", "after"} => op'.result = "OK"
      BY <1>1, <1>9, <2>2, ReapplyLocals, RegisterLocals DEF SameWork, BindingWorks, RestoresWork
    <3> QED
      BY <1>8, <1>9, <2>1, <3>1
  <2>3. CASE ShutdownClass
    <3>1. /\ op'.first = op.first /\ op'.pc = "apply" /\ op'.cls \in Classes
          /\ hooks' = [hooks EXCEPT ![op'.cls] = <<>>]
      BY <1>1, <2>3, ShutdownLocals
    <3>2. hooks'[op'.cls] = <<>>
      BY <1>1, <3>1, EntriesNow
    <3> QED
      BY <1>8, <1>9, <2>1, <3>1, <3>2
  <2>4. CASE ShutdownClassDone
    <3>1. op'.first = FirstFailure(op.first, op.result) /\ op'.pc = "next" /\ op.pc = "after"
      BY <1>1, <2>4, ShutdownLocals
    <3>2. op'.first = "OK"
      BY <1>9, <2>1, <3>1 DEF FirstFailure, RestoresWork
    <3> QED
      BY <1>8, <1>9, <3>1, <3>2
  <2>5. CASE ShutdownFinish
    BY <1>1, <1>8, <1>9, <2>1, <2>5, ReturnLocals DEF ShutdownFinish, SameWork
  <2>6. ~ReapplyFails /\ ~RedefineRefused
    BY <1>9, ShutdownRebuilds
  <2>7. ~(InstallDone \/ InstallUndo \/ InstallUndone \/ PartitionStep \/ PartitionDone
            \/ UninstallDone \/ UninstallUndo)
    BY <1>1, <1>9 DEF InstallDone, InstallUndo, InstallUndone, PartitionStep, PartitionDone,
       UninstallDone, UninstallUndo, PhaseInv, CallKnown
  <2> QED
    BY <1>9, <2>2, <2>3, <2>4, <2>5, <2>6, <2>7 DEF Step
<1> QED
  BY <1>3, <1>5, <1>6, <1>7, <1>9 DEF Next, Return

LEMMA RestoresInit == Init => RestoresWork
  BY DEF Init, Idle, RestoresWork, Unwarned

LEMMA FlagWhileHookedInit == Init => FlagWhileHooked
<1> SUFFICES ASSUME Init, NEW c \in Classes PROVE Committed(c) = <<>>
  BY DEF FlagWhileHooked
<1>1. op.pc = "idle" /\ hooks[c] = <<>>
  BY DEF Init, Idle
<1> QED
  BY <1>1 DEF Committed, NotRebuilt

LEMMA FlagWhileHookedNext ==
    ASSUME GoBackInv, GoBackInv', BindingWorks, CleanInv, FlagWhileHooked, RestoresWork, [Next]_vars
    PROVE  FlagWhileHooked'
<1> SUFFICES ASSUME NEW c \in Classes, Committed(c)' # <<>> PROVE vmFlag' = TRUE
  BY DEF FlagWhileHooked
<1>1. TypeInv /\ PhaseInv /\ BytesInv
  BY DEF GoBackInv, EntriesInv, BytesInv
<1>2. CASE UNCHANGED vars
  <2>1. op' = op /\ hooks' = hooks /\ vmFlag' = vmFlag
    BY <1>2 DEF vars, vm, registry
  <2>2. Committed(c)' = Committed(c)
    BY <2>1 DEF Committed, Fitting, Older, Entries, NotRebuilt, Adding
  <2> QED
    BY <2>1, <2>2 DEF FlagWhileHooked
<1>3. ASSUME NEW t \in Threads, Call(t) PROVE vmFlag' = TRUE
  <2>1. vmFlag = TRUE
    BY <1>3, CommittedAtCall DEF FlagWhileHooked
  <2>2. vmFlag' \in {vmFlag, TRUE}
    <3>1. CASE JNI2Hook_Init(t)
      BY <3>1 DEF JNI2Hook_Init, SetFlag
    <3>2. CASE ~JNI2Hook_Init(t)
      BY <1>3, <3>2, CallSession
    <3> QED
      BY <3>1, <3>2
  <2> QED
    BY <2>1, <2>2
<1>4. CASE Step /\ ~RedefineClasses
  <2>1. Permutes(Committed(c)', Committed(c)) /\ Committed(c)' \in Seq(Entry)
    BY <1>4, CommittedAtStep, CommittedThen DEF RestoresWork, ShutdownClassDone
  <2>2. Committed(c) # <<>>
    BY <2>1, PermutesNone
  <2>3. ~ShutdownFinish
    <3> SUFFICES ASSUME ShutdownFinish PROVE FALSE
      OBVIOUS
    <3>1. op.pc = "next" /\ g_classes = <<>>
      BY DEF ShutdownFinish
    <3>2. hooks[c] = <<>>
      BY <1>1, <3>1 DEF BytesInv, RebuildHasItsBytes, IsTracked
    <3> QED
      BY <2>2, <3>1, <3>2, CommittedNow DEF NotRebuilt
  <2> QED
    BY <1>4, <2>2, <2>3, SessionKept DEF FlagWhileHooked
<1>5. CASE RedefineClasses
  <2>1. PICK k \in Classes : k = op.cls
    BY <1>5, RebuiltClass
  <2>2. /\ cache[k] \in Definition /\ hooks[k] \in Seq(Entry) /\ hooks[c] # <<>>
        /\ c # k => Committed(c) = hooks[c]
    BY <1>5, <2>1, RebuiltClass, CommittedNow
  <2>3. vmFlag' = vmFlag /\ VmAccepts(k, Build(cache[k], hooks[k]))
    BY <1>5, <2>1 DEF RedefineClasses
  <2> SUFFICES ASSUME vmFlag # TRUE, c = k PROVE FALSE
    BY <2>2, <2>3 DEF FlagWhileHooked
  <2>4. Committed(k) = <<>>
    BY DEF FlagWhileHooked
  <2>5. EditSet(def[k]) = {}
    BY <2>4, NoEdits DEF CleanInv, CleanClass, RestoresWork
  <2>6. EditSet(Build(cache[k], hooks[k])) = EditSet(cache[k]) \union Edits(hooks[k])
    BY <2>2, BuildEdits
  <2>7. vmFlag \in BOOLEAN
    BY <1>1 DEF TypeInv, TypeOK
  <2>8. Edits(hooks[k]) = {}
    BY <2>3, <2>5, <2>6, <2>7 DEF VmAccepts
  <2>9. EditOf(hooks[k][1]) \in Edits(hooks[k])
    <3>1. 1 \in 1..Len(hooks[k])
      BY <2>2
    <3> QED
      BY <3>1 DEF Edits
  <2> QED
    BY <2>8, <2>9
<1> QED
  BY <1>2, <1>3, <1>4, <1>5 DEF Next

-----------------------------------------------------------------------------
(* Hooks stay in the order of their installation *)

Sorted(s) == \A i, j \in 1..Len(s) : i < j => s[i].id < s[j].id

\* The entries the partition has passed over: their order is lost, but the
\* entries before and behind them are in order.
PassedOver(i) == op.kept < i /\ i < op.i
SortedBut(s) ==
    \A i, j \in 1..Len(s) :
        i < j /\ ~PassedOver(i) /\ ~PassedOver(j) => s[i].id < s[j].id

\* As long as no uninstall fails, nothing brings those entries back.
OrderInv ==
    /\ \A c \in Classes : IF op.pc = "scan" /\ c = op.cls THEN SortedBut(hooks[c]) ELSE Sorted(hooks[c])
    /\ op.call = "Uninstall" /\ op.pc \in {"refused", "after"} => op.result = "OK"

\* The rebuild of an uninstall cannot fail: fewer hooks fit where more did.
LEMMA UninstallRebuilds ==
    ASSUME {"memory", "redefine"} \intersect Faults = {}, GoBackInv, Buildable, CleanInv, Unwarned,
           FlagWhileHooked, op.call = "Uninstall"
    PROVE  ~ReapplyFails /\ ~RedefineRefused
<1> SUFFICES ASSUME ReapplyFails \/ RedefineRefused PROVE FALSE
  OBVIOUS
<1>1. TypeInv /\ op.pc = "apply" /\ ~Adding
  BY DEF GoBackInv, EntriesInv, BytesInv, ReapplyFails, RedefineRefused, Adding
<1>2. PICK c \in Classes : c = op.cls
  BY <1>1 DEF TypeInv, ClassChosen, InReapply
<1>3. cache[c] # NoDef
  BY <1>1, <1>2 DEF GoBackInv, EntriesInv, BytesInv, RebuildHasItsBytes, IsTracked
<1>4. CanApply(cache[c], Entries(c))
  BY <1>1, <1>3 DEF Buildable, Fitting
<1>5. Embeds(hooks[c], Entries(c))
  <2>1. hooks[c] \in Seq(Entry) /\ op.aside \in Seq(Entry) /\ Entries(c) = hooks[c] \o op.aside
    BY <1>1, <1>2, EntriesNow
  <2> QED
    BY <2>1, EmbedsConcat
<1>6. CanApply(cache[c], hooks[c])
  BY <1>4, <1>5, CanApplyFewer
<1>7. Prepare(c) = "OK"
  BY <1>3, <1>6 DEF Prepare
<1>8. VmAccepts(c, Build(cache[c], hooks[c]))
  BY <1>1, <1>2, <1>3, VmTakesBack
<1> QED
  BY <1>2, <1>7, <1>8 DEF ReapplyFails, RedefineRefused

\* One turn of the partition.
LEMMA SortedAfterSwap ==
    ASSUME NEW s \in Seq(Entry), NEW k \in Nat, NEW i \in 1..Len(s), k < i,
           \A x, y \in 1..Len(s) :
               x < y /\ ~(k < x /\ x < i) /\ ~(k < y /\ y < i) => s[x].id < s[y].id,
           NEW x \in 1..Len(s), NEW y \in 1..Len(s), x < y,
           ~(k + 1 < x /\ x < i + 1), ~(k + 1 < y /\ y < i + 1)
    PROVE  Swap(s, k + 1, i)[x].id < Swap(s, k + 1, i)[y].id
<1> DEFINE t == Swap(s, k + 1, i)
<1>1. k + 1 \in 1..Len(s) /\ Len(s) \in Nat
  OBVIOUS
<1>2. /\ t[k + 1] = s[i] /\ t[i] = s[k + 1]
      /\ \A z \in 1..Len(s) : z # k + 1 /\ z # i => t[z] = s[z]
  BY <1>1, SwapAt
<1> HIDE DEF t
<1>3. (x <= k \/ x = k + 1 \/ x > i) /\ (y <= k \/ y = k + 1 \/ y > i)
  BY <1>1
<1>4. ASSUME NEW z \in 1..Len(s), z <= k \/ z > i PROVE t[z] = s[z] /\ ~(k < z /\ z < i)
  <2>1. z # k + 1 /\ z # i /\ ~(k < z /\ z < i)
    BY <1>4
  <2> QED
    BY <1>2, <2>1
<1>8. ~(k < i /\ i < i)
  OBVIOUS
<1>9. CASE x = k + 1
  <2>1. y > i
    BY <1>3, <1>9
  <2>2. s[i].id < s[y].id
    BY <1>4, <1>8, <2>1
  <2> QED
    BY <1>2, <1>4, <1>9, <2>1, <2>2 DEF t
<1>10. CASE y = k + 1
  <2>1. x <= k /\ x < i
    BY <1>3, <1>10
  <2>2. s[x].id < s[i].id
    BY <1>4, <1>8, <2>1
  <2> QED
    BY <1>2, <1>4, <1>10, <2>1, <2>2 DEF t
<1>11. CASE x # k + 1 /\ y # k + 1
  <2>1. s[x].id < s[y].id
    BY <1>3, <1>4, <1>11
  <2> QED
    BY <1>3, <1>4, <1>11, <2>1 DEF t
<1> QED
  BY <1>9, <1>10, <1>11

LEMMA SortedCut ==
    ASSUME NEW s \in Seq(Entry), NEW k \in 0..Len(s),
           \A x, y \in 1..k : x < y => s[x].id < s[y].id
    PROVE  Sorted(SubSeq(s, 1, k))
<1>1. Len(SubSeq(s, 1, k)) = k /\ \A i \in 1..k : SubSeq(s, 1, k)[i] = s[i]
  BY EmbedsCut
<1> QED
  BY <1>1 DEF Sorted

LEMMA SortedAppend ==
    ASSUME NEW s \in Seq(Entry), NEW e \in Entry, Sorted(s), \A i \in 1..Len(s) : s[i].id < e.id
    PROVE  Sorted(Append(s, e))
<1> SUFFICES ASSUME NEW i \in 1..Len(Append(s, e)), NEW j \in 1..Len(Append(s, e)), i < j
             PROVE  Append(s, e)[i].id < Append(s, e)[j].id
  BY DEF Sorted
<1>1. /\ Len(Append(s, e)) = Len(s) + 1 /\ Len(s) \in Nat
      /\ \A x \in 1..Len(s) : Append(s, e)[x] = s[x]
      /\ Append(s, e)[Len(s) + 1] = e
  BY AppendAt
<1>2. i \in 1..Len(s) /\ (j \in 1..Len(s) \/ j = Len(s) + 1)
  BY <1>1
<1>3. CASE j \in 1..Len(s)
  BY <1>1, <1>2, <1>3 DEF Sorted
<1>4. CASE j = Len(s) + 1
  BY <1>1, <1>2, <1>4
<1> QED
  BY <1>2, <1>3, <1>4

\* The primes of OrderInv, pushed inward.
LEMMA OrderThen ==
    ASSUME \A c \in Classes : (op'.pc = "scan" /\ c = op'.cls => SortedBut(hooks[c])')
                              /\ (~(op'.pc = "scan" /\ c = op'.cls) => Sorted(hooks'[c])),
           op'.call = "Uninstall" /\ op'.pc \in {"refused", "after"} => op'.result = "OK"
    PROVE  OrderInv'
<1>1. \A c \in Classes : Sorted(hooks[c])' = Sorted(hooks'[c])
  BY DEF Sorted
<1> QED
  BY <1>1 DEF OrderInv

LEMMA OrderAtCall ==
    ASSUME GoBackInv, GoBackInv', OrderInv, NEW t \in Threads, Call(t)
    PROVE  OrderInv'
<1>1. TypeInv /\ PhaseInv /\ TypeInv' /\ IdsHavePages
  BY DEF GoBackInv, EntriesInv, BytesInv
<1>2. CASE UNCHANGED <<session, registry, cache, pages, vm, lock, op, warned>>
  <2>1. op' = op /\ hooks' = hooks
    BY <1>2 DEF registry
  <2>2. \A c \in Classes : SortedBut(hooks[c])' = SortedBut(hooks[c])
    BY <2>1 DEF SortedBut, PassedOver
  <2> QED
    BY <2>1, <2>2, OrderThen DEF OrderInv
<1>3. ASSUME lock = NoThread PROVE \A c \in Classes : Sorted(hooks[c])
  BY <1>1, <1>3 DEF PhaseInv, Idle, OrderInv
<1>4. ASSUME NEW call, NEW k, Begins(t, call, k) PROVE OrderInv'
  <2>1. hooks' = hooks /\ lock = NoThread /\ op'.pc \notin {"refused", "after"}
    BY <1>4 DEF Begins
  <2>2. \A c \in Classes : Sorted(hooks'[c]) /\ SortedBut(hooks[c])'
    BY <1>3, <2>1 DEF Sorted, SortedBut
  <2> QED
    BY <2>1, <2>2, OrderThen
<1>5. ASSUME NEW k, NEW e, BeginsAdding(t, k, e) PROVE OrderInv'
  <2>1. /\ lock = NoThread /\ op'.pc = "apply" /\ k \in Classes /\ e \in Entry
        /\ e.id = Len(pages) + 1
        /\ \A c \in Classes : Entries(c) = hooks[c]
        /\ hooks'[k] = Append(hooks[k], e) /\ \A c \in Classes : c # k => hooks'[c] = hooks[c]
    BY <1>5 DEF BeginsAdding, AddsTail
  <2>2. \A i \in 1..Len(hooks[k]) : hooks[k][i].id < e.id
    <3> SUFFICES ASSUME NEW i \in 1..Len(hooks[k]) PROVE hooks[k][i].id < e.id
      OBVIOUS
    <3>1. hooks[k][i].id <= Len(pages)
      BY <1>1, <2>1 DEF IdsHavePages
    <3>2. hooks[k][i] \in Entry /\ Len(pages) \in Nat
      BY <1>1, <2>1, EntriesNow DEF TypeInv, TypeOK
    <3>3. hooks[k][i].id \in Nat
      BY <3>2 DEF Entry
    <3> QED
      BY <2>1, <3>1, <3>2, <3>3
  <2>3. Sorted(hooks'[k])
    BY <1>1, <1>3, <2>1, <2>2, EntriesNow, SortedAppend
  <2> QED
    BY <1>3, <2>1, <2>3, OrderThen
<1> QED
  BY <1>1, <1>2, <1>4, <1>5, CallCases

LEMMA OrderAtStep ==
    ASSUME {"memory", "redefine"} \intersect Faults = {}, GoBackInv, GoBackInv', Buildable,
           CleanInv, Unwarned, FlagWhileHooked, BindingWorks, OrderInv, Step
    PROVE  OrderInv'
<1>1. TypeInv /\ PhaseInv /\ TypeInv'
  BY DEF GoBackInv, EntriesInv, BytesInv
<1>2. hooks \in [Classes -> Seq(Entry)] /\ op \in OpType /\ op.kept \in Nat /\ op.i \in Nat
  BY <1>1 DEF TypeInv, TypeOK, OpType
<1>3. ASSUME hooks' = hooks, op.pc # "scan", op'.pc # "scan",
             op'.call = "Uninstall" /\ op'.pc \in {"refused", "after"} => op'.result = "OK"
      PROVE  OrderInv'
  BY <1>3, OrderThen DEF OrderInv
<1>4. CASE ReapplyFails \/ RedefineRefused \/ RedefineClasses \/ ResumeOthers \/ ResumeRefused
  <2>1. SameWork /\ op.pc # "scan" /\ op'.pc # "scan" /\ hooks' = hooks
    BY <1>1, <1>4, ReapplyLocals
       DEF ReapplyFails, RedefineRefused, RedefineClasses, ResumeOthers, ResumeRefused, registry
  <2>2. op'.call = "Uninstall" /\ op'.pc \in {"refused", "after"} => op'.result = "OK"
    <3>1. CASE ReapplyFails \/ RedefineRefused
      BY <2>1, <3>1, UninstallRebuilds DEF SameWork, SameCall
    <3>2. CASE RedefineClasses \/ ResumeOthers \/ ResumeRefused
      BY <1>1, <2>1, <3>2, ReapplyLocals DEF BindingWorks, OrderInv, SameWork, SameCall
    <3> QED
      BY <1>4, <3>1, <3>2
  <2> QED
    BY <1>3, <2>1, <2>2
<1>5. CASE RegisterNative
  <2>1. op.pc = "bind" /\ op'.pc = "bind" /\ hooks' = hooks
    BY <1>1, <1>5, RegisterLocals DEF RegisterNative, registry
  <2> QED
    BY <1>3, <2>1
<1>6. CASE InstallDone \/ InstallUndone \/ UninstallDone \/ ShutdownClassDone \/ ShutdownFinish \/ Return
  <2>1. op.pc # "scan" /\ hooks' = hooks
    BY <1>6 DEF InstallDone, InstallUndone, UninstallDone, ShutdownClassDone, ShutdownFinish, Return,
       registry
  <2>2. op'.pc \in {"return", "next", "idle"}
    BY <1>1, <1>6, ReturnLocals, ShutdownLocals
       DEF InstallDone, InstallUndone, UninstallDone, ShutdownFinish, Return, Idle
  <2> QED
    BY <1>3, <2>1, <2>2
<1>7. CASE UninstallUndo
  BY <1>7 DEF UninstallUndo, OrderInv
<1>8. CASE InstallUndo
  <2>1. PICK k \in Classes : k = op.cls
    BY <1>1, <1>8 DEF InstallUndo, TypeInv, ClassChosen, InReapply
  <2>2. /\ hooks' = [hooks EXCEPT ![k] = SubSeq(@, 1, Len(hooks[k]) - 1)] /\ op.pc = "after"
        /\ op.call = "Install" /\ op.rollback = FALSE
    BY <1>2, <1>8, <2>1 DEF InstallUndo, OpType
  <2>3. op'.pc \in {"return", "apply"}
    BY <1>1, <1>8, ReturnLocals, RollbackLocals DEF InstallUndo
  <2>4. hooks[k] # <<>>
    BY <2>1, <2>2 DEF GoBackInv, CanGoBack, InReapply
  <2>5. Len(hooks[k]) - 1 \in 0..Len(hooks[k]) /\ Len(hooks[k]) \in Nat
    BY <1>2, <2>4
  <2>6. Sorted(SubSeq(hooks[k], 1, Len(hooks[k]) - 1))
    <3>1. \A x, y \in 1..(Len(hooks[k]) - 1) : x < y => hooks[k][x].id < hooks[k][y].id
      BY <2>2, <2>5 DEF OrderInv, Sorted
    <3> QED
      BY <1>2, <2>5, <3>1, SortedCut
  <2>7. \A c \in Classes : Sorted(hooks'[c])
    BY <1>2, <2>2, <2>6 DEF OrderInv
  <2> QED
    BY <2>3, <2>7, OrderThen
<1>9. CASE ShutdownClass
  <2>1. PICK k \in Classes : k = op'.cls
    BY <1>1, <1>9, ShutdownLocals
  <2>2. op.pc = "next" /\ op'.pc = "apply" /\ hooks' = [hooks EXCEPT ![k] = <<>>]
    BY <1>1, <1>9, <2>1, ShutdownLocals
  <2>3. Sorted(<<>>)
    BY DEF Sorted
  <2>4. \A c \in Classes : Sorted(hooks'[c])
    BY <1>2, <2>2, <2>3 DEF OrderInv
  <2> QED
    BY <2>2, <2>4, OrderThen
<1>10. CASE PartitionDone
  <2>1. PICK k \in Classes : k = op.cls
    BY <1>1, <1>10, PartitionDoneLocals
  <2>2. /\ op.pc = "scan" /\ op'.pc \in {"return", "apply"} /\ op.kept \in 0..Len(hooks[k])
        /\ \/ hooks' = hooks /\ op'.pc = "return"
           \/ hooks' = [hooks EXCEPT ![k] = SubSeq(@, 1, op.kept)]
    BY <1>1, <1>10, <2>1, PartitionDoneLocals
  <2>3. Len(hooks[k]) \in Nat
    BY <1>2
  <2>4. ASSUME NEW x \in 1..op.kept, NEW y \in 1..op.kept, x < y
        PROVE  hooks[k][x].id < hooks[k][y].id
    <3>1. ~PassedOver(x) /\ ~PassedOver(y) /\ x \in 1..Len(hooks[k]) /\ y \in 1..Len(hooks[k])
      BY <1>2, <2>2, <2>3 DEF PassedOver
    <3>2. SortedBut(hooks[k])
      BY <2>1, <2>2 DEF OrderInv
    <3> QED
      BY <2>4, <3>1, <3>2 DEF SortedBut
  <2>5. Sorted(hooks'[k])
    <3>1. CASE hooks' = [hooks EXCEPT ![k] = SubSeq(@, 1, op.kept)]
      BY <1>2, <2>2, <2>4, <3>1, SortedCut
    <3>2. CASE hooks' = hooks /\ op'.pc = "return"
      <4>1. op.kept = Len(hooks[k])
        <5>1. op'.pc # "apply"
          BY <3>2
        <5> QED
          BY <1>2, <1>10, <2>1, <5>1 DEF PartitionDone, OpType
      <4> QED
        BY <2>4, <3>2, <4>1 DEF Sorted
    <3> QED
      BY <2>2, <3>1, <3>2
  <2>6. \A c \in Classes : Sorted(hooks'[c])
    BY <1>2, <2>1, <2>2, <2>5 DEF OrderInv
  <2> QED
    BY <2>2, <2>6, OrderThen
<1>11. CASE PartitionStep
  <2>1. PICK k \in Classes : k = op.cls
    BY <1>1, <1>11, PartitionLocals
  <2>2. /\ op.pc = "scan" /\ op'.pc = "scan" /\ op'.cls = k /\ op'.i = op.i + 1
        /\ op.i \in 1..Len(hooks[k]) /\ op.kept + 1 \in 1..op.i
        /\ \/ hooks' = hooks /\ op'.kept = op.kept
           \/ /\ op'.kept = op.kept + 1
              /\ hooks' = [hooks EXCEPT ![k] = Swap(@, op.kept + 1, op.i)]
    BY <1>1, <1>11, <2>1, PartitionLocals DEF SameWork
  <2>3. Len(hooks[k]) \in Nat /\ op.kept < op.i
    BY <1>2, <2>2
  <2>4. \A x, y \in 1..Len(hooks[k]) :
            x < y /\ ~(op.kept < x /\ x < op.i) /\ ~(op.kept < y /\ y < op.i)
                => hooks[k][x].id < hooks[k][y].id
    BY <2>1, <2>2 DEF OrderInv, SortedBut, PassedOver
  <2>5. SortedBut(hooks[k])'
    <3>1. CASE hooks' = hooks /\ op'.kept = op.kept
      <4> SUFFICES ASSUME NEW x \in 1..Len(hooks[k]), NEW y \in 1..Len(hooks[k]), x < y,
                          ~(op.kept < x /\ x < op.i + 1), ~(op.kept < y /\ y < op.i + 1)
                   PROVE  hooks[k][x].id < hooks[k][y].id
        BY <2>2, <3>1 DEF SortedBut, PassedOver
      <4>1. ~(op.kept < x /\ x < op.i) /\ ~(op.kept < y /\ y < op.i)
        BY <1>2
      <4> QED
        BY <2>4, <4>1
    <3>2. CASE /\ op'.kept = op.kept + 1
               /\ hooks' = [hooks EXCEPT ![k] = Swap(@, op.kept + 1, op.i)]
      <4>1. hooks'[k] = Swap(hooks[k], op.kept + 1, op.i) /\ Len(hooks'[k]) = Len(hooks[k])
        <5>1. hooks[k] \in Seq(Entry) /\ op.kept + 1 \in 1..Len(hooks[k])
          BY <1>2, <2>2, <2>3
        <5>2. hooks'[k] = Swap(hooks[k], op.kept + 1, op.i)
          BY <1>2, <3>2
        <5>3. Len(Swap(hooks[k], op.kept + 1, op.i)) = Len(hooks[k])
          BY <2>2, <5>1, SwapAt
        <5> QED
          BY <5>2, <5>3
      <4> SUFFICES ASSUME NEW x \in 1..Len(hooks[k]), NEW y \in 1..Len(hooks[k]), x < y,
                          ~(op.kept + 1 < x /\ x < op.i + 1), ~(op.kept + 1 < y /\ y < op.i + 1)
                   PROVE  hooks'[k][x].id < hooks'[k][y].id
        BY <2>2, <3>2, <4>1 DEF SortedBut, PassedOver
      <4>2. hooks[k] \in Seq(Entry) /\ op.kept \in Nat /\ op.i \in 1..Len(hooks[k])
        BY <1>2, <2>2
      <4>3. Swap(hooks[k], op.kept + 1, op.i)[x].id < Swap(hooks[k], op.kept + 1, op.i)[y].id
        BY <2>3, <2>4, <4>2, SortedAfterSwap
      <4> QED
        BY <4>1, <4>3
    <3> QED
      BY <2>2, <3>1, <3>2
  <2>6. \A c \in Classes : c # k => Sorted(hooks'[c])
    BY <1>2, <2>1, <2>2 DEF OrderInv
  <2> QED
    BY <2>2, <2>5, <2>6, OrderThen
<1> QED
  BY <1>4, <1>5, <1>6, <1>7, <1>8, <1>9, <1>10, <1>11 DEF Step

\* Unless memory, RedefineClasses or RegisterNatives fails, an uninstall succeeds and the hooks of a class stay in the order they were
\* installed in, although the partition swaps entries (uninstall_matching).
THEOREM OrderIsKept ==
    ASSUME {"memory", "redefine", "register", "original"} \intersect Faults = {}
    PROVE  Spec => []InstallOrderKept
<1> DEFINE Inv == /\ GoBackInv /\ Buildable /\ BindingWorks /\ CleanInv
                  /\ FlagWhileHooked /\ RestoresWork /\ OrderInv
<1>1. Init => Inv
  <2> SUFFICES ASSUME Init PROVE BindingWorks /\ OrderInv
    BY GoBackInit, BuildableInit, CleanInit, RestoresInit, FlagWhileHookedInit
  <2>1. op.pc = "idle" /\ op.call = "none"
    BY DEF Init, Idle
  <2>2. BindingWorks
    BY <2>1 DEF BindingWorks
  <2>3. \A c \in Classes : Sorted(hooks[c])
    BY DEF Init, Sorted
  <2> QED
    BY <2>1, <2>2, <2>3 DEF OrderInv
<1>2. Inv /\ [Next]_vars => Inv'
  <2> SUFFICES ASSUME Inv, [Next]_vars PROVE Inv'
    OBVIOUS
  <2>1. GoBackInv'
    BY GoBackNext
  <2>2. TypeInv
    BY DEF GoBackInv, EntriesInv, BytesInv
  <2>3. BindingWorks' /\ Buildable' /\ CleanInv' /\ RestoresWork' /\ FlagWhileHooked' /\ Unwarned
    BY <2>1, <2>2, BindingNext, BuildableNext, CleanNext, RestoresNext, FlagWhileHookedNext
       DEF RestoresWork
  <2>4. CASE UNCHANGED vars
    <3>1. op' = op /\ hooks' = hooks
      BY <2>4 DEF vars, registry
    <3>2. \A c \in Classes : SortedBut(hooks[c])' = SortedBut(hooks[c])
      BY <3>1 DEF SortedBut, PassedOver
    <3> QED
      BY <2>1, <2>3, <3>1, <3>2, OrderThen DEF OrderInv
  <2> QED
    BY <2>1, <2>3, <2>4, OrderAtCall, OrderAtStep DEF Next
<1>3. Inv => InstallOrderKept
  <2> SUFFICES ASSUME Inv, lock = NoThread PROVE \A c \in Classes : Sorted(hooks[c])
    BY DEF InstallOrderKept, Sorted
  <2>1. op.pc = "idle"
    BY DEF GoBackInv, EntriesInv, PhaseInv, Idle
  <2> QED
    BY <2>1 DEF OrderInv
<1> QED
  BY <1>1, <1>2, <1>3, PTL DEF Spec

-----------------------------------------------------------------------------
(* Steps of the table, in terms of what runs in each class *)

SameElsewhere(k) == \A c \in Classes : c # k => Running(c)' = Running(c)

LEMMA TableStays ==
    ASSUME g_initialized' = g_initialized, \A c \in Classes : Running(c)' = Running(c)
    PROVE  UNCHANGED Table!vars
  BY DEF Table!vars

LEMMA TableOpens ==
    ASSUME ~g_initialized, g_initialized' = TRUE, \A c \in Classes : Running(c)' = Running(c)
    PROVE  Table!Open
  BY DEF Table!Open

LEMMA TableInstalls ==
    ASSUME g_initialized, g_initialized' = g_initialized, NEW k \in Classes, SameElsewhere(k),
           NEW h, h \notin Running(k), Running(k)' = Running(k) \union {h},
           \A o \in Running(k) : o.method = h.method => o.kind = INSERT_CALL /\ h.kind = INSERT_CALL
    PROVE  Table!Install
<1>1. [c \in Classes |-> Running(c)]' = [[c \in Classes |-> Running(c)] EXCEPT ![k] = @ \union {h}]
  BY DEF SameElsewhere
<1>2. h \in [c \in Classes |-> Running(c)]'[k]
  OBVIOUS
<1>3. Table!Compatible(h, [c \in Classes |-> Running(c)][k])
  BY DEF Table!Compatible, INSERT_CALL
<1> QED
  BY <1>1, <1>2, <1>3 DEF Table!Install

LEMMA TableUninstalls ==
    ASSUME g_initialized, g_initialized' = g_initialized, NEW k \in Classes, SameElsewhere(k),
           NEW gone \in SUBSET Running(k), Running(k)' = Running(k) \ gone,
           \A g, h \in gone : g.method = h.method
    PROVE  Table!Uninstall
<1>1. [c \in Classes |-> Running(c)]' = [[c \in Classes |-> Running(c)] EXCEPT ![k] = @ \ gone]
  BY DEF SameElsewhere
<1>2. gone \in SUBSET ([c \in Classes |-> Running(c)][k])
  OBVIOUS
<1> QED
  BY <1>1, <1>2 DEF Table!Uninstall

LEMMA TableRestores ==
    ASSUME g_initialized, g_initialized' = g_initialized, NEW k \in Classes, SameElsewhere(k),
           Running(k)' = {}
    PROVE  Table!Restore
<1>1. [c \in Classes |-> Running(c)]' = [[c \in Classes |-> Running(c)] EXCEPT ![k] = {}]
  BY DEF SameElsewhere
<1> QED
  BY <1>1 DEF Table!Restore

LEMMA TableCloses ==
    ASSUME g_initialized, g_initialized' = FALSE,
           \A c \in Classes : Running(c) = {} /\ Running(c)' = {}
    PROVE  Table!Close
  BY DEF Table!Close

-----------------------------------------------------------------------------
(* An uninstall takes the hooks of one method *)

OneMethod(s, ids) ==
    \A i, j \in 1..Len(s) : s[i].id \in ids /\ s[j].id \in ids => s[i].method = s[j].method

\* The entries an uninstall looks for are of one method, and the ones it has
\* passed over or moved aside are among them.
MatchInv ==
    op.call = "Uninstall" =>
        /\ op.pc \in {"scan", "apply"} => OneMethod(Entries(op.cls), op.match)
        /\ op.pc = "scan" =>
              \A i \in 1..Len(hooks[op.cls]) : PassedOver(i) => hooks[op.cls][i].id \in op.match
        /\ op.pc = "apply" => \A i \in 1..Len(op.aside) : op.aside[i].id \in op.match

LEMMA TailAt ==
    ASSUME NEW s \in Seq(Entry), NEW k \in 0..Len(s)
    PROVE  /\ Len(SubSeq(s, k + 1, Len(s))) = Len(s) - k
           /\ \A i \in 1..(Len(s) - k) : SubSeq(s, k + 1, Len(s))[i] = s[k + i]
<1>1. Len(s) \in Nat /\ k \in Nat /\ k <= Len(s)
  OBVIOUS
<1>2. Len(SubSeq(s, k + 1, Len(s))) = Len(s) - k
  BY <1>1
<1>3. \A i \in 1..(Len(s) - k) : SubSeq(s, k + 1, Len(s))[i] = s[k + i]
  BY <1>1
<1> QED
  BY <1>2, <1>3

LEMMA EmbedsOneMethod ==
    ASSUME NEW s, NEW t, NEW ids, Embeds(s, t), OneMethod(t, ids)
    PROVE  OneMethod(s, ids)
<1> SUFFICES ASSUME NEW i \in 1..Len(s), NEW j \in 1..Len(s), s[i].id \in ids, s[j].id \in ids
             PROVE  s[i].method = s[j].method
  BY DEF OneMethod
<1>1. PICK f \in [1..Len(s) -> 1..Len(t)] : \A x \in 1..Len(s) : s[x] = t[f[x]]
  BY DEF Embeds
<1>2. f[i] \in 1..Len(t) /\ f[j] \in 1..Len(t) /\ s[i] = t[f[i]] /\ s[j] = t[f[j]]
  BY <1>1
<1> QED
  BY <1>2 DEF OneMethod

\* The ids a call of Uninstall or UninstallAt collects belong to one method.
LEMMA CollectsOneMethod ==
    ASSUME IdsDiffer, \A c \in Classes : Entries(c) = hooks[c], NEW m, NEW ids,
           \A x \in ids : \E c \in Classes : \E i \in 1..Len(hooks[c]) :
               hooks[c][i].id = x /\ hooks[c][i].method = m,
           NEW k \in Classes
    PROVE  OneMethod(hooks[k], ids)
<1>1. ASSUME NEW i \in 1..Len(hooks[k]), hooks[k][i].id \in ids PROVE hooks[k][i].method = m
  <2>1. PICK c \in Classes : \E j \in 1..Len(hooks[c]) :
          hooks[c][j].id = hooks[k][i].id /\ hooks[c][j].method = m
    BY <1>1
  <2>2. PICK j \in 1..Len(hooks[c]) : hooks[c][j].id = hooks[k][i].id /\ hooks[c][j].method = m
    BY <2>1
  <2>3. c = k /\ j = i
    BY <2>2 DEF IdsDiffer
  <2> QED
    BY <2>2, <2>3
<1> QED
  BY <1>1 DEF OneMethod

LEMMA MatchAtCall ==
    ASSUME GoBackInv, GoBackInv', MatchInv, NEW t \in Threads, Call(t)
    PROVE  MatchInv'
<1>1. TypeInv /\ PhaseInv /\ TypeInv' /\ IdsDiffer
  BY DEF GoBackInv, EntriesInv, BytesInv
<1>2. CASE UNCHANGED <<session, registry, cache, pages, vm, lock, op, warned>>
  <2>1. op' = op /\ hooks' = hooks
    BY <1>2 DEF registry
  <2>2. OneMethod(Entries(op.cls), op.match)' = OneMethod(Entries(op.cls), op.match)
    BY <2>1 DEF OneMethod, Entries
  <2> QED
    BY <2>1, <2>2 DEF MatchInv, PassedOver
<1>3. ASSUME op'.call # "Uninstall" PROVE MatchInv'
  BY <1>3 DEF MatchInv
<1>4. ASSUME NEW m \in Methods, NEW ids, Uninstall(t, m, ids),
             \A x \in ids : \E c \in Classes : \E i \in 1..Len(hooks[c]) :
                 hooks[c][i].id = x /\ hooks[c][i].method = m
      PROVE  MatchInv'
  <2>1. hooks' = hooks /\ lock = NoThread
    BY <1>4 DEF Uninstall, Enter, registry
  <2>2. op.aside = <<>>
    BY <1>1, <2>1 DEF PhaseInv, Idle
  <2>3. \A c \in Classes : Entries(c) = hooks[c]
    BY <1>1, <2>2, EntriesNow
  <2>4. CASE op' = Returning(Began("Uninstall", NoClass), "ERR_NOT_HOOKED")
    <3>1. op'.pc = "return"
      BY <2>4, ReturnsAtOnce
    <3> QED
      BY <3>1 DEF MatchInv
  <2>5. ASSUME NEW k \in Classes,
               op' = [Began("Uninstall", k) EXCEPT !.pc = "scan", !.i = 1, !.match = ids]
        PROVE  MatchInv'
    <3>1. /\ op'.pc = "scan" /\ op'.i = 1 /\ op'.match = ids /\ op'.cls = k /\ op'.aside = <<>>
          /\ op'.kept = 0
      <4>1. Fresh("Uninstall", k) /\ op'.pc = "scan" /\ op'.i = 1 /\ op'.match = ids
        BY <2>5, GoesOnScanning
      <4> QED
        BY <4>1 DEF Fresh
    <3>2. Entries(k)' = hooks[k]
      BY <1>1, <2>1, <3>1, EntriesThen
    <3>3. OneMethod(hooks[k], ids)
      BY <1>1, <1>4, <2>3, CollectsOneMethod
    <3>4. OneMethod(Entries(op.cls), op.match)'
      BY <3>1, <3>2, <3>3 DEF OneMethod
    <3>5. \A i \in 1..Len(hooks'[k]) : ~(op'.kept < i /\ i < op'.i)
      BY <3>1
    <3> QED
      BY <3>1, <3>4, <3>5 DEF MatchInv, PassedOver
  <2> QED
    BY <1>4, <2>4, <2>5 DEF Uninstall
<1>5. CASE JNI2Hook_Uninstall(t)
  <2>1. PICK m \in Methods :
          Uninstall(t, m, UNION {{hooks[c][i].id : i \in {j \in 1..Len(hooks[c]) :
                                   matches_method(hooks[c][j], m)}} : c \in Classes})
    BY <1>5 DEF JNI2Hook_Uninstall
  <2> DEFINE ids == UNION {{hooks[c][i].id : i \in {j \in 1..Len(hooks[c]) :
                                   matches_method(hooks[c][j], m)}} : c \in Classes}
  <2>2. \A x \in ids : \E c \in Classes : \E i \in 1..Len(hooks[c]) :
            hooks[c][i].id = x /\ hooks[c][i].method = m
    BY DEF matches_method
  <2>3. Uninstall(t, m, ids)
    BY <2>1
  <2> HIDE DEF ids
  <2> QED
    BY <1>4, <2>2, <2>3
<1>6. CASE JNI2Hook_UninstallAt(t)
  <2>1. PICK m \in Methods, o \in Offsets, f \in Fns :
          Uninstall(t, m, UNION {{hooks[c][i].id : i \in {j \in 1..Len(hooks[c]) :
                                   matches_insert(hooks[c][j], m, o, f)}} : c \in Classes})
    BY <1>6 DEF JNI2Hook_UninstallAt
  <2> DEFINE ids == UNION {{hooks[c][i].id : i \in {j \in 1..Len(hooks[c]) :
                                   matches_insert(hooks[c][j], m, o, f)}} : c \in Classes}
  <2>2. \A x \in ids : \E c \in Classes : \E i \in 1..Len(hooks[c]) :
            hooks[c][i].id = x /\ hooks[c][i].method = m
    BY DEF matches_insert
  <2>3. Uninstall(t, m, ids)
    BY <2>1
  <2> HIDE DEF ids
  <2> QED
    BY <1>4, <2>2, <2>3
<1>7. CASE ~(JNI2Hook_Uninstall(t) \/ JNI2Hook_UninstallAt(t))
  BY <1>2, <1>3, <1>7, CallBegins DEF Fresh
<1> QED
  BY <1>5, <1>6, <1>7

LEMMA MatchAtStep ==
    ASSUME GoBackInv, GoBackInv', MatchInv, Step
    PROVE  MatchInv'
<1>1. TypeInv /\ PhaseInv /\ TypeInv'
  BY DEF GoBackInv, EntriesInv, BytesInv
<1>2. hooks \in [Classes -> Seq(Entry)] /\ op \in OpType /\ op.kept \in Nat /\ op.i \in Nat
  BY <1>1 DEF TypeInv, TypeOK, OpType
<1>3. ASSUME ~(op'.call = "Uninstall" /\ op'.pc \in {"scan", "apply"}) PROVE MatchInv'
  BY <1>3 DEF MatchInv
<1>4. CASE PartitionStep \/ PartitionDone
  <2>1. PICK k \in Classes : k = op.cls
    BY <1>1, <1>4, PartitionLocals, PartitionDoneLocals
  <2>2. op'.cls = k /\ op'.match = op.match /\ op.pc = "scan" /\ op.call = "Uninstall"
    BY <1>1, <1>4, <2>1, PartitionLocals, PartitionDoneLocals
       DEF SameWork, SameCall, PhaseInv, CallKnown
  <2>3. ~Frees
    BY <2>2 DEF Frees, InstallUndo, UninstallDone, ShutdownClassDone
  <2>4. Embeds(Entries(k)', Entries(k))
    BY <1>1, <2>3, StepKeepsEntries DEF SameEntries
  <2>5. OneMethod(Entries(k)', op.match)
    BY <2>1, <2>2, <2>4, EmbedsOneMethod DEF MatchInv
  <2>6. OneMethod(Entries(op.cls), op.match)'
    BY <2>2, <2>5 DEF OneMethod
  <2>7. \A i \in 1..Len(hooks[k]) : op.kept < i /\ i < op.i => hooks[k][i].id \in op.match
    BY <2>1, <2>2 DEF MatchInv, PassedOver
  <2>8. CASE PartitionDone /\ op'.pc = "apply"
    <3>1. /\ op.kept \in 0..Len(hooks[k])
          /\ op'.aside = SubSeq(hooks[k], op.kept + 1, Len(hooks[k]))
      BY <1>1, <2>1, <2>8, PartitionDoneLocals
    <3>2. hooks[k] \in Seq(Entry) /\ Len(hooks[k]) \in Nat /\ op.i > Len(hooks[k])
      BY <1>2, <2>1, <2>8 DEF PartitionDone
    <3>3. ASSUME NEW i \in 1..Len(op'.aside) PROVE op'.aside[i].id \in op.match
      <4>1. i \in 1..(Len(hooks[k]) - op.kept) /\ op'.aside[i] = hooks[k][op.kept + i]
        <5>1. /\ Len(op'.aside) = Len(hooks[k]) - op.kept
              /\ \A x \in 1..(Len(hooks[k]) - op.kept) : op'.aside[x] = hooks[k][op.kept + x]
          BY <3>1, <3>2, TailAt
        <5> QED
          BY <3>3, <5>1
      <4>2. op.kept + i \in 1..Len(hooks[k]) /\ op.kept < op.kept + i /\ op.kept + i < op.i
        BY <1>2, <3>2, <4>1
      <4> QED
        BY <2>7, <4>1, <4>2
    <3> QED
      BY <2>2, <2>6, <2>8, <3>3 DEF MatchInv
  <2>9. CASE PartitionDone /\ op'.pc # "apply"
    BY <1>1, <1>3, <2>9, PartitionDoneLocals
  <2>10. CASE PartitionStep
    <3>1. /\ op'.pc = "scan" /\ op'.i = op.i + 1
          /\ op.i \in 1..Len(hooks[k]) /\ op.kept + 1 \in 1..op.i
          /\ \/ hooks' = hooks /\ op'.kept = op.kept /\ hooks[k][op.i].id \in op.match
             \/ /\ op'.kept = op.kept + 1
                /\ hooks' = [hooks EXCEPT ![k] = Swap(@, op.kept + 1, op.i)]
      BY <1>1, <2>1, <2>10, PartitionLocals
    <3>2. hooks[k] \in Seq(Entry) /\ Len(hooks[k]) \in Nat /\ op.kept + 1 \in 1..Len(hooks[k])
      BY <1>2, <3>1
    <3>3. ASSUME NEW i \in 1..Len(hooks'[k]), op'.kept < i, i < op'.i
          PROVE  hooks'[k][i].id \in op.match
      <4>1. CASE hooks' = hooks /\ op'.kept = op.kept /\ hooks[k][op.i].id \in op.match
        <5>1. i = op.i \/ i < op.i
          BY <1>2, <3>1, <3>2, <3>3, <4>1
        <5> QED
          BY <2>7, <3>3, <4>1, <5>1
      <4>2. CASE /\ op'.kept = op.kept + 1
                 /\ hooks' = [hooks EXCEPT ![k] = Swap(@, op.kept + 1, op.i)]
        <5>1. hooks'[k] = Swap(hooks[k], op.kept + 1, op.i)
          BY <1>2, <4>2
        <5>2. /\ Len(hooks'[k]) = Len(hooks[k]) /\ hooks'[k][op.i] = hooks[k][op.kept + 1]
              /\ \A x \in 1..Len(hooks[k]) : x # op.kept + 1 /\ x # op.i => hooks'[k][x] = hooks[k][x]
          <6> DEFINE s == hooks[k]
                     u == Swap(hooks[k], op.kept + 1, op.i)
          <6>1. /\ Len(u) = Len(s) /\ u[op.i] = s[op.kept + 1]
                /\ \A x \in 1..Len(s) : x # op.kept + 1 /\ x # op.i => u[x] = s[x]
            <7>1. op.i \in 1..Len(hooks[k])
              BY <3>1
            <7> QED
              BY <3>2, <7>1, SwapAt
          <6>2. u = hooks'[k]
            BY <5>1
          <6> HIDE DEF u
          <6> QED
            BY <6>1, <6>2
        <5>3. i \in 1..Len(hooks[k]) /\ op.kept + 1 < i /\ i < op.i + 1
          BY <3>1, <3>3, <4>2, <5>2
        <5>4. CASE i = op.i
          <6>1. op.kept + 1 < op.i /\ op.kept < op.kept + 1
            BY <1>2, <5>3, <5>4
          <6> QED
            BY <2>7, <3>2, <5>2, <5>4, <6>1
        <5>5. CASE i # op.i
          <6>1. i # op.kept + 1 /\ op.kept < i /\ i < op.i
            BY <1>2, <5>3, <5>5
          <6> QED
            BY <2>7, <5>2, <5>3, <5>5, <6>1
        <5> QED
          BY <5>4, <5>5
      <4> QED
        BY <3>1, <4>1, <4>2
    <3> QED
      BY <2>2, <2>6, <3>1, <3>3 DEF MatchInv, PassedOver
  <2> QED
    BY <1>4, <2>8, <2>9, <2>10
<1>5. CASE \/ ReapplyFails \/ RedefineRefused \/ RedefineClasses \/ RegisterNative
           \/ ResumeOthers \/ ResumeRefused
  BY <1>1, <1>3, <1>5, ReapplyLocals, RegisterLocals
<1>6. CASE InstallDone \/ InstallUndone \/ UninstallDone \/ UninstallUndo \/ ShutdownFinish
  BY <1>1, <1>3, <1>6, ReturnLocals
     DEF InstallDone, InstallUndone, UninstallDone, UninstallUndo, ShutdownFinish
<1>7. CASE InstallUndo
  BY <1>1, <1>3, <1>7, StepSameCall DEF InstallUndo, SameCall, Return
<1>8. CASE ShutdownClass \/ ShutdownClassDone
  BY <1>1, <1>3, <1>8, ShutdownLocals DEF SameCall, PhaseInv, CallKnown, ShutdownClass
<1>9. CASE Return
  BY <1>3, <1>9 DEF Return, Idle
<1> QED
  BY <1>4, <1>5, <1>6, <1>7, <1>8, <1>9 DEF Step

LEMMA MatchNext ==
    ASSUME GoBackInv, GoBackInv', MatchInv, [Next]_vars
    PROVE  MatchInv'
<1>1. CASE UNCHANGED vars
  <2>1. op' = op /\ hooks' = hooks
    BY <1>1 DEF vars, registry
  <2>2. OneMethod(Entries(op.cls), op.match)' = OneMethod(Entries(op.cls), op.match)
    BY <2>1 DEF OneMethod, Entries
  <2> QED
    BY <2>1, <2>2 DEF MatchInv, PassedOver
<1> QED
  BY <1>1, MatchAtCall, MatchAtStep DEF Next

LEMMA MatchInit == Init => MatchInv
  BY DEF Init, Idle, MatchInv

-----------------------------------------------------------------------------
(* What runs in a class *)

HookOf(ps, b) ==
    [kind |-> b[1].kind, method |-> b[1].method, offset |-> b[1].offset, name |-> b[1].name,
     fn |-> ps[b[2]].fn]

LEMMA RunningIs ==
    ASSUME NEW c \in Classes
    PROVE  /\ Running(c) = {HookOf(pages, b) : b \in bound[c]}
           /\ Running(c)' = {HookOf(pages', b) : b \in bound'[c]}
  BY DEF Running, HookOf

\* A hook shows its edit.
LEMMA HookShowsEdit ==
    ASSUME NEW ps, NEW qs, NEW a, NEW b, a[1] \in Edit, b[1] \in Edit, HookOf(ps, a) = HookOf(qs, b)
    PROVE  a[1] = b[1]
<1>1. /\ a[1].kind = b[1].kind /\ a[1].method = b[1].method
      /\ a[1].offset = b[1].offset /\ a[1].name = b[1].name
  BY DEF HookOf
<1> QED
  BY <1>1 DEF Edit

LEMMA DisarmKeepsFns ==
    ASSUME TypeOK, NEW ids, Disarm(ids), NEW p \in 1..Len(pages)
    PROVE  pages'[p].fn = pages[p].fn
<1>1. PICK stuck : pages' = [q \in 1..Len(pages) |->
                    IF q \in ids \ stuck /\ pages[q].state = "armed"
                    THEN [pages[q] EXCEPT !.state = "disarmed"] ELSE pages[q]]
  BY DEF Disarm
<1>2. pages[p] \in Page
  BY DEF TypeOK
<1>3. pages'[p] = pages[p] \/ pages'[p] = [pages[p] EXCEPT !.state = "disarmed"]
  BY <1>1
<1> QED
  BY <1>2, <1>3 DEF Page

\* A page keeps its function as long as the library lives.
LEMMA FnsStay ==
    ASSUME TypeInv, PhaseInv, TypeInv', [Next]_vars, NEW p \in 1..Len(pages)
    PROVE  pages'[p].fn = pages[p].fn
<1>1. ASSUME NEW k, NEW freed, FreesTail(k, freed) PROVE pages'[p].fn = pages[p].fn
  BY <1>1, DisarmKeepsFns DEF FreesTail, TypeInv
<1>2. ASSUME NEW k, NEW e, AddsTail(k, e) PROVE pages'[p].fn = pages[p].fn
  <2>1. PICK s \in {"armed", "direct"} : pages' = Append(pages, [fn |-> e.fn, state |-> s])
    BY <1>2 DEF AddsTail
  <2>2. pages \in Seq(Page)
    BY DEF TypeInv, TypeOK
  <2>3. pages'[p] = pages[p]
    BY <2>1, <2>2
  <2> QED
    BY <2>3
<1> QED
  BY <1>1, <1>2, NextEntries

LEMMA CommittedEmbeds ==
    ASSUME GoBackInv, NEW c \in Classes
    PROVE  Embeds(Committed(c), Entries(c)) /\ Embeds(hooks[c], Entries(c))
<1>1. TypeInv
  BY DEF GoBackInv, EntriesInv, BytesInv
<1>2. Embeds(hooks[c], Entries(c))
  <2>1. hooks[c] \in Seq(Entry) /\ op.aside \in Seq(Entry)
        /\ (Entries(c) = hooks[c] \/ Entries(c) = hooks[c] \o op.aside)
    BY <1>1, EntriesNow
  <2> QED
    BY <2>1, EmbedsConcat, EmbedsSelf
<1>3. CASE op.cls = c /\ NotRebuilt /\ Adding
  BY <1>2, <1>3, OlderEmbeds DEF Committed, Fitting
<1>4. CASE op.cls = c /\ NotRebuilt /\ ~Adding
  BY <1>2, <1>4, EmbedsSelf DEF Committed, Fitting
<1>5. CASE ~(op.cls = c /\ NotRebuilt)
  BY <1>2, <1>5 DEF Committed
<1> QED
  BY <1>2, <1>3, <1>4, <1>5

\* Every bound native is one of an existing hook with a page.
LEMMA BoundIsHook ==
    ASSUME GoBackInv, CleanInv, RestoresWork, NEW c \in Classes, NEW b \in bound[c]
    PROVE  /\ b \in Pairs(Committed(c)) /\ b[1] \in Edit /\ b[2] \in 1..Len(pages)
           /\ \E i \in 1..Len(Entries(c)) : b = <<EditOf(Entries(c)[i]), Entries(c)[i].id>>
<1>1. b \in Pairs(Committed(c))
  BY DEF CleanInv, CleanClass, RestoresWork
<1>2. b \in Pairs(Entries(c))
  BY <1>1, CommittedEmbeds, EmbedsEdits
<1>3. PICK i \in 1..Len(Entries(c)) : b = <<EditOf(Entries(c)[i]), Entries(c)[i].id>>
  BY <1>2 DEF Pairs
<1>4. Entries(c)[i].id <= Len(pages) /\ Len(pages) \in Nat
  BY DEF GoBackInv, EntriesInv, IdsHavePages, BytesInv, TypeInv, TypeOK
<1>5. b \in Edit \X (Nat \ {0})
  BY DEF GoBackInv, EntriesInv, BytesInv, TypeInv, TypeOK
<1> QED
  BY <1>1, <1>3, <1>4, <1>5

LEMMA RunsOn ==
    ASSUME GoBackInv, GoBackInv', CleanInv, RestoresWork, [Next]_vars, NEW c \in Classes,
           bound'[c] = bound[c]
    PROVE  Running(c)' = Running(c)
<1>1. TypeInv /\ PhaseInv /\ TypeInv'
  BY DEF GoBackInv, EntriesInv, BytesInv
<1>2. ASSUME NEW b \in bound[c] PROVE HookOf(pages', b) = HookOf(pages, b)
  <2>1. pages'[b[2]].fn = pages[b[2]].fn
    BY <1>1, BoundIsHook, FnsStay
  <2> QED
    BY <2>1 DEF HookOf
<1> QED
  BY <1>2, RunningIs

-----------------------------------------------------------------------------
(* Each step of a call is a step of the table *)

\* A native is bound: a hook appears, or one that was there is bound again.
LEMMA RegisterInstalls ==
    ASSUME {"register", "original"} \intersect Faults = {},
           GoBackInv, GoBackInv', Buildable, BodyRunsInitialized, CleanInv, RestoresWork,
           RegisterNative
    PROVE  Table!Install \/ UNCHANGED Table!vars
<1>1. TypeInv /\ PhaseInv /\ OneDetourPerMethod /\ BytesInv
  BY DEF GoBackInv, EntriesInv, BytesInv
<1>2. PICK k \in Classes : k = op.cls
  BY <1>1, RegisterLocals
<1>3. op.i \in 1..Len(hooks[k]) /\ op.pc = "bind"
  BY <1>1, <1>2, RegisterLocals
<1>4. [Next]_vars
  BY DEF Next, Step
<1>5. PICK e : e = hooks[k][op.i]
  OBVIOUS
<1> DEFINE new == <<EditOf(e), e.id>>
           h == HookOf(pages, new)
<1>6. /\ bound' = [bound EXCEPT ![k] = {b \in @ : b[1] # EditOf(e)} \union {new}]
      /\ pages' = pages /\ g_initialized' = g_initialized
  BY <1>2, <1>5 DEF RegisterNative, session
<1>7. bound \in [Classes -> SUBSET (Edit \X (Nat \ {0}))] /\ hooks[k] \in Seq(Entry)
  BY <1>1 DEF TypeInv, TypeOK
<1>8. PICK f \in [1..Len(hooks[k]) -> 1..Len(Entries(k))] :
        /\ \A x, y \in 1..Len(hooks[k]) : f[x] = f[y] => x = y
        /\ \A x \in 1..Len(hooks[k]) : hooks[k][x] = Entries(k)[f[x]]
  BY CommittedEmbeds DEF Embeds
<1>9. PICK n \in 1..Len(Entries(k)) : e = Entries(k)[n]
  BY <1>3, <1>5, <1>8
<1>10. CanApply(cache[k], Entries(k)) /\ Entries(k) \in Seq(Entry)
  <2>1. cache[k] # NoDef
    BY <1>1, <1>2, <1>3 DEF BytesInv, RebuildHasItsBytes, IsTracked
  <2> QED
    BY <1>1, <1>3, <2>1, EntriesNow DEF Buildable, Fitting, NotRebuilt
<1>11. ASSUME NEW b \in bound[k], b[1] = EditOf(e) PROVE b = new
  <2>1. PICK i \in 1..Len(Entries(k)) : b = <<EditOf(Entries(k)[i]), Entries(k)[i].id>>
    BY BoundIsHook
  <2>2. EditOf(Entries(k)[i]) = EditOf(Entries(k)[n])
    BY <1>9, <1>11, <2>1
  <2>3. i = n
    BY <1>10, <2>2, EditsDiffer
  <2> QED
    BY <1>9, <2>1, <2>3
<1>12. bound'[k] = bound[k] \union {new} /\ \A c \in Classes : c # k => bound'[c] = bound[c]
  BY <1>6, <1>7, <1>11
<1>13. SameElsewhere(k)
  BY <1>4, <1>12, RunsOn DEF SameElsewhere
<1>14. g_initialized
  BY <1>3 DEF BodyRunsInitialized
<1>15. CASE new \in bound[k]
  <2>1. \A c \in Classes : bound'[c] = bound[c]
    BY <1>12, <1>15
  <2>2. \A c \in Classes : Running(c)' = Running(c)
    BY <1>4, <2>1, RunsOn
  <2> QED
    BY <1>6, <2>2, TableStays
<1>16. CASE new \notin bound[k]
  <2>1. Running(k)' = Running(k) \union {h}
    BY <1>6, <1>12, RunningIs
  <2>2. new[1] = EditOf(e) /\ new[1] \in Edit
    <3>1. e \in Entry
      BY <1>9, <1>10
    <3> QED
      BY <3>1, EditOfType
  <2> HIDE DEF new
  <2>3. h \notin Running(k)
    <3> SUFFICES ASSUME NEW b \in bound[k], h = HookOf(pages, b) PROVE FALSE
      BY RunningIs
    <3>1. b[1] = new[1]
      BY <2>2, BoundIsHook, HookShowsEdit
    <3> QED
      BY <1>11, <1>16, <2>2, <3>1
  <2>4. ASSUME NEW o \in Running(k), o.method = h.method
        PROVE  o.kind = INSERT_CALL /\ h.kind = INSERT_CALL
    <3>1. PICK b \in bound[k] : o = HookOf(pages, b)
      BY RunningIs
    <3>2. PICK i \in 1..Len(Entries(k)) : b = <<EditOf(Entries(k)[i]), Entries(k)[i].id>>
      BY BoundIsHook
    <3>3. o.method = Entries(k)[i].method /\ o.kind = Entries(k)[i].kind
      BY <3>1, <3>2 DEF HookOf, EditOf
    <3>4. h.method = Entries(k)[n].method /\ h.kind = Entries(k)[n].kind
      BY <1>9, <2>2 DEF HookOf, EditOf
    <3>5. i # n
      BY <1>9, <1>16, <3>2 DEF new
    <3> QED
      BY <1>1, <2>4, <3>3, <3>4, <3>5 DEF OneDetourPerMethod
  <2> HIDE DEF h
  <2> QED
    BY <1>6, <1>13, <1>14, <2>1, <2>3, <2>4, TableInstalls
<1> QED
  BY <1>15, <1>16

\* A position beyond the first of two arrays put together.
LEMMA BeyondFirst ==
    ASSUME NEW m \in Nat, NEW n \in Nat, NEW i \in 1..(m + n), i \notin 1..m
    PROVE  \E j \in 1..n : i = m + j
<1>1. i - m \in 1..n /\ i = m + (i - m)
  OBVIOUS
<1> QED
  BY <1>1

\* A class is redefined.  An install loses none of the hooks that run, the end
\* of a session loses all of the class's, and an uninstall the ones it was
\* asked to remove, which are of one method.
LEMMA RedefineRemoves ==
    ASSUME GoBackInv, GoBackInv', BodyRunsInitialized, CleanInv, RestoresWork, MatchInv,
           RedefineClasses
    PROVE  Table!Uninstall \/ Table!Restore \/ UNCHANGED Table!vars
<1>1. TypeInv /\ PhaseInv
  BY DEF GoBackInv, EntriesInv, BytesInv
<1>2. PICK k \in Classes : k = op.cls
  BY RebuiltClass
<1>3. [Next]_vars
  BY DEF Next, Step
<1>4. /\ cache[k] \in Definition /\ UNCHANGED <<hooks, pages>> /\ op.pc = "apply"
      /\ bound' = KeepBound(k, Build(cache[k], hooks[k]))
  BY <1>2, RebuiltClass
<1>5. bound \in [Classes -> SUBSET (Edit \X (Nat \ {0}))] /\ hooks[k] \in Seq(Entry)
  BY <1>1 DEF TypeInv, TypeOK
<1>6. EditSet(Build(cache[k], hooks[k])) = Edits(hooks[k])
  <2>1. EditSet(cache[k]) = {}
    <3>1. cache[k] # NoDef
      BY <1>2, <1>4 DEF GoBackInv, EntriesInv, BytesInv, RebuildHasItsBytes, IsTracked
    <3> QED
      BY <3>1 DEF CleanInv, CleanClass, RestoresWork
  <2> QED
    BY <1>4, <1>5, <2>1, BuildEdits
<1>7. /\ bound'[k] = {b \in bound[k] : b[1] \in Edits(hooks[k])}
      /\ \A c \in Classes : c # k => bound'[c] = bound[c]
  BY <1>4, <1>5, <1>6 DEF KeepBound
<1>8. SameElsewhere(k)
  BY <1>3, <1>7, RunsOn DEF SameElsewhere
<1>9. g_initialized /\ g_initialized' = g_initialized
  BY <1>4 DEF BodyRunsInitialized, RedefineClasses, session
<1>10. Entries(k) = hooks[k] \o op.aside /\ Entries(k) \in Seq(Entry) /\ op.aside \in Seq(Entry)
  BY <1>1, <1>2, <1>4, EntriesNow
<1>11. CASE op.call = "Install"
  <2>1. ASSUME NEW b \in bound[k] PROVE b[1] \in Edits(hooks[k])
    <3>1. op.aside = <<>>
      BY <1>1, <1>11 DEF PhaseInv
    <3>2. Entries(k) = hooks[k]
      BY <1>1, <3>1, EntriesNow
    <3>3. PICK i \in 1..Len(Entries(k)) : b = <<EditOf(Entries(k)[i]), Entries(k)[i].id>>
      BY BoundIsHook
    <3> QED
      BY <3>2, <3>3 DEF Edits
  <2>2. \A c \in Classes : bound'[c] = bound[c]
    BY <1>7, <2>1
  <2>3. \A c \in Classes : Running(c)' = Running(c)
    BY <1>3, <2>2, RunsOn
  <2> QED
    BY <1>9, <2>3, TableStays
<1>12. CASE op.call = "Shutdown"
  <2>1. hooks[k] = <<>>
    BY <1>2, <1>4, <1>12 DEF RestoresWork
  <2>2. bound'[k] = {}
    BY <1>7, <2>1, NoEdits
  <2>3. Running(k)' = {}
    BY <2>2, RunningIs
  <2> QED
    BY <1>8, <1>9, <2>3, TableRestores
<1>13. CASE op.call = "Uninstall"
  <2> DEFINE left == {b \in bound[k] : b[1] \notin Edits(hooks[k])}
             gone == {HookOf(pages, b) : b \in left}
  <2>1. gone \in SUBSET Running(k)
    BY RunningIs
  <2>2. Running(k)' = {HookOf(pages, b) : b \in {x \in bound[k] : x[1] \in Edits(hooks[k])}}
    BY <1>4, <1>7, RunningIs
  <2>3. ASSUME NEW a \in bound[k], NEW b \in bound[k], HookOf(pages, a) = HookOf(pages, b)
        PROVE  a[1] = b[1]
    BY <2>3, BoundIsHook, HookShowsEdit
  <2>4. Running(k)' = Running(k) \ gone
    <3>1. ASSUME NEW h \in Running(k)' PROVE h \in Running(k) \ gone
      BY <2>2, <2>3, RunningIs
    <3>2. ASSUME NEW h \in Running(k) \ gone PROVE h \in Running(k)'
      BY <2>2, RunningIs
    <3> QED
      BY <3>1, <3>2
  <2>5. ASSUME NEW b \in left
        PROVE  \E i \in 1..Len(Entries(k)) :
                  Entries(k)[i].id \in op.match /\ HookOf(pages, b).method = Entries(k)[i].method
    <3>1. PICK i \in 1..Len(Entries(k)) : b = <<EditOf(Entries(k)[i]), Entries(k)[i].id>>
      BY BoundIsHook
    <3>2. HookOf(pages, b).method = Entries(k)[i].method
      BY <3>1 DEF HookOf, EditOf
    <3>3. Len(hooks[k]) \in Nat /\ Len(op.aside) \in Nat /\ Len(Entries(k)) = Len(hooks[k]) + Len(op.aside)
      BY <1>5, <1>10, ConcatAt
    <3>4. i \notin 1..Len(hooks[k])
      <4> SUFFICES ASSUME i \in 1..Len(hooks[k]) PROVE FALSE
        OBVIOUS
      <4>1. Entries(k)[i] = hooks[k][i]
        BY <1>5, <1>10, ConcatAt
      <4>2. b[1] = EditOf(hooks[k][i])
        BY <3>1, <4>1
      <4> QED
        BY <4>2 DEF Edits
    <3>5. PICK j \in 1..Len(op.aside) : i = Len(hooks[k]) + j
      <4>1. i \in 1..(Len(hooks[k]) + Len(op.aside))
        BY <3>1, <3>3
      <4> QED
        BY <3>3, <3>4, <4>1, BeyondFirst
    <3>6. Entries(k)[i] = op.aside[j]
      BY <1>5, <1>10, <3>5, ConcatAt
    <3>7. op.aside[j].id \in op.match
      BY <1>4, <1>13 DEF MatchInv
    <3> QED
      BY <3>2, <3>6, <3>7
  <2>6. OneMethod(Entries(k), op.match)
    BY <1>2, <1>4, <1>13 DEF MatchInv
  <2>7. \A g, h \in gone : g.method = h.method
    <3> SUFFICES ASSUME NEW a \in left, NEW b \in left
                 PROVE  HookOf(pages, a).method = HookOf(pages, b).method
      OBVIOUS
    <3> QED
      BY <2>5, <2>6 DEF OneMethod
  <2> HIDE DEF gone
  <2> QED
    BY <1>8, <1>9, <2>1, <2>4, <2>7, TableUninstalls
<1> QED
  BY <1>1, <1>4, <1>11, <1>12, <1>13 DEF PhaseInv, Reapplying

\* The end of a session: nothing of it runs any more.
LEMMA FinishCloses ==
    ASSUME GoBackInv, GoBackInv', BodyRunsInitialized, CleanInv, RestoresWork, ShutdownFinish
    PROVE  Table!Close
<1>1. op.pc = "next" /\ g_classes = <<>> /\ g_initialized' = FALSE /\ UNCHANGED <<bound, pages>>
  BY DEF ShutdownFinish
<1>2. g_initialized
  BY <1>1 DEF BodyRunsInitialized
<1>3. ASSUME NEW c \in Classes PROVE bound[c] = {}
  <2>1. hooks[c] = <<>>
    BY <1>1 DEF GoBackInv, EntriesInv, BytesInv, RebuildHasItsBytes, IsTracked
  <2>2. Committed(c) = <<>>
    BY <1>1, <2>1, CommittedNow DEF NotRebuilt
  <2> QED
    BY <2>2, NoEdits DEF CleanInv, CleanClass, RestoresWork
<1>4. \A c \in Classes : Running(c) = {} /\ Running(c)' = {}
  BY <1>1, <1>3, RunningIs
<1> QED
  BY <1>1, <1>2, <1>4, TableCloses

\* A call that begins opens a session, or redefines a class for the user and
\* takes its hooks away, or changes nothing that runs.
LEMMA CallIsTableStep ==
    ASSUME GoBackInv, GoBackInv', CleanInv, RestoresWork, NEW t \in Threads, Call(t)
    PROVE  Table!Open \/ Table!Restore \/ UNCHANGED Table!vars
<1>1. TypeInv /\ PhaseInv /\ TypeInv'
  BY DEF GoBackInv, EntriesInv, BytesInv
<1>2. [Next]_vars
  BY DEF Next
<1>3. bound \in [Classes -> SUBSET (Edit \X (Nat \ {0}))] /\ g_initialized \in BOOLEAN
  BY <1>1 DEF TypeInv, TypeOK
<1>4. ASSUME bound' = bound PROVE \A c \in Classes : Running(c)' = Running(c)
  BY <1>2, <1>4, RunsOn
<1>5. CASE JNI2Hook_Init(t)
  <2>1. bound' = bound /\ (g_initialized' = g_initialized \/ (~g_initialized /\ g_initialized' = TRUE))
    BY <1>5 DEF JNI2Hook_Init, session
  <2> QED
    BY <1>4, <2>1, TableStays, TableOpens
<1>6. CASE JNI2Hook_RedefineClass(t)
  <2>1. PICK k \in Classes, v \in Versions :
          /\ Enter(t)
          /\ \/ bound' = KeepBound(k, [ver |-> v, edits |-> <<>>])
             \/ bound' = bound
          /\ UNCHANGED session
    BY <1>6 DEF JNI2Hook_RedefineClass
  <2>2. g_initialized /\ g_initialized' = g_initialized
    BY <2>1 DEF Enter, StillInitialized, session
  <2>3. CASE bound' = bound
    BY <1>4, <2>2, <2>3, TableStays
  <2>4. CASE bound' = KeepBound(k, [ver |-> v, edits |-> <<>>])
    <3>1. EditSet([ver |-> v, edits |-> <<>>]) = {}
      BY DEF EditSet
    <3>2. bound'[k] = {} /\ \A c \in Classes : c # k => bound'[c] = bound[c]
      BY <1>3, <2>4, <3>1 DEF KeepBound
    <3>3. SameElsewhere(k)
      BY <1>2, <3>2, RunsOn DEF SameElsewhere
    <3>4. Running(k)' = {}
      BY <3>2, RunningIs
    <3> QED
      BY <2>2, <3>3, <3>4, TableRestores
  <2> QED
    BY <2>1, <2>3, <2>4
<1>7. CASE ~JNI2Hook_Init(t) /\ ~JNI2Hook_RedefineClass(t)
  <2>1. g_initialized' = g_initialized
    BY <1>7, CallSession DEF session
  <2>2. bound' = bound
    BY <1>1, <1>7, CallCases DEF Begins, BeginsAdding, vm
  <2> QED
    BY <1>4, <2>1, <2>2, TableStays
<1> QED
  BY <1>5, <1>6, <1>7

\* Every other step of a call changes nothing that runs.
LEMMA StepIsTableStep ==
    ASSUME {"register", "original"} \intersect Faults = {},
           GoBackInv, GoBackInv', Buildable, BodyRunsInitialized, CleanInv, RestoresWork, MatchInv,
           Step
    PROVE  Table!Next \/ UNCHANGED Table!vars
<1>1. CASE RedefineClasses
  BY <1>1, RedefineRemoves DEF Table!Next
<1>2. CASE RegisterNative
  BY <1>2, RegisterInstalls DEF Table!Next
<1>3. CASE ShutdownFinish
  BY <1>3, FinishCloses DEF Table!Next
<1>4. CASE ~(RedefineClasses \/ RegisterNative \/ ShutdownFinish)
  <2>1. g_initialized' = g_initialized /\ bound' = bound
    BY <1>4, SessionKept, StepKeepsVm DEF session
  <2>2. \A c \in Classes : Running(c)' = Running(c)
    BY <2>1, RunsOn DEF Next
  <2> QED
    BY <2>1, <2>2, TableStays
<1> QED
  BY <1>1, <1>2, <1>3, <1>4

LEMMA TableInit == Init => Table!Init
<1> SUFFICES ASSUME Init PROVE Table!Init
  OBVIOUS
<1>1. g_initialized = FALSE /\ \A c \in Classes : bound[c] = {}
  BY DEF Init
<1>2. \A c \in Classes : Running(c) = {}
  BY <1>1, RunningIs
<1> QED
  BY <1>1, <1>2 DEF Table!Init

\* reapply rebuilds a class from its cached bytes in several steps, and threads
\* of the VM run it in between.  As long as the VM accepts the redefinition and
\* the bindings (allocations, captures, suspensions and disarmings may fail,
\* and users may redefine classes), those threads see the steps of HookTable
\* and no others: a hook comes complete and next to no detour of its method,
\* an uninstall takes hooks of its own method only, and the hooks of a session
\* are gone when it ends.
THEOREM RegistryImplementsTable ==
    ASSUME {"redefine", "register", "original"} \intersect Faults = {}
    PROVE  Spec => ImplementsHookTable
<1> DEFINE Inv == /\ GoBackInv /\ Buildable /\ BindingWorks /\ BodyRunsInitialized
                  /\ CleanInv /\ FlagWhileHooked /\ RestoresWork /\ MatchInv
<1>1. Init => Inv
  <2>1. Init => BindingWorks /\ BodyRunsInitialized
    BY DEF Init, Idle, BindingWorks, BodyRunsInitialized
  <2> QED
    BY <2>1, GoBackInit, BuildableInit, CleanInit, FlagWhileHookedInit, RestoresInit, MatchInit
<1>2. Inv /\ [Next]_vars => Inv'
  <2> SUFFICES ASSUME Inv, [Next]_vars PROVE Inv'
    OBVIOUS
  <2>1. GoBackInv' /\ TypeInv
    BY GoBackNext DEF GoBackInv, EntriesInv, BytesInv
  <2>2. BindingWorks' /\ Buildable' /\ BodyRunsInitialized'
    BY <2>1, BindingNext, BuildableNext, InitializedNext
  <2> QED
    BY <2>1, <2>2, CleanNext, FlagWhileHookedNext, RestoresNext, MatchNext
<1>3. Inv /\ Inv' /\ [Next]_vars => [Table!Next]_(Table!vars)
  <2> SUFFICES ASSUME Inv, Inv', [Next]_vars PROVE Table!Next \/ UNCHANGED Table!vars
    OBVIOUS
  <2>1. CASE UNCHANGED vars
    <3>1. UNCHANGED <<bound, pages, g_initialized>>
      BY <2>1 DEF vars, vm, session
    <3>2. \A c \in Classes : Running(c)' = Running(c)
      BY <3>1, RunningIs
    <3> QED
      BY <3>1, <3>2, TableStays
  <2>2. ASSUME NEW t \in Threads, Call(t) PROVE Table!Next \/ UNCHANGED Table!vars
    BY <2>2, CallIsTableStep DEF Table!Next
  <2>3. CASE Step
    BY <2>3, StepIsTableStep
  <2> QED
    BY <2>1, <2>2, <2>3 DEF Next
<1> QED
  BY <1>1, <1>2, <1>3, TableInit, PTL DEF Spec, ImplementsHookTable, Table!Spec
=============================================================================
