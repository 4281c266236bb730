-------------------------- MODULE HookEntriesProofs --------------------------
(* Proofs about the hook entries of HookRegistry: what happens to the arrays *)
(* while calls partition, append to, cut and restore them, for every set of  *)
(* threads, classes and methods and whatever the VM refuses.                 *)
EXTENDS HookRegistryProofs, SequenceTheorems

-----------------------------------------------------------------------------
(* The inductive invariants *)

Reapplying == {"apply", "bind", "refused", "after"}

\* The locals of a call agree with its phase: between calls they are reset, a
\* rebuild belongs to a call that changes hooks, entries are aside only for an
\* uninstall or a shutdown that rebuilds, and only an install rolls back.
PhaseInv ==
    /\ lock = NoThread => op = Idle
    /\ CallKnown
    /\ op.pc \in Reapplying => op.call \in {"Install", "Uninstall", "Shutdown"}
    /\ op.aside # <<>> => /\ op.call \in {"Uninstall", "Shutdown"}
                          /\ op.pc \in {"apply", "bind", "refused", "after", "return"}
    /\ op.rollback = TRUE => op.call = "Install"

\* The hooks that exist, the ones moved aside included.
EntryIds == UNION {Ids(Entries(c)) : c \in Classes}

\* No two hooks share a page, and every hook has one.
IdsDiffer ==
    \A c, d \in Classes : \A i \in 1..Len(Entries(c)), j \in 1..Len(Entries(d)) :
        Entries(c)[i].id = Entries(d)[j].id => c = d /\ i = j
IdsHavePages ==
    \A c \in Classes : \A i \in 1..Len(Entries(c)) : Entries(c)[i].id <= Len(pages)

EntriesInv == BytesInv /\ PhaseInv /\ OneDetourPerMethod /\ IdsDiffer /\ IdsHavePages

\* The hooks that were there before the install under way added its own.
Older(c) == IF c = op.cls THEN SubSeq(hooks[c], 1, Len(hooks[c]) - 1) ELSE hooks[c]
OlderIds == UNION {Ids(Older(c)) : c \in Classes}

\* A call that may still fail can go back to the hooks it found.
CanGoBack ==
    op.pc \in InReapply =>
        /\ op.call = "Uninstall" => EntryIds = op.ids
        /\ op.call = "Install" /\ op.rollback = TRUE => EntryIds = op.ids
        /\ op.call = "Install" /\ op.rollback = FALSE =>
              hooks[op.cls] # <<>> /\ OlderIds = op.ids

\* A page is armed as long as its hook exists, and no longer.
ArmedWhileExisting ==
    \A p \in 1..Len(pages) :
        /\ p \in EntryIds => pages[p].state # "disarmed"
        /\ pages[p].state = "armed" => p \in EntryIds

-----------------------------------------------------------------------------
(* What each step does to the locals *)

\* The locals of a call that has just begun.
Fresh(call, c) ==
    /\ op'.call = call /\ op'.cls = c /\ op'.aside = <<>> /\ op'.rollback = FALSE
    /\ op'.first = "OK" /\ op'.before = def /\ op'.ids = TrackedIds /\ op'.kept = 0

\* What a call keeps from its beginning to its end.
SameCall ==
    /\ op'.call = op.call /\ op'.ids = op.ids /\ op'.before = op.before
    /\ op'.match = op.match
SameWork == SameCall /\ op'.cls = op.cls /\ op'.aside = op.aside /\ op'.rollback = op.rollback
                     /\ op'.first = op.first

LEMMA BeganFields ==
    ASSUME NEW call, NEW c
    PROVE  /\ Began(call, c).pc = "idle" /\ Began(call, c).call = call /\ Began(call, c).cls = c
           /\ Began(call, c).aside = <<>> /\ Began(call, c).rollback = FALSE
           /\ Began(call, c).first = "OK" /\ Began(call, c).before = def
           /\ Began(call, c).ids = TrackedIds /\ Began(call, c).kept = 0
  BY DEF Began, Idle

\* A call that returns at once.
LEMMA ReturnsAtOnce ==
    ASSUME NEW call, NEW c, NEW s, op' = Returning(Began(call, c), s)
    PROVE  Fresh(call, c) /\ op'.pc = "return" /\ op'.result = s
  BY DEF Returning, Began, Idle, Fresh

\* A call that goes on.
LEMMA GoesOn ==
    ASSUME NEW call, NEW c, NEW pc, op' = [Began(call, c) EXCEPT !.pc = pc]
    PROVE  Fresh(call, c) /\ op'.pc = pc
  BY DEF Began, Idle, Fresh

LEMMA GoesOnScanning ==
    ASSUME NEW call, NEW c, NEW ids,
           op' = [Began(call, c) EXCEPT !.pc = "scan", !.i = 1, !.match = ids]
    PROVE  Fresh(call, c) /\ op'.pc = "scan" /\ op'.i = 1 /\ op'.match = ids
  BY DEF Began, Idle, Fresh

\* reapply and its loops work for the same call on the same class.
LEMMA ReapplyLocals ==
    ASSUME TypeInv
    PROVE  /\ ReapplyFails => /\ SameWork /\ op.pc = "apply" /\ op'.pc = "after"
                              /\ op'.result # "OK"
           /\ RedefineRefused => /\ SameWork /\ op.pc = "apply" /\ op'.pc = "refused"
                                 /\ op'.result # "OK"
           /\ RedefineClasses => /\ SameWork /\ op.pc = "apply" /\ op'.pc = "bind"
                                 /\ op'.result = "OK" /\ op'.i = 1
           /\ ResumeOthers => /\ SameWork /\ op.pc = "bind" /\ op'.pc = "after"
                              /\ op'.result = op.result
           /\ ResumeRefused => /\ SameWork /\ op.pc = "refused" /\ op'.pc = "after"
                               /\ op'.result = op.result
<1>1. op \in OpType
  BY DEF TypeInv, TypeOK
<1>2. ASSUME ReapplyFails
      PROVE  SameWork /\ op.pc = "apply" /\ op'.pc = "after" /\ op'.result # "OK"
  <2>1. PICK s : s # "OK" /\ op' = [op EXCEPT !.pc = "after", !.result = s]
    BY <1>2 DEF ReapplyFails
  <2> QED
    BY <1>1, <1>2, <2>1 DEF OpType, SameWork, SameCall, ReapplyFails
<1>3. ASSUME RedefineClasses
      PROVE  SameWork /\ op.pc = "apply" /\ op'.pc = "bind" /\ op'.result = "OK" /\ op'.i = 1
  BY <1>1, <1>3 DEF OpType, SameWork, SameCall, RedefineClasses
<1>4. ASSUME ResumeOthers
      PROVE  SameWork /\ op.pc = "bind" /\ op'.pc = "after" /\ op'.result = op.result
  BY <1>1, <1>4 DEF OpType, SameWork, SameCall, ResumeOthers
<1>5. ASSUME RedefineRefused
      PROVE  SameWork /\ op.pc = "apply" /\ op'.pc = "refused" /\ op'.result # "OK"
  BY <1>1, <1>5 DEF OpType, SameWork, SameCall, RedefineRefused
<1>6. ASSUME ResumeRefused
      PROVE  SameWork /\ op.pc = "refused" /\ op'.pc = "after" /\ op'.result = op.result
  BY <1>1, <1>6 DEF OpType, SameWork, SameCall, ResumeRefused
<1> QED
  BY <1>2, <1>3, <1>4, <1>5, <1>6

LEMMA RegisterLocals ==
    ASSUME TypeInv, RegisterNative
    PROVE  /\ SameWork /\ op.pc = "bind" /\ op'.pc = "bind"
           /\ op'.i = op.i + 1 /\ op.i \in 1..Len(hooks[op.cls]) /\ op.cls \in Classes
           /\ op'.result = op.result \/ op'.result = FirstFailure(op.result, "ERR_JNI")
<1>1. op \in OpType /\ op.i \in Nat
  BY DEF TypeInv, TypeOK, OpType
<1>2. op.pc = "bind" /\ op.i <= Len(hooks[op.cls]) /\ op.i >= 1 /\ op.cls \in Classes
  BY <1>1 DEF RegisterNative, TypeInv, LoopInRange, ClassChosen, InReapply
<1>3. Len(hooks[op.cls]) \in Nat
  BY <1>2 DEF TypeInv, TypeOK
<1>4. PICK s \in {op.result, FirstFailure(op.result, "ERR_JNI")} :
        op' = [op EXCEPT !.i = op.i + 1, !.result = s]
  <2>1. op = [op EXCEPT !.result = op.result]
    BY <1>1 DEF OpType
  <2>2. [op EXCEPT !.i = op.i + 1] = [op EXCEPT !.i = op.i + 1, !.result = op.result]
    BY <1>1 DEF OpType
  <2> QED
    BY <2>2 DEF RegisterNative
<1>5. SameWork /\ op'.pc = op.pc /\ op'.i = op.i + 1 /\ op'.result = s
  BY <1>1, <1>4 DEF OpType, SameWork, SameCall
<1> QED
  BY <1>1, <1>2, <1>3, <1>4, <1>5

\* The ends of install and of uninstall return.
LEMMA ReturnLocals ==
    ASSUME TypeInv, NEW s, op' = Returning(op, s)
    PROVE  SameWork /\ op'.pc = "return" /\ op'.result = s
<1>1. op \in OpType
  BY DEF TypeInv, TypeOK
<1> QED
  BY <1>1 DEF OpType, SameWork, SameCall, Returning

LEMMA RollbackLocals ==
    ASSUME TypeInv, op' = [op EXCEPT !.pc = "apply", !.rollback = TRUE, !.first = op.result]
    PROVE  /\ SameCall /\ op'.cls = op.cls /\ op'.aside = op.aside
           /\ op'.pc = "apply" /\ op'.rollback = TRUE /\ op'.first = op.result
<1>1. op \in OpType
  BY DEF TypeInv, TypeOK
<1> QED
  BY <1>1 DEF OpType, SameCall

\* The partition, its end, and the loop of a shutdown.
LEMMA PartitionLocals ==
    ASSUME TypeInv, PartitionStep
    PROVE  /\ SameWork /\ op.pc = "scan" /\ op'.pc = "scan" /\ op'.i = op.i + 1
           /\ op.cls \in Classes /\ op.i \in 1..Len(hooks[op.cls])
           /\ op.kept + 1 \in 1..op.i /\ op.kept \in Nat
           /\ \/ /\ hooks[op.cls][op.i].id \in op.match /\ UNCHANGED hooks /\ op'.kept = op.kept
              \/ /\ hooks[op.cls][op.i].id \notin op.match /\ op'.kept = op.kept + 1
                 /\ hooks' = [hooks EXCEPT ![op.cls] = Swap(@, op.kept + 1, op.i)]
<1>1. op \in OpType /\ op.i \in Nat /\ op.kept \in Nat
  BY DEF TypeInv, TypeOK, OpType
<1>2. /\ op.pc = "scan" /\ op.i <= Len(hooks[op.cls]) /\ op.i >= 1 /\ op.kept < op.i
      /\ op.cls \in Classes
  BY <1>1 DEF PartitionStep, TypeInv, LoopInRange, ClassChosen, InReapply
<1>3. Len(hooks[op.cls]) \in Nat
  BY <1>2 DEF TypeInv, TypeOK
<1>4. ASSUME op' = [op EXCEPT !.i = @ + 1]
      PROVE  SameWork /\ op'.pc = op.pc /\ op'.i = op.i + 1 /\ op'.kept = op.kept
  BY <1>1, <1>4 DEF OpType, SameWork, SameCall
<1>5. ASSUME op' = [op EXCEPT !.i = @ + 1, !.kept = @ + 1]
      PROVE  SameWork /\ op'.pc = op.pc /\ op'.i = op.i + 1 /\ op'.kept = op.kept + 1
  BY <1>1, <1>5 DEF OpType, SameWork, SameCall
<1> QED
  BY <1>1, <1>2, <1>3, <1>4, <1>5 DEF PartitionStep

LEMMA PartitionDoneLocals ==
    ASSUME TypeInv, PartitionDone
    PROVE  /\ SameCall /\ op'.cls = op.cls /\ op'.rollback = op.rollback /\ op'.first = op.first
           /\ op.pc = "scan" /\ op.cls \in Classes /\ op.kept \in 0..Len(hooks[op.cls])
           /\ \/ /\ op'.pc = "return" /\ op'.result = "ERR_NOT_HOOKED"
                 /\ op'.aside = op.aside /\ UNCHANGED hooks
              \/ /\ op'.pc = "apply" /\ op.kept < Len(hooks[op.cls])
                 /\ op'.aside = SubSeq(hooks[op.cls], op.kept + 1, Len(hooks[op.cls]))
                 /\ hooks' = [hooks EXCEPT ![op.cls] = SubSeq(@, 1, op.kept)]
<1>1. op \in OpType /\ op.i \in Nat /\ op.kept \in Nat
  BY DEF TypeInv, TypeOK, OpType
<1>2. op.pc = "scan" /\ op.i <= Len(hooks[op.cls]) + 1 /\ op.kept < op.i /\ op.cls \in Classes
  BY <1>1 DEF PartitionDone, TypeInv, LoopInRange, ClassChosen, InReapply
<1>3. Len(hooks[op.cls]) \in Nat
  BY <1>2 DEF TypeInv, TypeOK
<1>4. op.kept \in 0..Len(hooks[op.cls])
  BY <1>1, <1>2, <1>3
<1>5. CASE op' = Returning(op, "ERR_NOT_HOOKED") /\ UNCHANGED hooks
  BY <1>2, <1>4, <1>5, ReturnLocals DEF SameWork
<1>6. CASE /\ op.kept < Len(hooks[op.cls])
           /\ hooks' = [hooks EXCEPT ![op.cls] = SubSeq(@, 1, op.kept)]
           /\ op' = [op EXCEPT !.pc = "apply",
                               !.aside = SubSeq(hooks[op.cls], op.kept + 1, Len(hooks[op.cls]))]
  BY <1>1, <1>2, <1>4, <1>6 DEF OpType, SameCall
<1> QED
  BY <1>5, <1>6 DEF PartitionDone

LEMMA ShutdownLocals ==
    ASSUME TypeInv
    PROVE  /\ ShutdownClass => /\ SameCall /\ op'.rollback = op.rollback /\ op'.first = op.first
                               /\ op.pc = "next" /\ op'.pc = "apply"
                               /\ op'.cls \in Classes /\ op'.cls = g_classes[Len(g_classes)]
                               /\ op'.aside = hooks[op'.cls]
                               /\ hooks' = [hooks EXCEPT ![op'.cls] = <<>>]
           /\ ShutdownClassDone => /\ SameCall /\ op'.rollback = op.rollback /\ op'.cls = op.cls
                                   /\ op.pc = "after" /\ op.call = "Shutdown" /\ op'.pc = "next"
                                   /\ op'.aside = <<>> /\ op.cls \in Classes
                                   /\ op'.first = FirstFailure(op.first, op.result)
<1>1. op \in OpType
  BY DEF TypeInv, TypeOK
<1>2. ASSUME ShutdownClass
      PROVE  /\ SameCall /\ op'.rollback = op.rollback /\ op'.first = op.first
             /\ op'.pc = "apply" /\ op'.cls = g_classes[Len(g_classes)]
             /\ op'.aside = hooks[g_classes[Len(g_classes)]]
  BY <1>1, <1>2 DEF OpType, SameCall, ShutdownClass
<1>3. ASSUME ShutdownClass PROVE g_classes[Len(g_classes)] \in Classes
  BY <1>3 DEF ShutdownClass, TypeInv, TypeOK
<1>4. ASSUME ShutdownClassDone
      PROVE  /\ SameCall /\ op'.rollback = op.rollback /\ op'.cls = op.cls
             /\ op'.pc = "next" /\ op'.aside = <<>>
             /\ op'.first = FirstFailure(op.first, op.result)
  BY <1>1, <1>4 DEF OpType, SameCall, ShutdownClassDone
<1>5. ShutdownClassDone => op.cls \in Classes
  BY DEF ShutdownClassDone, TypeInv, ClassChosen, InReapply
<1> QED
  BY <1>2, <1>3, <1>4, <1>5 DEF ShutdownClass, ShutdownClassDone

\* A thread waits for g_lock or begins a call with fresh locals.
LEMMA CallBegins ==
    ASSUME NEW t \in Threads, Call(t)
    PROVE  \/ UNCHANGED <<session, registry, cache, pages, vm, lock, op, warned>>
           \/ /\ lock = NoThread /\ lock' = t /\ warned' = warned
              /\ \E c \in Classes \union {NoClass} :
                    \/ JNI2Hook_Init(t) /\ Fresh("Init", c) /\ op'.pc = "return"
                    \/ /\ JNI2Hook_Install(t) \/ JNI2Hook_InstallAt(t)
                       /\ Fresh("Install", c) /\ op'.pc \in {"apply", "return"}
                    \/ /\ JNI2Hook_Uninstall(t) \/ JNI2Hook_UninstallAt(t)
                       /\ Fresh("Uninstall", c) /\ op'.pc \in {"scan", "return"}
                    \/ JNI2Hook_Shutdown(t) /\ Fresh("Shutdown", c) /\ op'.pc = "next"
                    \/ JNI2Hook_RedefineClass(t) /\ Fresh("RedefineClass", c) /\ op'.pc = "return"
<1>1. CASE CheckInitialized(t) \/ GiveUp(t)
  BY <1>1 DEF CheckInitialized, GiveUp
<1>2. CASE JNI2Hook_Init(t)
  <2>1. PICK s : op' = Returning(Began("Init", NoClass), s)
    BY <1>2 DEF JNI2Hook_Init
  <2>2. lock = NoThread /\ lock' = t /\ warned' = warned
    BY <1>2 DEF JNI2Hook_Init
  <2> QED
    BY <1>2, <2>1, <2>2, ReturnsAtOnce
<1>3. ASSUME NEW m \in Methods, NEW o, NEW f, NEW k, install(t, m, o, f, k)
      PROVE  /\ lock = NoThread /\ lock' = t /\ warned' = warned
             /\ Fresh("Install", ClassOf[m]) /\ op'.pc \in {"apply", "return"}
             /\ ClassOf[m] \in Classes
  <2>1. ClassOf[m] \in Classes
    BY ConstantsAssumption
  <2>2. \/ \E s : op' = Returning(Began("Install", ClassOf[m]), s)
        \/ op' = [Began("Install", ClassOf[m]) EXCEPT !.pc = "apply"]
    BY <1>3 DEF install, InstallFails, InstallEntry
  <2>3. Fresh("Install", ClassOf[m]) /\ op'.pc \in {"apply", "return"}
    BY <2>2, ReturnsAtOnce, GoesOn
  <2> QED
    BY <1>3, <2>1, <2>3 DEF install, Enter
<1>4. ASSUME NEW m \in Methods, NEW ids, Uninstall(t, m, ids)
      PROVE  /\ lock = NoThread /\ lock' = t /\ warned' = warned
             /\ \E c \in Classes \union {NoClass} :
                   Fresh("Uninstall", c) /\ op'.pc \in {"scan", "return"}
  <2>1. \/ op' = Returning(Began("Uninstall", NoClass), "ERR_NOT_HOOKED")
        \/ \E c \in Classes :
              op' = [Began("Uninstall", c) EXCEPT !.pc = "scan", !.i = 1, !.match = ids]
    BY <1>4 DEF Uninstall
  <2>2. \E c \in Classes \union {NoClass} : Fresh("Uninstall", c) /\ op'.pc \in {"scan", "return"}
    <3>1. CASE op' = Returning(Began("Uninstall", NoClass), "ERR_NOT_HOOKED")
      BY <3>1, ReturnsAtOnce
    <3>2. ASSUME NEW c \in Classes,
                 op' = [Began("Uninstall", c) EXCEPT !.pc = "scan", !.i = 1, !.match = ids]
          PROVE  Fresh("Uninstall", c) /\ op'.pc = "scan"
      BY <3>2, GoesOnScanning
    <3> QED
      BY <2>1, <3>1, <3>2
  <2> QED
    BY <1>4, <2>2 DEF Uninstall, Enter
<1>5. CASE JNI2Hook_Shutdown(t)
  <2>1. op' = [Began("Shutdown", NoClass) EXCEPT !.pc = "next"]
    BY <1>5 DEF JNI2Hook_Shutdown
  <2>2. Fresh("Shutdown", NoClass) /\ op'.pc = "next"
    BY <2>1, GoesOn
  <2>3. lock = NoThread /\ lock' = t /\ warned' = warned
    BY <1>5 DEF JNI2Hook_Shutdown, Enter
  <2> QED
    BY <1>5, <2>2, <2>3
<1>6. CASE JNI2Hook_RedefineClass(t)
  <2>1. PICK c \in Classes, s \in {"OK", "ERR_JVMTI"} : op' = Returning(Began("RedefineClass", c), s)
    BY <1>6 DEF JNI2Hook_RedefineClass
  <2>2. lock = NoThread /\ lock' = t /\ warned' = warned
    BY <1>6 DEF JNI2Hook_RedefineClass, Enter
  <2> QED
    BY <1>6, <2>1, <2>2, ReturnsAtOnce
<1>7. CASE JNI2Hook_Install(t)
  BY <1>3, <1>7 DEF JNI2Hook_Install
<1>8. CASE JNI2Hook_InstallAt(t)
  BY <1>3, <1>8 DEF JNI2Hook_InstallAt
<1>9. CASE JNI2Hook_Uninstall(t)
  BY <1>4, <1>9 DEF JNI2Hook_Uninstall
<1>10. CASE JNI2Hook_UninstallAt(t)
  BY <1>4, <1>10 DEF JNI2Hook_UninstallAt
<1> QED
  BY <1>1, <1>2, <1>5, <1>6, <1>7, <1>8, <1>9, <1>10 DEF Call

\* Only a call that is under way takes steps, and it keeps g_lock to its end.
LEMMA StepHoldsLock ==
    ASSUME Step
    PROVE  op.pc # "idle" /\ (lock' = lock \/ Return) /\ (warned' = warned \/ Return)
  BY DEF Step, ReapplyFails, RedefineRefused, RedefineClasses, RegisterNative, ResumeOthers,
     ResumeRefused, InstallDone,
     InstallUndo, InstallUndone, PartitionStep, PartitionDone, UninstallDone, UninstallUndo,
     ShutdownClass, ShutdownClassDone, ShutdownFinish, Return, locking

LEMMA PhaseInit == Init => PhaseInv
  BY DEF Init, Idle, PhaseInv, CallKnown, Reapplying

LEMMA PhaseNext == TypeInv /\ PhaseInv /\ [Next]_vars => PhaseInv'
<1> SUFFICES ASSUME TypeInv, PhaseInv, [Next]_vars PROVE PhaseInv'
  OBVIOUS
<1>1. CallKnown'
  BY CallNext DEF PhaseInv
<1>2. Idle.pc = "idle" /\ Idle.aside = <<>> /\ Idle.rollback = FALSE
  BY DEF Idle
<1>3. op.pc \notin {"idle", "return"} =>
        /\ op.pc \in Reapplying => op.call \in {"Install", "Uninstall", "Shutdown"}
        /\ op.pc \in {"scan", "next"} => op.aside = <<>> /\ op.rollback # TRUE
        /\ op.pc = "scan" => op.call = "Uninstall"
        /\ op.pc = "next" => op.call = "Shutdown"
  BY DEF PhaseInv, CallKnown
<1>4. ASSUME NEW t \in Threads, Call(t) PROVE PhaseInv'
  <2>1. CASE UNCHANGED <<lock, op>>
    BY <1>1, <2>1 DEF PhaseInv
  <2>2. CASE /\ lock' = t /\ op'.aside = <<>> /\ op'.rollback = FALSE
             /\ op'.pc \in Reapplying => op'.call = "Install"
    BY <1>1, <2>2, ConstantsAssumption DEF PhaseInv
  <2> QED
    BY <1>4, <2>1, <2>2, CallBegins DEF Fresh, Reapplying
<1>5. CASE Step
  <2>1. CASE Return
    BY <1>1, <1>2, <2>1 DEF Return, PhaseInv, Reapplying
  <2>2. ASSUME ~Return PROVE lock' # NoThread
    BY <1>2, <1>5, <2>2, StepHoldsLock DEF PhaseInv
  <2>3. CASE /\ SameWork /\ lock' = lock
             /\ op.pc \in Reapplying
             /\ op'.pc \in Reapplying \union {"return"}
    <3>1. ~Return
      BY <2>3 DEF Return, Reapplying
    <3> QED
      BY <1>1, <1>3, <2>2, <2>3, <3>1 DEF PhaseInv, SameWork, SameCall, Reapplying
  <2>4. CASE ReapplyFails \/ RedefineRefused \/ RedefineClasses \/ ResumeOthers \/ ResumeRefused
    BY <2>3, <2>4, ReapplyLocals DEF Reapplying, ReapplyFails, RedefineRefused, RedefineClasses,
       ResumeOthers, ResumeRefused, locking
  <2>5. CASE RegisterNative
    BY <2>3, <2>5, RegisterLocals DEF Reapplying, RegisterNative, locking
  <2>6. CASE InstallDone \/ InstallUndone \/ UninstallDone \/ UninstallUndo
    BY <2>3, <2>6, ReturnLocals
       DEF Reapplying, InstallDone, InstallUndone, UninstallDone, UninstallUndo, locking
  <2>7. CASE InstallUndo
    <3>1. CASE op' = Returning(op, op.result)
      BY <2>3, <2>7, <3>1, ReturnLocals DEF Reapplying, InstallUndo, locking
    <3>2. CASE op' = [op EXCEPT !.pc = "apply", !.rollback = TRUE, !.first = op.result]
      <4>1. op.call = "Install" /\ op.pc = "after"
        BY <2>7 DEF InstallUndo
      <4>2. op.aside = <<>>
        BY <4>1 DEF PhaseInv
      <4>3. lock' # NoThread
        BY <2>2, <4>1 DEF Return
      <4> QED
        BY <1>1, <3>2, <4>1, <4>2, <4>3, RollbackLocals DEF PhaseInv, SameCall, Reapplying
    <3> QED
      BY <2>7, <3>1, <3>2 DEF InstallUndo
  <2>8. CASE PartitionStep
    <3>1. lock' # NoThread
      BY <2>2, <2>8 DEF Return, PartitionStep
    <3> QED
      BY <1>1, <1>3, <2>8, <3>1, PartitionLocals DEF PhaseInv, SameWork, SameCall, Reapplying
  <2>9. CASE PartitionDone
    <3>1. lock' # NoThread
      BY <2>2, <2>9 DEF Return, PartitionDone
    <3>2. op.call = "Uninstall" /\ op.pc = "scan" /\ op.rollback # TRUE
      BY <1>3, <2>9 DEF PartitionDone
    <3> QED
      BY <1>1, <2>9, <3>1, <3>2, PartitionDoneLocals DEF PhaseInv, SameCall, Reapplying
  <2>10. CASE ShutdownClass
    <3>1. lock' # NoThread
      BY <2>2, <2>10 DEF Return, ShutdownClass
    <3>2. op.call = "Shutdown" /\ op.pc = "next" /\ op.rollback # TRUE
      BY <1>3, <2>10 DEF ShutdownClass
    <3> QED
      BY <1>1, <2>10, <3>1, <3>2, ShutdownLocals DEF PhaseInv, SameCall, Reapplying
  <2>11. CASE ShutdownClassDone
    <3>1. lock' # NoThread
      BY <2>2, <2>11 DEF Return, ShutdownClassDone
    <3>2. op.call = "Shutdown" /\ op.rollback # TRUE
      BY <2>11 DEF PhaseInv, ShutdownClassDone
    <3> QED
      BY <1>1, <2>11, <3>1, <3>2, ShutdownLocals DEF PhaseInv, SameCall, Reapplying
  <2>12. CASE ShutdownFinish
    <3>1. lock' # NoThread
      BY <2>2, <2>12 DEF Return, ShutdownFinish
    <3>2. op.call = "Shutdown" /\ op.rollback # TRUE /\ op.aside = <<>>
      BY <1>3, <2>12 DEF ShutdownFinish
    <3> QED
      BY <1>1, <2>12, <3>1, <3>2, ReturnLocals DEF ShutdownFinish, PhaseInv, SameWork, SameCall, Reapplying
  <2> QED
    BY <1>5, <2>1, <2>4, <2>5, <2>6, <2>7, <2>8, <2>9, <2>10, <2>11, <2>12 DEF Step
<1>6. CASE UNCHANGED vars
  BY <1>1, <1>6 DEF vars, locking, PhaseInv
<1> QED
  BY <1>4, <1>5, <1>6 DEF Next

-----------------------------------------------------------------------------
(* Arrays of entries *)

\* The entries of s are entries of t, each of another place: what holds of any
\* two entries of t holds of any two entries of s.
Embeds(s, t) ==
    \E f \in [1..Len(s) -> 1..Len(t)] :
        /\ \A i, j \in 1..Len(s) : f[i] = f[j] => i = j
        /\ \A i \in 1..Len(s) : s[i] = t[f[i]]

LEMMA EmbedsSelf == \A s : Embeds(s, s)
<1> SUFFICES ASSUME NEW s PROVE Embeds(s, s)
  OBVIOUS
<1> DEFINE f == [i \in 1..Len(s) |-> i]
<1>1. f \in [1..Len(s) -> 1..Len(s)] /\ \A i \in 1..Len(s) : f[i] = i
  OBVIOUS
<1> HIDE DEF f
<1> QED
  BY <1>1 DEF Embeds

\* Cutting an array keeps entries in their places.
LEMMA EmbedsCut ==
    ASSUME NEW t \in Seq(Entry), NEW k \in 0..Len(t)
    PROVE  /\ SubSeq(t, 1, k) \in Seq(Entry) /\ Len(SubSeq(t, 1, k)) = k
           /\ \A i \in 1..k : SubSeq(t, 1, k)[i] = t[i]
           /\ Embeds(SubSeq(t, 1, k), t)
<1>1. Len(t) \in Nat /\ k \in Nat /\ k <= Len(t)
  OBVIOUS
<1>2. SubSeq(t, 1, k) \in Seq(Entry)
  BY <1>1
<1>3. Len(SubSeq(t, 1, k)) = k
  BY <1>1
<1>4. \A i \in 1..k : SubSeq(t, 1, k)[i] = t[i]
  BY <1>1
<1> DEFINE f == [i \in 1..k |-> i]
<1>5. f \in [1..k -> 1..Len(t)] /\ \A i \in 1..k : f[i] = i
  BY <1>1
<1> HIDE DEF f
<1>6. Embeds(SubSeq(t, 1, k), t)
  BY <1>3, <1>4, <1>5 DEF Embeds
<1> QED
  BY <1>2, <1>3, <1>4, <1>6

\* Exchanging two entries permutes the array.
LEMMA SwapAt ==
    ASSUME NEW s \in Seq(Entry), NEW i \in 1..Len(s), NEW j \in 1..Len(s)
    PROVE  /\ Swap(s, i, j) \in Seq(Entry) /\ Len(Swap(s, i, j)) = Len(s)
           /\ Swap(s, i, j)[i] = s[j] /\ Swap(s, i, j)[j] = s[i]
           /\ \A k \in 1..Len(s) : k # i /\ k # j => Swap(s, i, j)[k] = s[k]
<1>1. Swap(s, i, j) \in Seq(Entry) /\ Len(Swap(s, i, j)) = Len(s)
  BY SwapType
<1> QED
  BY <1>1 DEF Swap

LEMMA EmbedsSwap ==
    ASSUME NEW s \in Seq(Entry), NEW i \in 1..Len(s), NEW j \in 1..Len(s)
    PROVE  Embeds(Swap(s, i, j), s) /\ Embeds(s, Swap(s, i, j))
<1> DEFINE f == [k \in 1..Len(s) |-> IF k = i THEN j ELSE IF k = j THEN i ELSE k]
           t == Swap(s, i, j)
<1>1. f \in [1..Len(s) -> 1..Len(s)]
  OBVIOUS
<1>2. \A k \in 1..Len(s) : f[k] = IF k = i THEN j ELSE IF k = j THEN i ELSE k
  OBVIOUS
<1> HIDE DEF f
<1>3. \A k, l \in 1..Len(s) : f[k] = f[l] => k = l
  BY <1>2
<1>4. /\ Len(t) = Len(s) /\ t[i] = s[j] /\ t[j] = s[i]
      /\ \A k \in 1..Len(s) : k # i /\ k # j => t[k] = s[k]
  BY SwapAt
<1> HIDE DEF t
<1>5. \A k \in 1..Len(s) : t[k] = s[f[k]] /\ s[k] = t[f[k]]
  BY <1>2, <1>4
<1>6. f \in [1..Len(t) -> 1..Len(s)] /\ f \in [1..Len(s) -> 1..Len(t)]
  BY <1>1, <1>4
<1>7. Embeds(t, s)
  <2>1. \A k, l \in 1..Len(t) : f[k] = f[l] => k = l
    BY <1>3, <1>4
  <2>2. \A k \in 1..Len(t) : t[k] = s[f[k]]
    BY <1>4, <1>5
  <2> QED
    BY <1>6, <2>1, <2>2 DEF Embeds
<1>8. Embeds(s, t)
  <2>1. \A k \in 1..Len(s) : s[k] = t[f[k]]
    BY <1>5
  <2> QED
    BY <1>3, <1>6, <2>1 DEF Embeds
<1> QED
  BY <1>7, <1>8 DEF t

LEMMA ConcatAt ==
    ASSUME NEW s \in Seq(Entry), NEW t \in Seq(Entry)
    PROVE  /\ s \o t \in Seq(Entry) /\ Len(s \o t) = Len(s) + Len(t)
           /\ Len(s) \in Nat /\ Len(t) \in Nat
           /\ \A i \in 1..Len(s) : (s \o t)[i] = s[i]
           /\ \A i \in 1..Len(t) : (s \o t)[Len(s) + i] = t[i]
           /\ s \o <<>> = s /\ <<>> \o s = s
  OBVIOUS

LEMMA EmbedsConcat ==
    ASSUME NEW s \in Seq(Entry), NEW t \in Seq(Entry)
    PROVE  Embeds(s, s \o t)
<1> DEFINE f == [i \in 1..Len(s) |-> i]
<1>1. f \in [1..Len(s) -> 1..Len(s \o t)] /\ \A i \in 1..Len(s) : f[i] = i
  BY ConcatAt
<1>2. \A i \in 1..Len(s) : s[i] = (s \o t)[i]
  BY ConcatAt
<1> HIDE DEF f
<1>3. /\ \A i, j \in 1..Len(s) : f[i] = f[j] => i = j
      /\ \A i \in 1..Len(s) : s[i] = (s \o t)[f[i]]
  BY <1>1, <1>2
<1> QED
  BY <1>1, <1>3 DEF Embeds

\* Cutting an array in two and putting it together again.
LEMMA CutAndJoin ==
    ASSUME NEW s \in Seq(Entry), NEW k \in 0..Len(s)
    PROVE  /\ SubSeq(s, k + 1, Len(s)) \in Seq(Entry)
           /\ SubSeq(s, 1, k) \o SubSeq(s, k + 1, Len(s)) = s
<1> DEFINE a == SubSeq(s, 1, k)
           b == SubSeq(s, k + 1, Len(s))
<1>1. Len(s) \in Nat /\ k \in Nat /\ k <= Len(s)
  OBVIOUS
<1>2. a \in Seq(Entry) /\ Len(a) = k /\ \A i \in 1..k : a[i] = s[i]
  BY EmbedsCut
<1>3. b \in Seq(Entry) /\ Len(b) = Len(s) - k
  BY <1>1
<1>4. \A i \in 1..(Len(s) - k) : b[i] = s[k + i]
  BY <1>1
<1> HIDE DEF a, b
<1>5. a \o b \in Seq(Entry) /\ Len(a \o b) = Len(s)
  BY <1>1, <1>2, <1>3, ConcatAt
<1>6. \A i \in 1..Len(s) : (a \o b)[i] = s[i]
  <2> SUFFICES ASSUME NEW i \in 1..Len(s) PROVE (a \o b)[i] = s[i]
    OBVIOUS
  <2>1. CASE i <= k
    BY <1>1, <1>2, <1>3, <2>1, ConcatAt
  <2>2. CASE i > k
    <3>1. i - k \in 1..Len(b) /\ k + (i - k) = i
      BY <1>1, <1>3, <2>2
    <3>2. (a \o b)[Len(a) + (i - k)] = b[i - k]
      BY <1>2, <1>3, <3>1, ConcatAt
    <3> QED
      BY <1>1, <1>2, <1>3, <1>4, <3>1, <3>2
  <2>3. i <= k \/ i > k
    BY <1>1
  <2> QED
    BY <2>1, <2>2, <2>3
<1>7. a \o b = s
  BY <1>5, <1>6, SeqEqual
<1> QED
  BY <1>3, <1>7 DEF a, b

\* The ids of the entries of an array.
LEMMA EmbedsIds ==
    ASSUME NEW s, NEW t, Embeds(s, t) PROVE Ids(s) \subseteq Ids(t)
  BY DEF Embeds, Ids

LEMMA ConcatIds ==
    ASSUME NEW s \in Seq(Entry), NEW t \in Seq(Entry)
    PROVE  Ids(s \o t) = Ids(s) \union Ids(t)
<1>1. \A i \in 1..Len(s \o t) : i \in 1..Len(s) \/ i - Len(s) \in 1..Len(t)
  BY ConcatAt
<1>2. \A i \in 1..Len(t) : Len(s) + i \in 1..Len(s \o t)
  BY ConcatAt
<1>3. \A i \in 1..Len(s) : i \in 1..Len(s \o t)
  BY ConcatAt
<1>4. ASSUME NEW i \in 1..Len(s \o t) PROVE (s \o t)[i].id \in Ids(s) \union Ids(t)
  <2>1. CASE i \in 1..Len(s)
    BY <2>1, ConcatAt DEF Ids
  <2>2. CASE i - Len(s) \in 1..Len(t)
    <3>1. Len(s) + (i - Len(s)) = i
      BY ConcatAt
    <3>2. (s \o t)[Len(s) + (i - Len(s))] = t[i - Len(s)]
      BY <2>2, ConcatAt
    <3> QED
      BY <2>2, <3>1, <3>2 DEF Ids
  <2> QED
    BY <1>1, <2>1, <2>2
<1>5. ASSUME NEW i \in 1..Len(s) PROVE s[i].id \in Ids(s \o t)
  BY <1>3, ConcatAt DEF Ids
<1>6. ASSUME NEW i \in 1..Len(t) PROVE t[i].id \in Ids(s \o t)
  <2>1. (s \o t)[Len(s) + i] = t[i] /\ Len(s) + i \in 1..Len(s \o t)
    BY <1>2, ConcatAt
  <2> QED
    BY <2>1 DEF Ids
<1> QED
  BY <1>4, <1>5, <1>6 DEF Ids

\* An array with one more entry.
LEMMA AppendAt ==
    ASSUME NEW s \in Seq(Entry), NEW e \in Entry
    PROVE  /\ Append(s, e) \in Seq(Entry) /\ Len(Append(s, e)) = Len(s) + 1 /\ Len(s) \in Nat
           /\ \A i \in 1..Len(s) : Append(s, e)[i] = s[i]
           /\ Append(s, e)[Len(s) + 1] = e
           /\ SubSeq(Append(s, e), 1, Len(Append(s, e)) - 1) = s
<1>1. /\ Append(s, e) \in Seq(Entry) /\ Len(Append(s, e)) = Len(s) + 1 /\ Len(s) \in Nat
      /\ \A i \in 1..Len(s) : Append(s, e)[i] = s[i]
      /\ Append(s, e)[Len(s) + 1] = e
  OBVIOUS
<1> DEFINE a == Append(s, e)
<1>2. Len(a) - 1 = Len(s) /\ Len(s) \in 0..Len(a) /\ a \in Seq(Entry)
  BY <1>1
<1>3. \A i \in 1..Len(s) : a[i] = s[i]
  BY <1>1
<1> HIDE DEF a
<1>4. SubSeq(a, 1, Len(s)) \in Seq(Entry) /\ Len(SubSeq(a, 1, Len(s))) = Len(s)
      /\ \A i \in 1..Len(s) : SubSeq(a, 1, Len(s))[i] = a[i]
  BY <1>2, EmbedsCut
<1>5. SubSeq(a, 1, Len(s)) = s
  BY <1>3, <1>4
<1> QED
  BY <1>1, <1>2, <1>5 DEF a

-----------------------------------------------------------------------------
(* What each step does to the entries *)

\* Entries, of given hooks and locals.
EntriesIn(h, o, c) == h[c] \o (IF o.cls = c /\ o.pc # "return" THEN o.aside ELSE <<>>)

LEMMA EntriesAre ==
    ASSUME NEW h \in [Classes -> Seq(Entry)], NEW o \in OpType, NEW c \in Classes
    PROVE  /\ h[c] \in Seq(Entry) /\ o.aside \in Seq(Entry) /\ EntriesIn(h, o, c) \in Seq(Entry)
           /\ o.cls # c \/ o.pc = "return" \/ o.aside = <<>> => EntriesIn(h, o, c) = h[c]
           /\ o.cls = c /\ o.pc # "return" => EntriesIn(h, o, c) = h[c] \o o.aside
<1>1. h[c] \in Seq(Entry) /\ o.aside \in Seq(Entry) /\ <<>> \in Seq(Entry)
  BY DEF OpType
<1>2. h[c] \o o.aside \in Seq(Entry) /\ h[c] \o <<>> = h[c]
  BY <1>1, ConcatAt
<1> QED
  BY <1>1, <1>2 DEF EntriesIn

\* The same, for the state before and after a step.
LEMMA EntriesNow ==
    ASSUME TypeInv
    PROVE  /\ hooks \in [Classes -> Seq(Entry)] /\ op \in OpType
           /\ \A c \in Classes :
                 /\ hooks[c] \in Seq(Entry) /\ op.aside \in Seq(Entry) /\ Entries(c) \in Seq(Entry)
                 /\ op.cls # c \/ op.pc = "return" \/ op.aside = <<>> => Entries(c) = hooks[c]
                 /\ op.cls = c /\ op.pc # "return" => Entries(c) = hooks[c] \o op.aside
<1>1. hooks \in [Classes -> Seq(Entry)] /\ op \in OpType
  BY DEF TypeInv, TypeOK
<1>2. \A c : Entries(c) = EntriesIn(hooks, op, c)
  BY DEF Entries, EntriesIn
<1>3. ASSUME NEW c \in Classes
      PROVE  /\ hooks[c] \in Seq(Entry) /\ op.aside \in Seq(Entry)
             /\ EntriesIn(hooks, op, c) \in Seq(Entry)
             /\ op.cls # c \/ op.pc = "return" \/ op.aside = <<>>
                    => EntriesIn(hooks, op, c) = hooks[c]
             /\ op.cls = c /\ op.pc # "return" => EntriesIn(hooks, op, c) = hooks[c] \o op.aside
  BY <1>1, EntriesAre
<1> QED
  BY <1>1, <1>2, <1>3

LEMMA EntriesThen ==
    ASSUME TypeInv'
    PROVE  /\ hooks' \in [Classes -> Seq(Entry)] /\ op' \in OpType
           /\ \A c \in Classes :
                 /\ hooks'[c] \in Seq(Entry) /\ op'.aside \in Seq(Entry) /\ Entries(c)' \in Seq(Entry)
                 /\ op'.cls # c \/ op'.pc = "return" \/ op'.aside = <<>> => Entries(c)' = hooks'[c]
                 /\ op'.cls = c /\ op'.pc # "return" => Entries(c)' = hooks'[c] \o op'.aside
<1>1. hooks' \in [Classes -> Seq(Entry)] /\ op' \in OpType
  BY DEF TypeInv, TypeOK
<1>2. \A c : Entries(c)' = EntriesIn(hooks', op', c)
  BY DEF Entries, EntriesIn
<1>3. ASSUME NEW c \in Classes
      PROVE  /\ hooks'[c] \in Seq(Entry) /\ op'.aside \in Seq(Entry)
             /\ EntriesIn(hooks', op', c) \in Seq(Entry)
             /\ op'.cls # c \/ op'.pc = "return" \/ op'.aside = <<>>
                    => EntriesIn(hooks', op', c) = hooks'[c]
             /\ op'.cls = c /\ op'.pc # "return"
                    => EntriesIn(hooks', op', c) = hooks'[c] \o op'.aside
  BY <1>1, EntriesAre
<1> QED
  BY <1>1, <1>2, <1>3

\* The one step that adds a hook.
Adds(m, o, f, k) ==
    /\ m \in Methods /\ o \in Offsets /\ f \in Fns /\ k \in Kinds
    /\ ~method_conflicts(m, k) /\ InstallEntry(m, o, f, k)

LEMMA CallKeepsHooks ==
    ASSUME NEW t \in Threads, Call(t)
    PROVE  \/ UNCHANGED <<hooks, pages>>
           \/ /\ lock = NoThread
              /\ UNCHANGED <<session, vm, warned>>
              /\ \E m, o, f, k : Adds(m, o, f, k)
<1>1. ASSUME NEW m \in Methods, NEW o \in Offsets, NEW f \in Fns, NEW k \in Kinds,
             install(t, m, o, f, k)
      PROVE  \/ UNCHANGED <<hooks, pages>>
             \/ /\ lock = NoThread
                /\ UNCHANGED <<session, vm, warned>>
                /\ Adds(m, o, f, k)
  BY <1>1 DEF install, Enter, InstallFails, Adds, registry
<1>2. CASE JNI2Hook_Install(t)
  BY <1>1, <1>2, ConstantsAssumption DEF JNI2Hook_Install, Kinds
<1>3. CASE JNI2Hook_InstallAt(t)
  BY <1>1, <1>3 DEF JNI2Hook_InstallAt, Kinds
<1>4. CASE ~JNI2Hook_Install(t) /\ ~JNI2Hook_InstallAt(t)
  BY <1>4 DEF Call, CheckInitialized, GiveUp, JNI2Hook_Init, JNI2Hook_Uninstall,
     JNI2Hook_UninstallAt, Uninstall, JNI2Hook_Shutdown, JNI2Hook_RedefineClass, registry
<1> QED
  BY <1>2, <1>3, <1>4

\* A step that frees no entry keeps them all, in some order.
SameEntries == \A c \in Classes : Embeds(Entries(c)', Entries(c)) /\ Embeds(Entries(c), Entries(c)')

LEMMA EqualEntries ==
    ASSUME \A c \in Classes : Entries(c)' = Entries(c) PROVE SameEntries
  BY EmbedsSelf DEF SameEntries

Frees == InstallUndo \/ UninstallDone \/ ShutdownClassDone

LEMMA StepKeepsEntries ==
    ASSUME TypeInv, PhaseInv, TypeInv', Step, ~Frees
    PROVE  SameEntries /\ UNCHANGED pages
<1>1. UNCHANGED pages
  BY DEF Step, Frees, ReapplyFails, RedefineRefused, RedefineClasses, RegisterNative,
     ResumeOthers, ResumeRefused, InstallDone,
     InstallUndone, PartitionStep, PartitionDone, UninstallUndo, ShutdownClass, ShutdownFinish, Return
<1>2. /\ hooks \in [Classes -> Seq(Entry)] /\ op \in OpType
      /\ \A c \in Classes :
            /\ hooks[c] \in Seq(Entry) /\ op.aside \in Seq(Entry) /\ Entries(c) \in Seq(Entry)
            /\ op.cls # c \/ op.pc = "return" \/ op.aside = <<>> => Entries(c) = hooks[c]
            /\ op.cls = c /\ op.pc # "return" => Entries(c) = hooks[c] \o op.aside
  BY EntriesNow
<1>3. /\ hooks' \in [Classes -> Seq(Entry)] /\ op' \in OpType
      /\ \A c \in Classes :
            /\ hooks'[c] \in Seq(Entry) /\ op'.aside \in Seq(Entry) /\ Entries(c)' \in Seq(Entry)
            /\ op'.cls # c \/ op'.pc = "return" \/ op'.aside = <<>> => Entries(c)' = hooks'[c]
            /\ op'.cls = c /\ op'.pc # "return" => Entries(c)' = hooks'[c] \o op'.aside
  BY EntriesThen
<1>4. ASSUME UNCHANGED hooks, op'.aside = op.aside, op'.cls = op.cls,
             op.pc # "return", op'.pc # "return" \/ op.aside = <<>>
      PROVE  SameEntries
  <2>1. ASSUME NEW c \in Classes PROVE Entries(c)' = Entries(c)
    <3>1. CASE op.cls = c /\ op'.pc # "return"
      BY <1>2, <1>3, <1>4, <3>1
    <3>2. CASE op.cls # c \/ op'.pc = "return"
      BY <1>2, <1>3, <1>4, <3>2
    <3> QED
      BY <3>1, <3>2
  <2> QED
    BY <2>1, EqualEntries
<1>5. CASE ReapplyFails \/ RedefineRefused \/ RedefineClasses \/ ResumeOthers \/ ResumeRefused
  <2>1. UNCHANGED hooks
    BY <1>5 DEF ReapplyFails, RedefineRefused, RedefineClasses, ResumeOthers, ResumeRefused,
       registry
  <2> QED
    BY <1>1, <1>4, <1>5, <2>1, ReapplyLocals DEF SameWork
<1>6. CASE RegisterNative
  <2>1. UNCHANGED hooks
    BY <1>6 DEF RegisterNative, registry
  <2> QED
    BY <1>1, <1>4, <1>6, <2>1, RegisterLocals DEF SameWork
<1>7. CASE InstallDone \/ InstallUndone
  <2>1. UNCHANGED hooks /\ op.call = "Install" /\ op.pc = "after"
    BY <1>7 DEF InstallDone, InstallUndone, registry
  <2>2. op.aside = <<>>
    BY <2>1 DEF PhaseInv
  <2>3. SameWork
    BY <1>7, ReturnLocals DEF InstallDone, InstallUndone
  <2> QED
    BY <1>1, <1>4, <2>1, <2>2, <2>3 DEF SameWork
<1>8. CASE PartitionStep
  <2>1. op.aside = <<>> /\ op.pc = "scan"
    BY <1>8 DEF PhaseInv, PartitionStep
  <2>2. CASE UNCHANGED hooks
    BY <1>1, <1>4, <1>8, <2>1, <2>2, PartitionLocals DEF SameWork
  <2>3. CASE hooks' = [hooks EXCEPT ![op.cls] = Swap(@, op.kept + 1, op.i)]
    <3>1. op'.aside = <<>> /\ op.cls \in Classes /\ op.i \in 1..Len(hooks[op.cls])
          /\ op.kept + 1 \in 1..op.i
      BY <1>8, <2>1, PartitionLocals DEF SameWork
    <3>2. \A c \in Classes : Entries(c) = hooks[c] /\ Entries(c)' = hooks'[c]
      BY <1>2, <1>3, <2>1, <3>1
    <3>3. op.kept + 1 \in 1..Len(hooks[op.cls]) /\ hooks[op.cls] \in Seq(Entry)
      BY <1>2, <3>1
    <3>4. /\ Embeds(hooks'[op.cls], hooks[op.cls]) /\ Embeds(hooks[op.cls], hooks'[op.cls])
          /\ \A c \in Classes : c # op.cls => hooks'[c] = hooks[c]
      BY <1>2, <2>3, <3>1, <3>3, EmbedsSwap
    <3> QED
      BY <1>1, <3>2, <3>4, EmbedsSelf DEF SameEntries
  <2> QED
    BY <1>8, <2>2, <2>3, PartitionLocals
<1>9. CASE PartitionDone
  <2>1. op.aside = <<>> /\ op.pc = "scan"
    BY <1>9 DEF PhaseInv, PartitionDone
  <2>2. CASE UNCHANGED hooks /\ op'.aside = op.aside
    BY <1>1, <1>4, <1>9, <2>1, <2>2, PartitionDoneLocals
  <2>3. CASE /\ op'.pc = "apply" /\ op.kept < Len(hooks[op.cls])
             /\ op'.aside = SubSeq(hooks[op.cls], op.kept + 1, Len(hooks[op.cls]))
             /\ hooks' = [hooks EXCEPT ![op.cls] = SubSeq(@, 1, op.kept)]
    <3>1. op'.cls = op.cls /\ op.cls \in Classes /\ op.kept \in 0..Len(hooks[op.cls])
      BY <1>9, PartitionDoneLocals
    <3>2. \A c \in Classes : Entries(c) = hooks[c] /\ hooks[c] \in Seq(Entry)
      BY <1>2, <2>1
    <3>3. \A c \in Classes : c # op.cls => Entries(c)' = hooks'[c] /\ hooks'[c] = hooks[c]
      BY <1>2, <1>3, <2>3, <3>1
    <3>4. ASSUME NEW c \in Classes, c = op.cls PROVE Entries(c)' = Entries(c)
      <4>1. Entries(c)' = hooks'[c] \o op'.aside
        BY <1>3, <2>3, <3>1, <3>4
      <4>2. /\ hooks'[c] = SubSeq(hooks[c], 1, op.kept)
            /\ op'.aside = SubSeq(hooks[c], op.kept + 1, Len(hooks[c]))
        BY <1>2, <2>3, <3>4
      <4>3. hooks[c] \in Seq(Entry) /\ op.kept \in 0..Len(hooks[c])
        BY <3>1, <3>2, <3>4
      <4> QED
        BY <3>2, <4>1, <4>2, <4>3, CutAndJoin
    <3>5. \A c \in Classes : c = op.cls => Entries(c)' = Entries(c)
      BY <3>4
    <3>6. \A c \in Classes : Entries(c)' = Entries(c)
      BY <3>2, <3>3, <3>5
    <3> QED
      BY <1>1, <3>6, EqualEntries
  <2> QED
    BY <1>9, <2>2, <2>3, PartitionDoneLocals
<1>10. CASE UninstallUndo
  <2>1. op.cls \in Classes /\ op.pc = "after"
    BY <1>10 DEF UninstallUndo, TypeInv, ClassChosen, InReapply
  <2>2. SameWork /\ op'.pc = "return"
    BY <1>10, ReturnLocals DEF UninstallUndo
  <2>3. hooks' = [hooks EXCEPT ![op.cls] = @ \o op.aside]
    BY <1>10 DEF UninstallUndo
  <2>4. \A c \in Classes : c # op.cls => Entries(c) = hooks[c]
    BY <1>2
  <2>5. Entries(op.cls) = hooks[op.cls] \o op.aside
    BY <1>2, <2>1
  <2>6. \A c \in Classes : Entries(c)' = hooks'[c]
    BY <1>3, <2>2
  <2>7. \A c \in Classes : Entries(c)' = Entries(c)
    BY <1>2, <2>1, <2>3, <2>4, <2>5, <2>6
  <2> QED
    BY <1>1, <2>7, EqualEntries
<1>11. CASE ShutdownClass
  <2>1. op.aside = <<>>
    BY <1>11 DEF PhaseInv, ShutdownClass
  <2>2. /\ op'.pc = "apply" /\ op'.cls \in Classes /\ op'.aside = hooks[op'.cls]
        /\ hooks' = [hooks EXCEPT ![op'.cls] = <<>>]
    BY <1>11, ShutdownLocals
  <2>3. \A c \in Classes : Entries(c) = hooks[c] /\ hooks[c] \in Seq(Entry)
    BY <1>2, <2>1
  <2>4. \A c \in Classes : c # op'.cls => Entries(c)' = hooks'[c] /\ hooks'[c] = hooks[c]
    BY <1>2, <1>3, <2>2
  <2>5. ASSUME NEW c \in Classes, c = op'.cls PROVE Entries(c)' = Entries(c)
    <3>1. Entries(c)' = hooks'[c] \o op'.aside
      BY <1>3, <2>2, <2>5
    <3>2. hooks'[c] = <<>> /\ op'.aside = hooks[c]
      BY <1>2, <2>2, <2>5
    <3> QED
      BY <2>3, <3>1, <3>2, ConcatAt
  <2>8. \A c \in Classes : Entries(c)' = Entries(c)
    BY <2>3, <2>4, <2>5
  <2> QED
    BY <1>1, <2>8, EqualEntries
<1>12. CASE ShutdownFinish
  <2>1. op.pc = "next" /\ UNCHANGED hooks
    BY <1>12 DEF ShutdownFinish
  <2>2. op.aside = <<>>
    BY <2>1 DEF PhaseInv
  <2>3. SameWork
    BY <1>12, ReturnLocals DEF ShutdownFinish
  <2> QED
    BY <1>1, <1>4, <2>1, <2>2, <2>3 DEF SameWork
<1>13. CASE Return
  <2>1. op.pc = "return" /\ op' = Idle /\ UNCHANGED hooks
    BY <1>13 DEF Return, registry
  <2>2. op'.aside = <<>>
    BY <2>1 DEF Idle
  <2>3. \A c \in Classes : Entries(c)' = hooks'[c] /\ Entries(c) = hooks[c]
    BY <1>2, <1>3, <2>1, <2>2
  <2>4. \A c \in Classes : Entries(c)' = Entries(c)
    BY <2>1, <2>3
  <2> QED
    BY <1>1, <2>4, EqualEntries
<1> QED
  BY <1>5, <1>6, <1>7, <1>8, <1>9, <1>10, <1>11, <1>12, <1>13 DEF Step, Frees


\* The steps that free entries: the end of one class's array is cut off, and
\* the pages of what was cut are disarmed (free_entry).
FreesTail(k, freed) ==
    /\ k \in Classes /\ freed \in Seq(Entry)
    /\ Entries(k) = Entries(k)' \o freed
    /\ Disarm(Ids(freed))
    /\ \A c \in Classes : c # k => Entries(c)' = Entries(c)

LEMMA LastOf ==
    ASSUME NEW s \in Seq(Entry), Len(s) >= 1
    PROVE  /\ SubSeq(s, Len(s), Len(s)) \in Seq(Entry)
           /\ SubSeq(s, 1, Len(s) - 1) \o SubSeq(s, Len(s), Len(s)) = s
           /\ Ids(SubSeq(s, Len(s), Len(s))) = {s[Len(s)].id}
<1>1. Len(s) \in Nat /\ Len(s) - 1 \in 0..Len(s) /\ (Len(s) - 1) + 1 = Len(s)
  OBVIOUS
<1>2. /\ SubSeq(s, (Len(s) - 1) + 1, Len(s)) \in Seq(Entry)
      /\ SubSeq(s, 1, Len(s) - 1) \o SubSeq(s, (Len(s) - 1) + 1, Len(s)) = s
  BY <1>1, CutAndJoin
<1>3. Len(SubSeq(s, Len(s), Len(s))) = 1 /\ SubSeq(s, Len(s), Len(s))[1] = s[Len(s)]
  BY <1>1
<1>4. /\ SubSeq(s, Len(s), Len(s)) \in Seq(Entry)
      /\ SubSeq(s, 1, Len(s) - 1) \o SubSeq(s, Len(s), Len(s)) = s
  BY <1>1, <1>2
<1> DEFINE b == SubSeq(s, Len(s), Len(s))
           e == s[Len(s)]
<1>5. Len(b) = 1 /\ b[1] = e
  BY <1>3
<1> HIDE DEF b, e
<1>6. Ids(b) = {e.id}
  BY <1>5 DEF Ids
<1> QED
  BY <1>4, <1>6 DEF b, e

LEMMA FreesCutTail ==
    ASSUME TypeInv, PhaseInv, TypeInv', Frees
    PROVE  \E k, freed : FreesTail(k, freed)
<1>2. /\ hooks \in [Classes -> Seq(Entry)] /\ op \in OpType
      /\ \A c \in Classes :
            /\ hooks[c] \in Seq(Entry) /\ op.aside \in Seq(Entry) /\ Entries(c) \in Seq(Entry)
            /\ op.cls # c \/ op.pc = "return" \/ op.aside = <<>> => Entries(c) = hooks[c]
            /\ op.cls = c /\ op.pc # "return" => Entries(c) = hooks[c] \o op.aside
  BY EntriesNow
<1>3. /\ hooks' \in [Classes -> Seq(Entry)] /\ op' \in OpType
      /\ \A c \in Classes :
            /\ hooks'[c] \in Seq(Entry) /\ op'.aside \in Seq(Entry) /\ Entries(c)' \in Seq(Entry)
            /\ op'.cls # c \/ op'.pc = "return" \/ op'.aside = <<>> => Entries(c)' = hooks'[c]
            /\ op'.cls = c /\ op'.pc # "return" => Entries(c)' = hooks'[c] \o op'.aside
  BY EntriesThen
<1>4. op.pc = "after" /\ op.cls \in Classes
  BY DEF Frees, InstallUndo, UninstallDone, ShutdownClassDone, TypeInv, ClassChosen, InReapply
<1>5. PICK k \in Classes : k = op.cls
  BY <1>4
<1>6. CASE UninstallDone \/ ShutdownClassDone
  <2>1. UNCHANGED hooks /\ Disarm(Ids(op.aside))
    BY <1>6 DEF UninstallDone, ShutdownClassDone
  <2>2. op'.pc = "return" \/ op'.aside = <<>>
    <3>1. CASE UninstallDone
      BY <3>1, ReturnLocals DEF UninstallDone
    <3>2. CASE ShutdownClassDone
      BY <3>2, ShutdownLocals
    <3> QED
      BY <1>6, <3>1, <3>2
  <2>3. \A c \in Classes : Entries(c)' = hooks[c]
    BY <1>3, <2>1, <2>2
  <2>4. \A c \in Classes : c # k => Entries(c) = hooks[c]
    BY <1>2, <1>5
  <2>5. Entries(k) = hooks[k] \o op.aside
    BY <1>2, <1>4, <1>5
  <2>6. FreesTail(k, op.aside)
    BY <1>2, <2>1, <2>3, <2>4, <2>5 DEF FreesTail
  <2> QED
    BY <2>6
<1>7. CASE InstallUndo
  <2>1. /\ hooks' = [hooks EXCEPT ![k] = SubSeq(@, 1, Len(hooks[k]) - 1)]
        /\ Disarm({hooks[k][Len(hooks[k])].id})
        /\ Len(hooks[k]) = 1 \/ Len(hooks[k]) > 1
        /\ op.call = "Install"
    BY <1>5, <1>7 DEF InstallUndo
  <2>2. op.aside = <<>>
    BY <2>1 DEF PhaseInv
  <2>3. op'.aside = <<>>
    BY <1>7, <2>2, ReturnLocals, RollbackLocals DEF InstallUndo, SameWork
  <2>4. \A c \in Classes : Entries(c)' = hooks'[c] /\ Entries(c) = hooks[c]
    BY <1>2, <1>3, <2>2, <2>3
  <2>5. hooks'[k] = SubSeq(hooks[k], 1, Len(hooks[k]) - 1)
        /\ \A c \in Classes : c # k => hooks'[c] = hooks[c]
    BY <1>2, <2>1
  <2>6. hooks[k] \in Seq(Entry) /\ Len(hooks[k]) >= 1
    <3>1. hooks[k] \in Seq(Entry)
      BY <1>2
    <3>2. Len(hooks[k]) \in Nat
      BY <3>1
    <3>3. Len(hooks[k]) = 1 \/ Len(hooks[k]) > 1
      BY <2>1
    <3> QED
      BY <3>1, <3>2, <3>3
  <2> DEFINE freed == SubSeq(hooks[k], Len(hooks[k]), Len(hooks[k]))
  <2>7. freed \in Seq(Entry) /\ hooks[k] = hooks'[k] \o freed
        /\ Ids(freed) = {hooks[k][Len(hooks[k])].id}
    BY <2>5, <2>6, LastOf
  <2> HIDE DEF freed
  <2>8. FreesTail(k, freed)
    BY <2>1, <2>4, <2>5, <2>7 DEF FreesTail
  <2> QED
    BY <2>8
<1> QED
  BY <1>6, <1>7 DEF Frees

\* The step that adds a hook: a new entry behind the others of its class, with
\* a page of its own, for a method that no other hook rules out.
AddsTail(k, e) ==
    /\ k \in Classes /\ e \in Entry
    /\ Entries(k)' = Append(Entries(k), e)
    /\ \A c \in Classes : c # k => Entries(c)' = Entries(c)
    /\ \A c \in Classes : Entries(c) = hooks[c] /\ Entries(c)' = hooks'[c]
    /\ e.id = Len(pages) + 1 /\ ~method_conflicts(e.method, e.kind)
    /\ \E s \in {"armed", "direct"} : pages' = Append(pages, [fn |-> e.fn, state |-> s])
    /\ op'.cls = k /\ op'.pc = "apply" /\ Fresh("Install", k)

LEMMA AddsAtTheEnd ==
    ASSUME TypeInv, PhaseInv, TypeInv', lock = NoThread,
           NEW m, NEW o, NEW f, NEW k, Adds(m, o, f, k)
    PROVE  AddsTail(ClassOf[m], NewEntry(m, o, f, k)) /\ cache' = Captured(ClassOf[m])
<1>1. /\ hooks \in [Classes -> Seq(Entry)] /\ op \in OpType
      /\ \A c \in Classes :
            /\ hooks[c] \in Seq(Entry) /\ op.aside \in Seq(Entry) /\ Entries(c) \in Seq(Entry)
            /\ op.cls # c \/ op.pc = "return" \/ op.aside = <<>> => Entries(c) = hooks[c]
            /\ op.cls = c /\ op.pc # "return" => Entries(c) = hooks[c] \o op.aside
  BY EntriesNow
<1>2. /\ hooks' \in [Classes -> Seq(Entry)] /\ op' \in OpType
      /\ \A c \in Classes :
            /\ hooks'[c] \in Seq(Entry) /\ op'.aside \in Seq(Entry) /\ Entries(c)' \in Seq(Entry)
            /\ op'.cls # c \/ op'.pc = "return" \/ op'.aside = <<>> => Entries(c)' = hooks'[c]
            /\ op'.cls = c /\ op'.pc # "return" => Entries(c)' = hooks'[c] \o op'.aside
  BY EntriesThen
<1>3. ClassOf[m] \in Classes
  BY ConstantsAssumption DEF Adds
<1> DEFINE c == ClassOf[m]
           e == NewEntry(m, o, f, k)
<1>4. e \in Entry
  BY NewEntryType DEF Adds, TypeInv
<1>5. e.id = Len(pages) + 1 /\ e.method = m /\ e.kind = k /\ e.fn = f
  BY DEF NewEntry
<1>6. op' = [Began("Install", c) EXCEPT !.pc = "apply"]
  BY DEF Adds, InstallEntry
<1>7. Fresh("Install", c) /\ op'.pc = "apply"
  BY <1>6, GoesOn
<1>8. op.aside = <<>>
  BY DEF PhaseInv, Idle
<1>9. hooks' = [hooks EXCEPT ![c] = Append(@, e)] /\ cache' = Captured(c)
  BY DEF Adds, InstallEntry
<1>10. \E s \in {"armed", "direct"} : pages' = Append(pages, [fn |-> f, state |-> s])
  BY DEF Adds, InstallEntry
<1>11. ~method_conflicts(m, k)
  BY DEF Adds
<1> HIDE DEF c, e
<1>12. \A x \in Classes : Entries(x) = hooks[x] /\ Entries(x)' = hooks'[x]
  BY <1>1, <1>2, <1>7, <1>8 DEF Fresh
<1>13. /\ hooks'[c] = Append(hooks[c], e)
       /\ \A x \in Classes : x # c => hooks'[x] = hooks[x]
  BY <1>1, <1>3, <1>9 DEF c
<1>14. /\ Entries(c)' = Append(Entries(c), e)
       /\ \A x \in Classes : x # c => Entries(x)' = Entries(x)
  BY <1>3, <1>12, <1>13 DEF c
<1>15. AddsTail(c, e)
  BY <1>3, <1>4, <1>5, <1>7, <1>10, <1>11, <1>12, <1>14 DEF AddsTail, Fresh, c
<1> QED
  BY <1>9, <1>15 DEF c, e

-----------------------------------------------------------------------------
(* One detour per method *)

\* The length of the page array never shrinks.
LEMMA DisarmLen ==
    ASSUME TypeOK, NEW ids, Disarm(ids)
    PROVE  Len(pages') = Len(pages)
<1>1. PICK stuck : pages' = [p \in 1..Len(pages) |->
                    IF p \in ids \ stuck /\ pages[p].state = "armed"
                    THEN [pages[p] EXCEPT !.state = "disarmed"] ELSE pages[p]]
  BY DEF Disarm
<1>2. pages \in Seq(Page) /\ Len(pages) \in Nat
  BY DEF TypeOK
<1>3. pages' \in Seq(Page)
  BY DisarmType
<1> QED
  BY <1>1, <1>2, <1>3

LEMMA EmbedsDetours ==
    ASSUME OneDetourPerMethod, \A c \in Classes : Embeds(Entries(c)', Entries(c))
    PROVE  OneDetourPerMethod'
<1> SUFFICES ASSUME NEW c \in Classes, NEW i \in 1..Len(Entries(c)'), NEW j \in 1..Len(Entries(c)'),
                    i # j, Entries(c)'[i].method = Entries(c)'[j].method
             PROVE  Entries(c)'[i].kind = INSERT_CALL /\ Entries(c)'[j].kind = INSERT_CALL
  BY DEF OneDetourPerMethod
<1>1. PICK f \in [1..Len(Entries(c)') -> 1..Len(Entries(c))] :
        /\ \A x, y \in 1..Len(Entries(c)') : f[x] = f[y] => x = y
        /\ \A x \in 1..Len(Entries(c)') : Entries(c)'[x] = Entries(c)[f[x]]
  BY DEF Embeds
<1>2. f[i] # f[j] /\ f[i] \in 1..Len(Entries(c)) /\ f[j] \in 1..Len(Entries(c))
  BY <1>1
<1>3. Entries(c)'[i] = Entries(c)[f[i]] /\ Entries(c)'[j] = Entries(c)[f[j]]
  BY <1>1
<1> QED
  BY <1>2, <1>3 DEF OneDetourPerMethod

LEMMA EmbedsIdsDiffer ==
    ASSUME IdsDiffer, \A c \in Classes : Embeds(Entries(c)', Entries(c))
    PROVE  IdsDiffer'
<1> SUFFICES ASSUME NEW c \in Classes, NEW d \in Classes,
                    NEW i \in 1..Len(Entries(c)'), NEW j \in 1..Len(Entries(d)'),
                    Entries(c)'[i].id = Entries(d)'[j].id
             PROVE  c = d /\ i = j
  BY DEF IdsDiffer
<1>1. PICK f \in [1..Len(Entries(c)') -> 1..Len(Entries(c))] :
        /\ \A x, y \in 1..Len(Entries(c)') : f[x] = f[y] => x = y
        /\ \A x \in 1..Len(Entries(c)') : Entries(c)'[x] = Entries(c)[f[x]]
  BY DEF Embeds
<1>2. PICK g \in [1..Len(Entries(d)') -> 1..Len(Entries(d))] :
        /\ \A x, y \in 1..Len(Entries(d)') : g[x] = g[y] => x = y
        /\ \A x \in 1..Len(Entries(d)') : Entries(d)'[x] = Entries(d)[g[x]]
  BY DEF Embeds
<1>3. c = d /\ f[i] = g[j]
  <2>1. f[i] \in 1..Len(Entries(c)) /\ Entries(c)'[i] = Entries(c)[f[i]]
    BY <1>1
  <2>2. g[j] \in 1..Len(Entries(d)) /\ Entries(d)'[j] = Entries(d)[g[j]]
    BY <1>2
  <2>3. Entries(c)[f[i]].id = Entries(d)[g[j]].id
    BY <2>1, <2>2
  <2> QED
    BY <2>1, <2>2, <2>3 DEF IdsDiffer
<1>4. c = d /\ f[i] = f[j] /\ j \in 1..Len(Entries(c)')
  <2>1. g[j] \in 1..Len(Entries(d)) /\ Entries(d)'[j] = Entries(d)[g[j]]
    BY <1>2
  <2>2. j \in 1..Len(Entries(c)')
    BY <1>3
  <2>3. f[j] \in 1..Len(Entries(c)) /\ Entries(c)'[j] = Entries(c)[f[j]]
    BY <1>1, <2>2
  <2>4. Entries(d)[g[j]].id = Entries(c)[f[j]].id
    BY <1>3, <2>1, <2>3
  <2> QED
    BY <1>3, <2>1, <2>2, <2>3, <2>4 DEF IdsDiffer
<1> QED
  BY <1>1, <1>4

LEMMA EmbedsHavePages ==
    ASSUME IdsHavePages, \A c \in Classes : Embeds(Entries(c)', Entries(c)),
           Len(pages') = Len(pages)
    PROVE  IdsHavePages'
<1> SUFFICES ASSUME NEW c \in Classes, NEW i \in 1..Len(Entries(c)')
             PROVE  Entries(c)'[i].id <= Len(pages')
  BY DEF IdsHavePages
<1>1. PICK f \in [1..Len(Entries(c)') -> 1..Len(Entries(c))] :
        \A x \in 1..Len(Entries(c)') : Entries(c)'[x] = Entries(c)[f[x]]
  BY DEF Embeds
<1>2. Entries(c)'[i] = Entries(c)[f[i]] /\ f[i] \in 1..Len(Entries(c))
  BY <1>1
<1> QED
  BY <1>2 DEF IdsHavePages

\* A new hook of a method that method_conflicts lets pass, with a new page.
LEMMA AddedEntries ==
    ASSUME TypeInv, NEW k, NEW e, AddsTail(k, e)
    PROVE  \A c \in Classes :
              /\ Entries(c) \in Seq(Entry) /\ Len(Entries(c)) \in Nat
              /\ \A i \in 1..Len(Entries(c)') :
                    \/ i \in 1..Len(Entries(c)) /\ Entries(c)'[i] = Entries(c)[i]
                    \/ c = k /\ i = Len(Entries(c)) + 1 /\ Entries(c)'[i] = e
<1> SUFFICES ASSUME NEW c \in Classes, NEW i \in 1..Len(Entries(c)')
             PROVE  /\ Entries(c) \in Seq(Entry) /\ Len(Entries(c)) \in Nat
                    /\ \/ i \in 1..Len(Entries(c)) /\ Entries(c)'[i] = Entries(c)[i]
                       \/ c = k /\ i = Len(Entries(c)) + 1 /\ Entries(c)'[i] = e
  <2>1. \A c \in Classes : Entries(c) \in Seq(Entry) /\ Len(Entries(c)) \in Nat
    BY EntriesNow
  <2> QED
    BY <2>1
<1>1. Entries(c) \in Seq(Entry) /\ Len(Entries(c)) \in Nat /\ e \in Entry
  BY EntriesNow DEF AddsTail
<1>2. CASE c # k
  BY <1>1, <1>2 DEF AddsTail
<1>3. CASE c = k
  <2>1. Entries(c)' = Append(Entries(c), e)
    BY <1>3 DEF AddsTail
  <2>2. Len(Entries(c)') = Len(Entries(c)) + 1
    BY <1>1, <2>1, AppendAt
  <2>3. i \in 1..Len(Entries(c)) \/ i = Len(Entries(c)) + 1
    BY <1>1, <2>2
  <2>4. CASE i \in 1..Len(Entries(c))
    BY <1>1, <2>1, <2>4, AppendAt
  <2>5. CASE i = Len(Entries(c)) + 1
    BY <1>1, <1>3, <2>1, <2>5, AppendAt
  <2> QED
    BY <2>3, <2>4, <2>5
<1> QED
  BY <1>2, <1>3

LEMMA AddedInv ==
    ASSUME TypeInv, OneDetourPerMethod, IdsDiffer, IdsHavePages, NEW k, NEW e, AddsTail(k, e)
    PROVE  OneDetourPerMethod' /\ IdsDiffer' /\ IdsHavePages'
<1>1. \A c \in Classes :
              /\ Entries(c) \in Seq(Entry) /\ Len(Entries(c)) \in Nat
              /\ \A i \in 1..Len(Entries(c)') :
                    \/ i \in 1..Len(Entries(c)) /\ Entries(c)'[i] = Entries(c)[i]
                    \/ c = k /\ i = Len(Entries(c)) + 1 /\ Entries(c)'[i] = e
  BY AddedEntries
<1>2. Len(pages') = Len(pages) + 1 /\ Len(pages) \in Nat /\ e.id = Len(pages) + 1
  BY DEF AddsTail, TypeInv, TypeOK
<1>3. \A c \in Classes : \A i \in 1..Len(Entries(c)) :
        Entries(c)[i].id # e.id /\ Entries(c)[i].id \in Nat
  <2>1. \A c \in Classes : \A i \in 1..Len(Entries(c)) : Entries(c)[i].id \in Nat
    <3>1. \A c \in Classes : \A i \in 1..Len(Entries(c)) : Entries(c)[i] \in Entry
      BY <1>1
    <3> QED
      BY <3>1 DEF Entry
  <2>2. \A c \in Classes : \A i \in 1..Len(Entries(c)) : Entries(c)[i].id <= Len(pages)
    BY DEF IdsHavePages
  <2> QED
    BY <1>2, <2>1, <2>2
<1>4. \A i \in 1..Len(Entries(k)) : Entries(k)[i].method = e.method =>
         Entries(k)[i].kind = INSERT_CALL /\ e.kind = INSERT_CALL
  <2> SUFFICES ASSUME NEW i \in 1..Len(Entries(k)), Entries(k)[i].method = e.method
               PROVE  Entries(k)[i].kind = INSERT_CALL /\ e.kind = INSERT_CALL
    OBVIOUS
  <2>1. k \in Classes /\ Entries(k) = hooks[k] /\ e \in Entry /\ Entries(k)[i] \in Entry
    BY <1>1 DEF AddsTail
  <2>2. e.kind # MAKE_NATIVE /\ Entries(k)[i].kind # MAKE_NATIVE
    BY <2>1 DEF AddsTail, method_conflicts
  <2> QED
    BY <2>1, <2>2 DEF Entry, Kinds
<1>5. OneDetourPerMethod'
  <2> SUFFICES ASSUME NEW c \in Classes, NEW i \in 1..Len(Entries(c)'),
                      NEW j \in 1..Len(Entries(c)'),
                      i # j, Entries(c)'[i].method = Entries(c)'[j].method
               PROVE  Entries(c)'[i].kind = INSERT_CALL /\ Entries(c)'[j].kind = INSERT_CALL
    BY DEF OneDetourPerMethod
  <2>1. CASE /\ i \in 1..Len(Entries(c)) /\ Entries(c)'[i] = Entries(c)[i]
             /\ j \in 1..Len(Entries(c)) /\ Entries(c)'[j] = Entries(c)[j]
    BY <2>1 DEF OneDetourPerMethod
  <2>2. CASE /\ i \in 1..Len(Entries(c)) /\ Entries(c)'[i] = Entries(c)[i]
             /\ c = k /\ Entries(c)'[j] = e
    BY <1>4, <2>2
  <2>3. CASE /\ j \in 1..Len(Entries(c)) /\ Entries(c)'[j] = Entries(c)[j]
             /\ c = k /\ Entries(c)'[i] = e
    BY <1>4, <2>3
  <2> QED
    BY <1>1, <2>1, <2>2, <2>3
<1>6. IdsDiffer'
  <2> SUFFICES ASSUME NEW c \in Classes, NEW d \in Classes,
                      NEW i \in 1..Len(Entries(c)'), NEW j \in 1..Len(Entries(d)'),
                      Entries(c)'[i].id = Entries(d)'[j].id
               PROVE  c = d /\ i = j
    BY DEF IdsDiffer
  <2>1. CASE /\ i \in 1..Len(Entries(c)) /\ Entries(c)'[i] = Entries(c)[i]
             /\ j \in 1..Len(Entries(d)) /\ Entries(d)'[j] = Entries(d)[j]
    BY <2>1 DEF IdsDiffer
  <2>2. CASE /\ i \in 1..Len(Entries(c)) /\ Entries(c)'[i] = Entries(c)[i]
             /\ Entries(d)'[j] = e
    BY <1>3, <2>2
  <2>3. CASE /\ j \in 1..Len(Entries(d)) /\ Entries(d)'[j] = Entries(d)[j]
             /\ Entries(c)'[i] = e
    BY <1>3, <2>3
  <2>4. CASE c = k /\ d = k /\ i = Len(Entries(c)) + 1 /\ j = Len(Entries(d)) + 1
    BY <2>4
  <2> QED
    BY <1>1, <2>1, <2>2, <2>3, <2>4
<1>7. IdsHavePages'
  <2> SUFFICES ASSUME NEW c \in Classes, NEW i \in 1..Len(Entries(c)')
               PROVE  Entries(c)'[i].id <= Len(pages')
    BY DEF IdsHavePages
  <2>1. CASE i \in 1..Len(Entries(c)) /\ Entries(c)'[i] = Entries(c)[i]
    <3>1. Entries(c)[i].id <= Len(pages) /\ Entries(c)[i].id \in Nat
      BY <1>3, <2>1 DEF IdsHavePages
    <3> QED
      BY <1>2, <2>1, <3>1
  <2>2. CASE Entries(c)'[i] = e
    BY <1>2, <2>2
  <2> QED
    BY <1>1, <2>1, <2>2
<1> QED
  BY <1>5, <1>6, <1>7

\* What a step does to the entries, in one of three ways.
LEMMA NextEntries ==
    ASSUME TypeInv, PhaseInv, TypeInv', [Next]_vars
    PROVE  \/ SameEntries /\ UNCHANGED pages
           \/ \E k, freed : FreesTail(k, freed)
           \/ \E k, e : AddsTail(k, e)
<1>1. ASSUME UNCHANGED hooks, UNCHANGED op PROVE SameEntries
  BY <1>1, EqualEntries DEF Entries
<1>2. ASSUME NEW t \in Threads, Call(t)
      PROVE  \/ SameEntries /\ UNCHANGED pages
             \/ \E k, e : AddsTail(k, e)
  <2>1. CASE UNCHANGED <<session, registry, cache, pages, vm, lock, op, warned>>
    BY <1>1, <2>1 DEF registry
  <2>2. CASE lock = NoThread /\ UNCHANGED <<hooks, pages>>
    <3>1. op.aside = <<>>
      BY <2>2 DEF PhaseInv, Idle
    <3>2. op'.aside = <<>> \/ op' = op
      BY <1>2, CallBegins DEF Fresh
    <3>3. CASE op'.aside = <<>>
      <4>1. \A c \in Classes : Entries(c) = hooks[c] /\ Entries(c)' = hooks'[c]
        BY <3>1, <3>3, EntriesNow, EntriesThen
      <4>2. \A c \in Classes : Entries(c)' = Entries(c)
        BY <2>2, <4>1
      <4> QED
        BY <2>2, <4>2, EqualEntries
    <3> QED
      BY <1>1, <2>2, <3>2, <3>3
  <2>3. CASE lock = NoThread /\ \E m, o, f, k : Adds(m, o, f, k)
    BY <2>3, AddsAtTheEnd
  <2> QED
    BY <1>2, <2>1, <2>2, <2>3, CallKeepsHooks, CallBegins
<1>3. CASE Step
  BY <1>3, StepKeepsEntries, FreesCutTail
<1>4. CASE UNCHANGED vars
  BY <1>1, <1>4 DEF vars, registry
<1> QED
  BY <1>2, <1>3, <1>4 DEF Next

LEMMA FreedEmbeds ==
    ASSUME TypeInv, TypeInv', NEW k, NEW freed, FreesTail(k, freed)
    PROVE  /\ \A c \in Classes : Embeds(Entries(c)', Entries(c))
           /\ Len(pages') = Len(pages)
<1>1. k \in Classes /\ Entries(k)' \in Seq(Entry) /\ freed \in Seq(Entry)
  BY EntriesThen DEF FreesTail
<1>2. Embeds(Entries(k)', Entries(k)' \o freed)
  BY <1>1, EmbedsConcat
<1>3. Len(pages') = Len(pages)
  BY DisarmLen DEF FreesTail, TypeInv
<1> QED
  BY <1>2, <1>3, EmbedsSelf DEF FreesTail

LEMMA EntriesInit == Init => EntriesInv
<1> SUFFICES ASSUME Init PROVE EntriesInv
  OBVIOUS
<1>1. BytesInv /\ PhaseInv
  BY BytesInit, PhaseInit
<1>2. \A c \in Classes : Entries(c) = <<>>
  <2>1. \A c \in Classes : hooks[c] = <<>>
    BY DEF Init
  <2>2. op.aside = <<>>
    BY DEF Init, Idle
  <2> QED
    BY <1>1, <2>1, <2>2, EntriesNow DEF BytesInv
<1>3. \A c \in Classes : 1..Len(Entries(c)) = {}
  BY <1>2
<1> QED
  BY <1>1, <1>3 DEF EntriesInv, OneDetourPerMethod, IdsDiffer, IdsHavePages

LEMMA EntriesNext == EntriesInv /\ [Next]_vars => EntriesInv'
<1> SUFFICES ASSUME EntriesInv, [Next]_vars PROVE EntriesInv'
  OBVIOUS
<1>1. TypeInv /\ PhaseInv /\ CallKnown /\ BytesInv
  BY DEF EntriesInv, PhaseInv, BytesInv
<1>2. TypeInv' /\ PhaseInv' /\ BytesInv'
  BY <1>1, TypeNext, PhaseNext, BytesNext
<1>3. CASE SameEntries /\ UNCHANGED pages
  BY <1>1, <1>2, <1>3, EmbedsDetours, EmbedsIdsDiffer, EmbedsHavePages DEF SameEntries, EntriesInv
<1>4. CASE \E k, freed : FreesTail(k, freed)
  <2>1. (\A c \in Classes : Embeds(Entries(c)', Entries(c))) /\ Len(pages') = Len(pages)
    BY <1>1, <1>2, <1>4, FreedEmbeds
  <2> QED
    BY <1>2, <2>1, EmbedsDetours, EmbedsIdsDiffer, EmbedsHavePages DEF EntriesInv
<1>5. CASE \E k, e : AddsTail(k, e)
  BY <1>1, <1>2, <1>5, AddedInv DEF EntriesInv
<1> QED
  BY <1>1, <1>2, <1>3, <1>4, <1>5, NextEntries

\* Whatever fails, and however often an uninstall puts its entries back, a
\* method with a detour has no other hook: reapply never writes a call into a
\* method that the same rebuild made native (method_conflicts).
THEOREM DetoursExclude == Spec => []OneDetourPerMethod
<1>1. EntriesInv => OneDetourPerMethod
  BY DEF EntriesInv
<1> QED
  BY <1>1, EntriesInit, EntriesNext, PTL DEF Spec

-----------------------------------------------------------------------------
(* A failed call keeps the hooks it found *)

LEMMA SameIds == ASSUME SameEntries PROVE EntryIds' = EntryIds
<1>1. \A c \in Classes : Ids(Entries(c)') = Ids(Entries(c))
  BY EmbedsIds DEF SameEntries
<1>2. \A c \in Classes : Ids(Entries(c))' = Ids(Entries(c)')
  BY DEF Ids
<1> QED
  BY <1>1, <1>2 DEF EntryIds

\* With nothing aside, what is tracked is all there is.
LEMMA NothingAside ==
    ASSUME TypeInv, op.aside = <<>> \/ op.pc = "return"
    PROVE  EntryIds = TrackedIds
<1>1. \A c \in Classes : Entries(c) = hooks[c]
  BY EntriesNow
<1> QED
  BY <1>1 DEF EntryIds, TrackedIds

LEMMA NothingAsideThen ==
    ASSUME TypeInv', op'.aside = <<>> \/ op'.pc = "return"
    PROVE  EntryIds' = TrackedIds'
<1>1. \A c \in Classes : Entries(c)' = hooks'[c]
  BY EntriesThen
<1>2. \A c \in Classes : Ids(Entries(c))' = Ids(hooks[c])'
  BY <1>1 DEF Ids
<1> QED
  BY <1>2 DEF EntryIds, TrackedIds

GoBackInv == EntriesInv /\ CanGoBack /\ FailedCallKeepsHooks

LEMMA GoBackInit == Init => GoBackInv
<1> SUFFICES ASSUME Init PROVE GoBackInv
  OBVIOUS
<1>1. op.pc = "idle"
  BY DEF Init, Idle
<1> QED
  BY <1>1, EntriesInit DEF GoBackInv, CanGoBack, FailedCallKeepsHooks, InReapply

\* The hook that an install added is the last of its class.
LEMMA AddedIsNewest ==
    ASSUME TypeInv, TypeInv', NEW k, NEW e, AddsTail(k, e)
    PROVE  OlderIds' = TrackedIds /\ hooks'[op'.cls] # <<>>
<1>1. k \in Classes /\ e \in Entry /\ op'.cls = k /\ hooks[k] \in Seq(Entry)
  BY EntriesNow DEF AddsTail
<1>2. hooks'[k] = Append(hooks[k], e)
  BY <1>1 DEF AddsTail
<1>3. \A c \in Classes : c # k => hooks'[c] = hooks[c]
  BY DEF AddsTail
<1>4. SubSeq(hooks'[k], 1, Len(hooks'[k]) - 1) = hooks[k] /\ hooks'[k] # <<>>
  BY <1>1, <1>2, AppendAt
<1>5. \A c \in Classes : Older(c)' = hooks[c]
  BY <1>1, <1>3, <1>4 DEF Older
<1>6. \A c \in Classes : Ids(Older(c))' = Ids(hooks[c])
  BY <1>5 DEF Ids
<1> QED
  BY <1>1, <1>4, <1>6 DEF OlderIds, TrackedIds

LEMMA CallGoesBack ==
    ASSUME GoBackInv, TypeInv', NEW t \in Threads, Call(t)
    PROVE  CanGoBack' /\ FailedCallKeepsHooks'
<1>1. TypeInv /\ PhaseInv
  BY DEF GoBackInv, EntriesInv, BytesInv
<1>2. CASE UNCHANGED <<session, registry, cache, pages, vm, lock, op, warned>>
  <2>1. op' = op /\ hooks' = hooks
    BY <1>2 DEF registry
  <2>2. EntryIds' = EntryIds /\ OlderIds' = OlderIds /\ TrackedIds' = TrackedIds
    BY <2>1 DEF EntryIds, OlderIds, Older, TrackedIds, Entries, Ids
  <2> QED
    BY <2>1, <2>2 DEF GoBackInv, CanGoBack, FailedCallKeepsHooks
<1>3. ASSUME lock = NoThread, NEW call, NEW c, Fresh(call, c), UNCHANGED hooks,
             op'.pc \in {"scan", "next", "return"}, op'.pc = "scan" => call = "Uninstall"
      PROVE  CanGoBack' /\ FailedCallKeepsHooks'
  <2>1. TrackedIds' = TrackedIds /\ op'.ids = TrackedIds /\ op'.aside = <<>> /\ op'.call = call
    BY <1>3 DEF TrackedIds, Ids, Fresh
  <2>2. EntryIds' = TrackedIds'
    BY <2>1, NothingAsideThen
  <2> QED
    BY <1>3, <2>1, <2>2 DEF CanGoBack, FailedCallKeepsHooks, InReapply
<1>4. ASSUME NEW k, NEW e, AddsTail(k, e)
      PROVE  CanGoBack' /\ FailedCallKeepsHooks'
  <2>1. op'.pc = "apply" /\ op'.call = "Install" /\ op'.rollback = FALSE /\ op'.ids = TrackedIds
    BY <1>4 DEF AddsTail, Fresh
  <2>2. OlderIds' = TrackedIds /\ hooks'[op'.cls] # <<>>
    BY <1>1, <1>4, AddedIsNewest
  <2> QED
    BY <2>1, <2>2 DEF CanGoBack, FailedCallKeepsHooks
<1>5. CASE lock = NoThread /\ \E m, o, f, k : Adds(m, o, f, k)
  BY <1>1, <1>4, <1>5, AddsAtTheEnd
<1>6. CASE lock = NoThread /\ lock' = t /\ ~\E m, o, f, k : Adds(m, o, f, k)
  <2>1. UNCHANGED <<hooks, pages>>
    BY <1>6, CallKeepsHooks
  <2>2. ASSUME NEW c, Fresh("Install", c), op'.pc = "apply" PROVE FALSE
    <3>1. JNI2Hook_Install(t) \/ JNI2Hook_InstallAt(t)
      BY <1>6, <2>2, CallBegins, ConstantsAssumption DEF Fresh
    <3>2. PICK m \in Methods, o \in Offsets, f \in Fns, k \in Kinds : install(t, m, o, f, k)
      BY <3>1, ConstantsAssumption DEF JNI2Hook_Install, JNI2Hook_InstallAt, Kinds
    <3>3. ~InstallFails(m, k) /\ ~method_conflicts(m, k)
      BY <2>2, <3>2, ReturnsAtOnce DEF install, InstallFails
    <3> QED
      BY <1>6, <3>2, <3>3 DEF install, Adds
  <2> QED
    BY <1>2, <1>3, <2>1, <2>2, CallBegins
<1> QED
  BY <1>2, <1>5, <1>6, CallBegins

LEMMA StepGoesBack ==
    ASSUME GoBackInv, TypeInv', Step
    PROVE  CanGoBack' /\ FailedCallKeepsHooks'
<1>1. TypeInv /\ PhaseInv
  BY DEF GoBackInv, EntriesInv, BytesInv
<1>2. ASSUME op'.pc \notin InReapply, op'.pc = "return" /\ op'.call \in {"Install", "Uninstall"}
                                         /\ op'.result # "OK" => EntryIds' = op'.ids
      PROVE  CanGoBack' /\ FailedCallKeepsHooks'
  BY <1>2, NothingAsideThen DEF CanGoBack, FailedCallKeepsHooks
<1>3. ASSUME op.pc \in InReapply, op'.pc \in InReapply, SameWork, UNCHANGED hooks, EntryIds' = EntryIds
      PROVE  CanGoBack' /\ FailedCallKeepsHooks'
  <2>1. OlderIds' = OlderIds
    BY <1>3 DEF SameWork, OlderIds, Older, Ids
  <2>2. FailedCallKeepsHooks'
    BY <1>3 DEF FailedCallKeepsHooks, InReapply
  <2>3. CanGoBack'
    BY <1>3, <2>1 DEF CanGoBack, GoBackInv, SameWork, SameCall
  <2> QED
    BY <2>2, <2>3
<1>4. ASSUME ~Frees PROVE EntryIds' = EntryIds
  BY <1>1, <1>4, StepKeepsEntries, SameIds
<1>5. CASE ReapplyFails \/ RedefineRefused \/ RedefineClasses \/ ResumeOthers \/ ResumeRefused
  <2>1. UNCHANGED hooks
    BY <1>5 DEF ReapplyFails, RedefineRefused, RedefineClasses, ResumeOthers, ResumeRefused,
       registry
  <2>2. SameWork /\ op.pc \in InReapply /\ op'.pc \in InReapply
    BY <1>1, <1>5, ReapplyLocals DEF InReapply
  <2>3. ~Frees
    BY <1>5 DEF Frees, InstallUndo, UninstallDone, ShutdownClassDone, ReapplyFails,
       RedefineRefused, RedefineClasses,
       ResumeOthers, ResumeRefused
  <2> QED
    BY <1>3, <1>4, <2>1, <2>2, <2>3
<1>6. CASE RegisterNative
  <2>1. UNCHANGED hooks
    BY <1>6 DEF RegisterNative, registry
  <2>2. SameWork /\ op.pc = "bind" /\ op'.pc = "bind"
    BY <1>1, <1>6, RegisterLocals
  <2>3. ~Frees
    BY <2>2 DEF Frees, InstallUndo, UninstallDone, ShutdownClassDone
  <2> QED
    BY <1>3, <1>4, <2>1, <2>2, <2>3 DEF InReapply
<1>7. CASE InstallDone \/ UninstallDone
  <2>1. op'.pc = "return" /\ op'.result = "OK"
    BY <1>1, <1>7, ReturnLocals DEF InstallDone, UninstallDone
  <2> QED
    BY <1>2, <2>1 DEF InReapply
<1>8. CASE InstallUndone
  <2>1. op.pc = "after" /\ op.call = "Install" /\ op.rollback = TRUE
    BY <1>1, <1>8 DEF InstallUndone, TypeInv, TypeOK, OpType
  <2>2. EntryIds = op.ids
    BY <2>1 DEF GoBackInv, CanGoBack, InReapply
  <2>3. SameWork /\ op'.pc = "return"
    BY <1>1, <1>8, ReturnLocals DEF InstallUndone
  <2>4. ~Frees
    BY <1>8 DEF Frees, InstallUndo, UninstallDone, ShutdownClassDone, InstallUndone
  <2> QED
    BY <1>2, <1>4, <2>2, <2>3, <2>4 DEF SameWork, SameCall, InReapply
<1>9. CASE InstallUndo
  <2>1. /\ op.pc = "after" /\ op.call = "Install" /\ op.rollback = FALSE
        /\ hooks' = [hooks EXCEPT ![op.cls] = SubSeq(@, 1, Len(hooks[op.cls]) - 1)]
    BY <1>1, <1>9 DEF InstallUndo, TypeInv, TypeOK, OpType
  <2>2. OlderIds = op.ids
    BY <2>1 DEF GoBackInv, CanGoBack, InReapply
  <2>3. op.aside = <<>>
    BY <1>1, <2>1 DEF PhaseInv
  <2>4. hooks \in [Classes -> Seq(Entry)]
    BY <1>1, EntriesNow
  <2>5. TrackedIds' = OlderIds
    <3>1. \A c \in Classes : hooks'[c] = Older(c)
      BY <2>1, <2>4 DEF Older
    <3> QED
      BY <3>1 DEF TrackedIds, OlderIds, Ids
  <2>6. CASE op' = Returning(op, op.result)
    <3>1. SameWork /\ op'.pc = "return"
      BY <1>1, <2>6, ReturnLocals
    <3> QED
      BY <1>2, <2>2, <2>5, <3>1, NothingAsideThen DEF SameWork, SameCall, InReapply
  <2>7. CASE op' = [op EXCEPT !.pc = "apply", !.rollback = TRUE, !.first = op.result]
    <3>1. /\ op'.pc = "apply" /\ op'.rollback = TRUE /\ op'.aside = <<>>
          /\ op'.call = "Install" /\ op'.ids = op.ids
      BY <1>1, <2>1, <2>3, <2>7, RollbackLocals DEF SameCall
    <3>2. EntryIds' = op'.ids
      BY <2>2, <2>5, <3>1, NothingAsideThen
    <3> QED
      BY <3>1, <3>2 DEF CanGoBack, FailedCallKeepsHooks
  <2> QED
    BY <1>9, <2>6, <2>7 DEF InstallUndo
<1>10. CASE PartitionStep \/ PartitionDone
  <2>1. op.pc = "scan" /\ op.call = "Uninstall"
    BY <1>1, <1>10 DEF PartitionStep, PartitionDone, PhaseInv, CallKnown
  <2>2. EntryIds = op.ids
    BY <2>1 DEF GoBackInv, CanGoBack, InReapply
  <2>3. ~Frees
    BY <2>1 DEF Frees, InstallUndo, UninstallDone, ShutdownClassDone
  <2>4. op'.ids = op.ids /\ op'.call = "Uninstall"
    BY <1>1, <1>10, <2>1, PartitionLocals, PartitionDoneLocals DEF SameWork, SameCall
  <2>5. EntryIds' = op'.ids
    BY <1>4, <2>2, <2>3, <2>4
  <2>6. CanGoBack'
    BY <2>4, <2>5 DEF CanGoBack
  <2>7. FailedCallKeepsHooks'
    BY <2>5, NothingAsideThen DEF FailedCallKeepsHooks
  <2> QED
    BY <2>6, <2>7
<1>11. CASE UninstallUndo
  <2>1. op.pc = "after" /\ op.call = "Uninstall" /\ op' = Returning(op, op.result)
    BY <1>11 DEF UninstallUndo
  <2>2. EntryIds = op.ids
    BY <2>1 DEF GoBackInv, CanGoBack, InReapply
  <2>3. SameWork /\ op'.pc = "return"
    BY <1>1, <2>1, ReturnLocals
  <2>4. ~Frees
    BY <1>11 DEF Frees, InstallUndo, UninstallDone, ShutdownClassDone, UninstallUndo
  <2> QED
    BY <1>2, <1>4, <2>2, <2>3, <2>4 DEF SameWork, SameCall, InReapply
<1>12. CASE ShutdownClass \/ ShutdownClassDone \/ ShutdownFinish
  <2>1. op'.call = "Shutdown"
    <3>1. op.call = "Shutdown"
      BY <1>1, <1>12 DEF ShutdownClass, ShutdownClassDone, ShutdownFinish, PhaseInv, CallKnown
    <3> QED
      BY <1>1, <1>12, <3>1, ShutdownLocals, ReturnLocals DEF ShutdownFinish, SameWork, SameCall
  <2> QED
    BY <2>1 DEF CanGoBack, FailedCallKeepsHooks
<1>13. CASE Return
  <2>1. op'.pc = "idle"
    BY <1>13 DEF Return, Idle
  <2> QED
    BY <1>2, <2>1 DEF InReapply
<1> QED
  BY <1>5, <1>6, <1>7, <1>8, <1>9, <1>10, <1>11, <1>12, <1>13 DEF Step

LEMMA GoBackNext == GoBackInv /\ [Next]_vars => GoBackInv'
<1> SUFFICES ASSUME GoBackInv, [Next]_vars PROVE GoBackInv'
  OBVIOUS
<1>1. EntriesInv'
  BY EntriesNext DEF GoBackInv
<1>2. TypeInv'
  BY <1>1 DEF EntriesInv, BytesInv
<1>3. CASE UNCHANGED vars
  <2>1. op' = op /\ hooks' = hooks
    BY <1>3 DEF vars, registry
  <2>2. EntryIds' = EntryIds /\ OlderIds' = OlderIds /\ TrackedIds' = TrackedIds
    BY <2>1 DEF EntryIds, OlderIds, Older, TrackedIds, Entries, Ids
  <2> QED
    BY <1>1, <2>1, <2>2 DEF GoBackInv, CanGoBack, FailedCallKeepsHooks
<1> QED
  BY <1>1, <1>2, <1>3, CallGoesBack, StepGoesBack DEF GoBackInv, Next

\* Whatever the VM, the allocator or mprotect refuse, an install or uninstall
\* that returns an error tracks exactly the hooks it found: the new entry is
\* gone, and the entries moved aside are back under the count (install,
\* uninstall_matching).
THEOREM FailureKeepsHooks == Spec => []FailedCallKeepsHooks
<1>1. GoBackInv => FailedCallKeepsHooks
  BY DEF GoBackInv
<1> QED
  BY <1>1, GoBackInit, GoBackNext, PTL DEF Spec

-----------------------------------------------------------------------------
(* Pages are armed exactly while their hooks are tracked *)

\* The ids of the entries that are freed are the ones that go.
LEMMA FreedIds ==
    ASSUME TypeInv, TypeInv', IdsDiffer, NEW k, NEW freed, FreesTail(k, freed)
    PROVE  EntryIds = EntryIds' \union Ids(freed) /\ EntryIds' \intersect Ids(freed) = {}
<1>1. k \in Classes /\ Entries(k)' \in Seq(Entry) /\ freed \in Seq(Entry)
      /\ Entries(k) = Entries(k)' \o freed
  BY EntriesThen DEF FreesTail
<1>2. \A c \in Classes : Ids(Entries(c))' = Ids(Entries(c)')
  BY DEF Ids
<1>3. Ids(Entries(k)) = Ids(Entries(k))' \union Ids(freed)
  BY <1>1, <1>2, ConcatIds
<1>4. \A c \in Classes : c # k => Ids(Entries(c)) = Ids(Entries(c))' /\ Entries(c)' = Entries(c)
  BY <1>2 DEF FreesTail
<1>5. EntryIds = EntryIds' \union Ids(freed)
  BY <1>1, <1>3, <1>4 DEF EntryIds
<1>6. ASSUME NEW c \in Classes, NEW i \in 1..Len(Entries(c)'), NEW j \in 1..Len(freed),
             Entries(c)'[i].id = freed[j].id
      PROVE  FALSE
  <2> DEFINE n == Len(Entries(k)')
  <2>1. n \in Nat /\ n + j \in 1..Len(Entries(k)) /\ Entries(k)[n + j] = freed[j]
    BY <1>1, ConcatAt
  <2> HIDE DEF n
  <2>2. i \in 1..Len(Entries(c)) /\ Entries(c)[i] = Entries(c)'[i] /\ (c = k => i <= n)
    <3>1. CASE c # k
      BY <1>4, <3>1
    <3>2. CASE c = k
      <4>1. /\ Len(Entries(k)' \o freed) = Len(Entries(k)') + Len(freed)
            /\ Len(Entries(k)') \in Nat /\ Len(freed) \in Nat
            /\ \A x \in 1..Len(Entries(k)') : (Entries(k)' \o freed)[x] = Entries(k)'[x]
        BY <1>1, ConcatAt
      <4>2. i \in 1..Len(Entries(k)')
        BY <3>2
      <4>3. i \in 1..Len(Entries(k)) /\ Entries(k)[i] = Entries(k)'[i] /\ i <= n
        BY <1>1, <4>1, <4>2 DEF n
      <4> QED
        BY <3>2, <4>3
    <3> QED
      BY <3>1, <3>2
  <2>3. Entries(c)[i].id = Entries(k)[n + j].id
    BY <1>6, <2>1, <2>2
  <2>4. c = k /\ i = n + j
    <3>1. \A x \in 1..Len(Entries(c)), y \in 1..Len(Entries(k)) :
             Entries(c)[x].id = Entries(k)[y].id => c = k /\ x = y
      BY <1>1 DEF IdsDiffer
    <3> QED
      BY <2>1, <2>2, <2>3, <3>1
  <2> QED
    BY <2>1, <2>2, <2>4
<1>7. \A c \in Classes : Ids(Entries(c))' \intersect Ids(freed) = {}
  BY <1>2, <1>6 DEF Ids
<1>8. EntryIds' \intersect Ids(freed) = {}
  BY <1>7 DEF EntryIds
<1> QED
  BY <1>5, <1>8

\* When mprotect succeeds a page is disarmed with its entry, and stays armed
\* otherwise.
LEMMA DisarmsThese ==
    ASSUME "disarm" \notin Faults, TypeOK, NEW ids, Disarm(ids)
    PROVE  \A p \in 1..Len(pages) :
              /\ p \in ids => pages'[p].state # "armed"
              /\ p \notin ids => pages'[p] = pages[p]
<1>1. pages' = [p \in 1..Len(pages) |->
                    IF p \in ids \ {} /\ pages[p].state = "armed"
                    THEN [pages[p] EXCEPT !.state = "disarmed"] ELSE pages[p]]
  BY DEF Disarm
<1>2. \A p \in 1..Len(pages) : pages[p] \in Page
  BY DEF TypeOK
<1> QED
  BY <1>1, <1>2 DEF Page

LEMMA AddedIds ==
    ASSUME TypeInv, NEW k, NEW e, AddsTail(k, e)
    PROVE  EntryIds' = EntryIds \union {e.id}
<1>1. k \in Classes /\ e \in Entry /\ Entries(k) \in Seq(Entry)
      /\ Entries(k)' = Append(Entries(k), e)
  BY EntriesNow DEF AddsTail
<1>2. \A c \in Classes : Ids(Entries(c))' = Ids(Entries(c)')
  BY DEF Ids
<1>3. Ids(Append(Entries(k), e)) = Ids(Entries(k)) \union {e.id}
  <2> DEFINE s == Entries(k)
             a == Append(s, e)
  <2>1. /\ Len(a) = Len(s) + 1 /\ Len(s) \in Nat
        /\ \A i \in 1..Len(s) : a[i] = s[i]
        /\ a[Len(s) + 1] = e
    BY <1>1, AppendAt
  <2> HIDE DEF s, a
  <2>2. 1..Len(a) = 1..Len(s) \union {Len(s) + 1}
    BY <2>1
  <2>3. Ids(a) = Ids(s) \union {e.id}
    BY <2>1, <2>2 DEF Ids
  <2> QED
    BY <2>3 DEF s, a
<1>4. \A c \in Classes : c # k => Ids(Entries(c)') = Ids(Entries(c))
  BY DEF AddsTail
<1> QED
  BY <1>1, <1>2, <1>3, <1>4 DEF EntryIds

ArmedInv == EntriesInv /\ ArmedWhileExisting

LEMMA ArmedInit == Init => ArmedInv
<1> SUFFICES ASSUME Init PROVE ArmedInv
  OBVIOUS
<1>1. 1..Len(pages) = {}
  BY DEF Init
<1> QED
  BY <1>1, EntriesInit DEF ArmedInv, ArmedWhileExisting

LEMMA ArmedNext ==
    ASSUME "disarm" \notin Faults, ArmedInv, [Next]_vars
    PROVE  ArmedInv'
<1>1. EntriesInv /\ EntriesInv'
  BY EntriesNext DEF ArmedInv
<1>2. TypeInv /\ TypeInv' /\ PhaseInv /\ IdsDiffer /\ IdsHavePages
  BY <1>1 DEF EntriesInv, BytesInv
<1>3. pages \in Seq(Page) /\ Len(pages) \in Nat
  BY <1>2 DEF TypeInv, TypeOK
<1>4. CASE SameEntries /\ UNCHANGED pages
  BY <1>1, <1>4, SameIds DEF ArmedInv, ArmedWhileExisting
<1>5. ASSUME NEW k, NEW freed, FreesTail(k, freed) PROVE ArmedInv'
  <2>1. EntryIds = EntryIds' \union Ids(freed) /\ EntryIds' \intersect Ids(freed) = {}
    BY <1>2, <1>5, FreedIds
  <2>2. Len(pages') = Len(pages)
    BY <1>2, <1>5, FreedEmbeds
  <2>3. \A p \in 1..Len(pages) :
              /\ p \in Ids(freed) => pages'[p].state # "armed"
              /\ p \notin Ids(freed) => pages'[p] = pages[p]
    BY <1>2, <1>5, DisarmsThese DEF FreesTail, TypeInv
  <2> QED
    BY <1>1, <2>1, <2>2, <2>3 DEF ArmedInv, ArmedWhileExisting
<1>6. ASSUME NEW k, NEW e, AddsTail(k, e) PROVE ArmedInv'
  <2>1. EntryIds' = EntryIds \union {e.id} /\ e.id = Len(pages) + 1
    BY <1>2, <1>6, AddedIds DEF AddsTail
  <2>2. PICK s \in {"armed", "direct"} : pages' = Append(pages, [fn |-> e.fn, state |-> s])
    BY <1>6 DEF AddsTail
  <2>3. /\ Len(pages') = Len(pages) + 1
        /\ \A p \in 1..Len(pages) : pages'[p] = pages[p]
        /\ pages'[Len(pages) + 1].state = s
    BY <1>3, <2>2
  <2>4. ASSUME NEW p \in 1..Len(pages')
        PROVE  /\ p \in EntryIds' => pages'[p].state # "disarmed"
               /\ pages'[p].state = "armed" => p \in EntryIds'
    <3>1. p \in 1..Len(pages) \/ p = Len(pages) + 1
      BY <1>3, <2>3
    <3>2. CASE p \in 1..Len(pages)
      <4>1. p # e.id
        BY <1>3, <2>1, <3>2
      <4> QED
        BY <2>1, <2>3, <3>2, <4>1 DEF ArmedInv, ArmedWhileExisting
    <3>3. CASE p = Len(pages) + 1
      BY <2>1, <2>2, <2>3, <3>3
    <3> QED
      BY <3>1, <3>2, <3>3
  <2> QED
    BY <1>1, <2>4 DEF ArmedInv, ArmedWhileExisting
<1> QED
  BY <1>2, <1>4, <1>5, <1>6, NextEntries

\* As long as pages can be made writable, trampoline_disarm and the entries go
\* together: between calls every armed page has a tracked hook and every
\* tracked hook reaches its function, whatever else failed (free_entry).
THEOREM PagesFollowHooks ==
    ASSUME "disarm" \notin Faults
    PROVE  Spec => []ArmedExactlyWhileTracked
<1>1. ArmedInv /\ [Next]_vars => ArmedInv'
  BY ArmedNext
<1>2. ArmedInv => ArmedExactlyWhileTracked
  <2> SUFFICES ASSUME ArmedInv, lock = NoThread
               PROVE  \A p \in 1..Len(pages) :
                         /\ pages[p].state = "armed" => p \in TrackedIds
                         /\ p \in TrackedIds => pages[p].state # "disarmed"
    BY DEF ArmedExactlyWhileTracked
  <2>1. op.aside = <<>> /\ TypeInv
    BY DEF ArmedInv, EntriesInv, PhaseInv, BytesInv, Idle
  <2>2. EntryIds = TrackedIds
    BY <2>1, NothingAside
  <2> QED
    BY <2>2 DEF ArmedInv, ArmedWhileExisting
<1> QED
  BY <1>1, <1>2, ArmedInit, PTL DEF Spec
=============================================================================
