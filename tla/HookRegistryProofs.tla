------------------------- MODULE HookRegistryProofs -------------------------
(* Proofs about HookRegistry, for every set of threads, classes, methods,    *)
(* offsets and functions and for every set of faults.                        *)
EXTENDS HookRegistry, TLAPS

USE DEF MAKE_NATIVE, INSERT_CALL

-----------------------------------------------------------------------------
(* The invariant behind type correctness *)

InReapply == {"scan", "apply", "bind", "refused", "after"}

\* A call that rebuilds a class has one: without it hooks[op.cls] has no type.
ClassChosen == op.pc \in InReapply => op.cls \in Classes

\* The loops stay inside the array of the class.
LoopInRange ==
    /\ op.pc \in {"scan", "bind"} => op.i >= 1
    /\ op.pc = "scan" => op.kept < op.i /\ op.i <= Len(hooks[op.cls]) + 1

TypeInv == TypeOK /\ ClassChosen /\ LoopInRange

-----------------------------------------------------------------------------
(* Types of the operators the actions are built from *)

\* The locals of an idle library are well typed.
LEMMA IdleType == Idle \in OpType
<1>1. /\ "idle" \in Pcs /\ "none" \in Calls /\ "OK" \in Statuses
      /\ NoClass \in Classes \union {NoClass}
      /\ <<>> \in [Classes -> Definition] \union {<<>>}
  BY DEF Pcs, Calls, Statuses
<1>2. <<>> \in Seq(Entry)
  OBVIOUS
<1> QED
  BY <1>1, <1>2 DEF Idle, OpType

\* The locals of a call that begins are well typed.
LEMMA BeganType ==
    ASSUME TypeOK, NEW call \in Calls, NEW c \in Classes \union {NoClass}
    PROVE  Began(call, c) \in OpType
<1>1. TrackedIds \subseteq Nat
  <2>1. \A k \in Classes : \A i \in 1..Len(hooks[k]) : hooks[k][i] \in Entry
    BY DEF TypeOK
  <2>2. \A k \in Classes : \A i \in 1..Len(hooks[k]) : hooks[k][i].id \in Nat
    BY <2>1 DEF Entry
  <2> QED
    BY <2>2 DEF TrackedIds, Ids
<1>2. def \in [Classes -> Definition]
  BY DEF TypeOK
<1> QED
  BY <1>1, <1>2, IdleType DEF Began, OpType

\* Setting the result of a call keeps its locals well typed.
LEMMA ReturningType ==
    ASSUME NEW o \in OpType, NEW s \in Statuses
    PROVE  Returning(o, s) \in OpType /\ Returning(o, s).pc = "return"
  BY DEF Returning, OpType, Pcs

\* The edit of a hook entry is an edit.
LEMMA EditOfType == \A e \in Entry : EditOf(e) \in Edit
  BY DEF EditOf, Entry, Edit

\* Rebuilding a class from cached bytes gives a definition.
LEMMA BuildType ==
    ASSUME NEW d \in Definition, NEW hs \in Seq(Entry)
    PROVE  Build(d, hs) \in Definition
<1>1. EditsOf(hs) \in Seq(Edit)
  <2>1. \A i \in 1..Len(hs) : EditOf(hs[i]) \in Edit
    BY EditOfType
  <2> QED
    BY <2>1 DEF EditsOf
<1>2. d.edits \in Seq(Edit) /\ d.ver \in Nat
  BY DEF Definition
<1>3. d.edits \o EditsOf(hs) \in Seq(Edit)
  BY <1>1, <1>2
<1> QED
  BY <1>2, <1>3 DEF Build, Definition

\* Disarming pages keeps the page table a sequence of pages.
LEMMA DisarmType ==
    ASSUME TypeOK, NEW ids, Disarm(ids)
    PROVE  pages' \in Seq(Page)
<1>1. PICK stuck : pages' = [p \in 1..Len(pages) |->
                    IF p \in ids \ stuck /\ pages[p].state = "armed"
                    THEN [pages[p] EXCEPT !.state = "disarmed"] ELSE pages[p]]
  BY DEF Disarm
<1>2. \A p \in 1..Len(pages) : pages[p] \in Page
  BY DEF TypeOK
<1>3. \A p \in 1..Len(pages) : [pages[p] EXCEPT !.state = "disarmed"] \in Page
  BY <1>2 DEF Page
<1> QED
  BY <1>1, <1>2, <1>3 DEF TypeOK

\* Dropping a class keeps the class table a sequence of classes.
LEMMA DropType ==
    ASSUME TypeOK, NEW c, drop_class(c)
    PROVE  g_classes' \in Seq(Classes)
  BY DEF drop_class, TypeOK

\* The natives kept across a redefinition are natives.
LEMMA KeepBoundType ==
    ASSUME TypeOK, NEW c, NEW d
    PROVE  KeepBound(c, d) \in [Classes -> SUBSET (Edit \X (Nat \ {0}))]
  BY DEF KeepBound, TypeOK

\* Exchanging two entries keeps an array an array of the same length.
LEMMA SwapType ==
    ASSUME NEW s \in Seq(Entry), NEW i \in 1..Len(s), NEW j \in 1..Len(s)
    PROVE  Swap(s, i, j) \in Seq(Entry) /\ Len(Swap(s, i, j)) = Len(s)
  BY DEF Swap

\* A new hook is a well-typed entry.
LEMMA NewEntryType ==
    ASSUME TypeOK, NEW m \in Methods, NEW o \in Offsets, NEW f \in Fns, NEW k \in Kinds
    PROVE  NewEntry(m, o, f, k) \in Entry
<1>1. Len(pages) + 1 \in Nat \ {0} /\ g_insert_serial \in Nat
  BY DEF TypeOK
<1> QED
  BY <1>1 DEF NewEntry, Entry

\* Capturing a class stores a definition.
LEMMA CapturedType ==
    ASSUME TypeOK, NEW c \in Classes
    PROVE  Captured(c) \in [Classes -> Definition \union {NoDef}]
  BY DEF Captured, TypeOK

\* A class added to the table is a class.
LEMMA WithClassType ==
    ASSUME TypeOK, NEW c \in Classes
    PROVE  WithClass(c) \in Seq(Classes)
  BY DEF WithClass, TypeOK

\* Only numbers name inserted calls.
LEMMA NextSerialType ==
    ASSUME TypeOK, NEW k
    PROVE  NextSerial(k) \in Nat
  BY DEF NextSerial, TypeOK

-----------------------------------------------------------------------------
(* Type correctness: calls *)

\* Reading the flag and giving up change the set of waiting threads only.
LEMMA WaitType ==
    ASSUME TypeInv, NEW t \in Threads, CheckInitialized(t) \/ GiveUp(t)
    PROVE  TypeInv'
<1>1. UNCHANGED <<session, registry, cache, pages, vm, lock, op, warned>>
  BY DEF CheckInitialized, GiveUp
<1>2. want' \subseteq Threads
  BY DEF CheckInitialized, GiveUp, TypeInv, TypeOK
<1> QED
  BY <1>1, <1>2 DEF TypeInv, TypeOK, ClassChosen, LoopInRange, session, registry, vm

\* JNI2Hook_Init sets the session and returns.
LEMMA InitCallType ==
    ASSUME TypeInv, NEW t \in Threads, JNI2Hook_Init(t)
    PROVE  TypeInv'
<1>1. op' \in OpType /\ op'.pc = "return"
  <2>1. Began("Init", NoClass) \in OpType
    BY BeganType DEF TypeInv, Calls
  <2> QED
    BY <2>1, ReturningType DEF JNI2Hook_Init, Statuses
<1>2. /\ g_initialized' \in BOOLEAN /\ g_can_suspend' \in BOOLEAN
      /\ g_flag_state' \in {-1, 0, 1} /\ vmFlag' \in BOOLEAN
  BY ConstantsAssumption DEF JNI2Hook_Init, SetFlag, TypeInv, TypeOK, session
<1> QED
  BY <1>1, <1>2 DEF JNI2Hook_Init, TypeInv, TypeOK, ClassChosen, LoopInRange, InReapply, registry

\* install adds one entry and one page, or returns an error.
LEMMA InstallType ==
    ASSUME TypeInv, NEW t \in Threads, NEW m \in Methods, NEW o \in Offsets, NEW f \in Fns,
           NEW k \in Kinds, install(t, m, o, f, k)
    PROVE  TypeInv'
<1> DEFINE c == ClassOf[m]
           began == Began("Install", c)
<1>1. c \in Classes /\ TypeOK
  BY ConstantsAssumption DEF TypeInv
<1>2. began \in OpType /\ began.cls = c
  BY <1>1, BeganType DEF Calls, Began, Idle
<1>3. CASE op' = Returning(began, "ERR_ALREADY_HOOKED") /\ UNCHANGED <<registry, cache, pages>>
  BY <1>1, <1>2, <1>3, ReturningType
     DEF install, Enter, TypeInv, TypeOK, ClassChosen, LoopInRange, InReapply, Statuses,
         session, registry, vm
<1>4. CASE InstallFails(m, k)
  <2>1. op' \in OpType /\ op'.pc = "return"
    BY <1>2, <1>4, ReturningType DEF InstallFails, Statuses
  <2>2. /\ g_insert_serial' \in Nat /\ g_classes' \in Seq(Classes)
        /\ cache' \in [Classes -> Definition \union {NoDef}]
        /\ UNCHANGED <<pages, hooks>>
    BY <1>1, <1>4, CapturedType, WithClassType, NextSerialType DEF InstallFails, TypeOK
  <2> QED
    BY <1>1, <2>1, <2>2
       DEF install, Enter, TypeInv, TypeOK, ClassChosen, LoopInRange, InReapply, session, vm
<1>5. CASE InstallEntry(m, o, f, k)
  <2>1. op' = [began EXCEPT !.pc = "apply"]
    BY <1>5 DEF InstallEntry
  <2>2. op' \in OpType /\ op'.pc = "apply" /\ op'.cls = c
    BY <1>2, <2>1 DEF OpType, Pcs
  <2>3. hooks' \in [Classes -> Seq(Entry)]
    <3>1. NewEntry(m, o, f, k) \in Entry
      BY <1>1, NewEntryType
    <3>2. hooks' = [hooks EXCEPT ![c] = Append(@, NewEntry(m, o, f, k))]
      BY <1>5 DEF InstallEntry
    <3> QED
      BY <1>1, <3>1, <3>2 DEF TypeOK
  <2>4. pages' \in Seq(Page)
    BY <1>1, <1>5 DEF InstallEntry, TypeOK, Page
  <2>5. /\ g_insert_serial' \in Nat /\ g_classes' \in Seq(Classes)
        /\ cache' \in [Classes -> Definition \union {NoDef}]
    BY <1>1, <1>5, CapturedType, WithClassType, NextSerialType DEF InstallEntry
  <2> QED
    BY <1>1, <2>2, <2>3, <2>4, <2>5
       DEF install, Enter, TypeInv, TypeOK, ClassChosen, LoopInRange, InReapply, session, vm
<1> QED
  BY <1>3, <1>4, <1>5 DEF install

\* Uninstall starts the partition of a class that has a hook of the method.
LEMMA UninstallType ==
    ASSUME TypeInv, NEW t \in Threads, NEW m \in Methods, NEW ids \in SUBSET Nat,
           Uninstall(t, m, ids)
    PROVE  TypeInv'
<1>1. TypeOK
  BY DEF TypeInv
<1>2. CASE op' = Returning(Began("Uninstall", NoClass), "ERR_NOT_HOOKED")
  <2>1. op' \in OpType /\ op'.pc = "return"
    BY <1>1, <1>2, BeganType, ReturningType DEF Calls, Statuses
  <2> QED
    BY <1>1, <2>1 DEF Uninstall, Enter, TypeInv, TypeOK, ClassChosen, LoopInRange, InReapply,
                      session, registry, vm
<1>3. ASSUME NEW c \in Classes,
             op' = [Began("Uninstall", c) EXCEPT !.pc = "scan", !.i = 1, !.match = ids]
      PROVE  TypeInv'
  <2>1. Began("Uninstall", c) \in OpType /\ Began("Uninstall", c).kept = 0
                                         /\ Began("Uninstall", c).cls = c
    BY <1>1, BeganType DEF Calls, Began, Idle
  <2>2. op' \in OpType /\ op'.pc = "scan" /\ op'.i = 1 /\ op'.kept = 0 /\ op'.cls = c
    BY <1>3, <2>1 DEF OpType, Pcs
  <2>3. Len(hooks[c]) \in Nat
    BY <1>1 DEF TypeOK
  <2>4. TypeOK'
    BY <1>1, <2>2 DEF Uninstall, Enter, TypeOK, session, registry, vm
  <2>5. ClassChosen' /\ LoopInRange'
    <3>1. hooks' = hooks
      BY DEF Uninstall, registry
    <3>2. 0 < 1 /\ 1 <= Len(hooks[c]) + 1
      BY <2>3
    <3> QED
      BY <2>2, <3>1, <3>2 DEF ClassChosen, LoopInRange
  <2> QED
    BY <2>4, <2>5 DEF TypeInv
<1> QED
  BY <1>2, <1>3 DEF Uninstall

\* The id of every hook is a number.
LEMMA IdType ==
    ASSUME TypeInv
    PROVE  \A k \in Classes : \A i \in 1..Len(hooks[k]) : hooks[k][i].id \in Nat
<1>1. \A k \in Classes : \A i \in 1..Len(hooks[k]) : hooks[k][i] \in Entry
  BY DEF TypeInv, TypeOK
<1> QED
  BY <1>1 DEF Entry

\* A shutdown begins with no class chosen.
LEMMA ShutdownType ==
    ASSUME TypeInv, NEW t \in Threads, JNI2Hook_Shutdown(t)
    PROVE  TypeInv'
<1>1. Began("Shutdown", NoClass) \in OpType
  BY BeganType DEF TypeInv, Calls
<1>2. op' \in OpType /\ op'.pc = "next"
  BY <1>1 DEF JNI2Hook_Shutdown, OpType, Pcs
<1> QED
  BY <1>2 DEF JNI2Hook_Shutdown, Enter, TypeInv, TypeOK, ClassChosen, LoopInRange, InReapply,
              session, registry, vm

\* A user definition is a definition.
LEMMA RedefineClassType ==
    ASSUME TypeInv, NEW t \in Threads, JNI2Hook_RedefineClass(t)
    PROVE  TypeInv'
<1>1. PICK c \in Classes, v \in Versions :
          LET d == [ver |-> v, edits |-> <<>>] IN
          /\ Enter(t)
          /\ \/ /\ VmAccepts(c, d)
                /\ def' = [def EXCEPT ![c] = d]
                /\ bound' = KeepBound(c, d)
                /\ op' = Returning(Began("RedefineClass", c), "OK")
             \/ /\ "redefine" \in Faults \/ ~VmAccepts(c, d)
                /\ op' = Returning(Began("RedefineClass", c), "ERR_JVMTI")
                /\ UNCHANGED <<def, bound>>
          /\ UNCHANGED <<session, registry, cache, pages, vmFlag, flagFound, suspended, warned>>
  BY DEF JNI2Hook_RedefineClass
<1> DEFINE d == [ver |-> v, edits |-> <<>>]
<1>2. d \in Definition
  BY ConstantsAssumption DEF Definition
<1>3. TypeOK /\ Began("RedefineClass", c) \in OpType
  BY BeganType DEF TypeInv, Calls
<1>4. op' \in OpType /\ op'.pc = "return"
  BY <1>1, <1>3, ReturningType DEF Statuses
<1>5. def' \in [Classes -> Definition]
  BY <1>1, <1>2, <1>3 DEF TypeOK
<1>6. bound' \in [Classes -> SUBSET (Edit \X (Nat \ {0}))]
  BY <1>1, <1>3, KeepBoundType DEF TypeOK
<1> QED
  BY <1>1, <1>4, <1>5, <1>6 DEF Enter, TypeInv, TypeOK, ClassChosen, LoopInRange, InReapply,
                                session, registry

-----------------------------------------------------------------------------
(* Type correctness: the steps of a call *)

\* reapply decides on a status.
LEMMA PrepareType == \A c : Prepare(c) \in Statuses
  BY DEF Prepare, Statuses

\* A reapply that fails changes the locals only.
LEMMA ReapplyFailsType ==
    ASSUME TypeInv, ReapplyFails
    PROVE  TypeInv'
<1>1. op' \in OpType /\ op'.pc = "after" /\ op'.cls = op.cls
  BY PrepareType, ZenonT(40) DEF ReapplyFails, TypeInv, TypeOK, OpType, Pcs, Statuses
<1>2. op.cls \in Classes
  BY DEF ReapplyFails, TypeInv, ClassChosen, InReapply
<1> QED
  BY <1>1, <1>2 DEF ReapplyFails, TypeInv, TypeOK, ClassChosen, LoopInRange,
                    session, registry, vm, locking

\* A redefinition that is refused changes the locals and who is suspended.
LEMMA RedefineRefusedType ==
    ASSUME TypeInv, RedefineRefused
    PROVE  TypeInv'
<1>1. op' \in OpType /\ op'.pc = "refused" /\ op'.cls = op.cls
  BY DEF RedefineRefused, TypeInv, TypeOK, OpType, Pcs, Statuses
<1>2. op.cls \in Classes
  BY DEF RedefineRefused, TypeInv, ClassChosen, InReapply
<1>3. suspended' \in BOOLEAN
  BY DEF RedefineRefused, SuspendOutcomes
<1> QED
  BY <1>1, <1>2, <1>3 DEF RedefineRefused, TypeInv, TypeOK, ClassChosen, LoopInRange,
                          session, registry, locking

\* The VM takes a definition built from cached bytes.
LEMMA RedefineClassesType ==
    ASSUME TypeInv, RedefineClasses
    PROVE  TypeInv'
<1> DEFINE c == op.cls
           d == Build(cache[c], hooks[c])
<1>1. c \in Classes /\ TypeOK
  BY DEF RedefineClasses, TypeInv, ClassChosen, InReapply
<1>2. cache[c] \in Definition /\ hooks[c] \in Seq(Entry)
  BY <1>1 DEF RedefineClasses, Prepare, TypeOK
<1>3. d \in Definition
  BY <1>2, BuildType
<1>4. def' \in [Classes -> Definition]
  BY <1>1, <1>3 DEF RedefineClasses, TypeOK
<1>5. bound' \in [Classes -> SUBSET (Edit \X (Nat \ {0}))]
  BY <1>1, KeepBoundType DEF RedefineClasses
<1>6. op' \in OpType /\ op'.pc = "bind" /\ op'.cls = c /\ op'.i = 1
  BY <1>1 DEF RedefineClasses, TypeOK, OpType, Pcs, Statuses
<1>7. suspended' \in BOOLEAN
  <2>1. suspended' \in SuspendOutcomes(c)
    BY DEF RedefineClasses
  <2> QED
    BY <2>1 DEF SuspendOutcomes
<1>8. UNCHANGED <<session, registry, cache, pages, vmFlag, flagFound, locking, warned>>
  BY DEF RedefineClasses
<1> QED
  BY <1>1, <1>4, <1>5, <1>6, <1>7, <1>8
     DEF TypeInv, TypeOK, ClassChosen, LoopInRange, session, registry, locking

\* Binding a native adds a pair of an edit and a page.
LEMMA RegisterNativeType ==
    ASSUME TypeInv, RegisterNative
    PROVE  TypeInv'
<1> DEFINE c == op.cls
           e == hooks[c][op.i]
           registered == [bound EXCEPT ![c] = {b \in @ : b[1] # EditOf(e)}
                                                  \union {<<EditOf(e), e.id>>}]
<1>1. c \in Classes /\ TypeOK /\ op \in OpType
  BY DEF RegisterNative, TypeInv, ClassChosen, InReapply, TypeOK
<1>2. op.i \in Nat /\ op.i >= 1 /\ op.i <= Len(hooks[c])
  BY <1>1 DEF RegisterNative, TypeInv, LoopInRange, OpType
<1>3. e \in Entry
  BY <1>1, <1>2 DEF TypeOK
<1>4. <<EditOf(e), e.id>> \in Edit \X (Nat \ {0})
  BY <1>3, EditOfType DEF Entry
<1>5. registered \in [Classes -> SUBSET (Edit \X (Nat \ {0}))]
  BY <1>1, <1>4 DEF TypeOK
<1>6. bound' \in [Classes -> SUBSET (Edit \X (Nat \ {0}))]
  BY <1>1, <1>5 DEF RegisterNative, TypeOK
<1>7. op.result \in Statuses /\ FirstFailure(op.result, "ERR_JNI") \in Statuses
  BY <1>1 DEF OpType, FirstFailure, Statuses
<1>8. op' \in OpType /\ op'.pc = "bind" /\ op'.cls = c /\ op'.i = op.i + 1
  <2>1. op.pc = "bind" /\ op.i + 1 \in Nat
    BY <1>2 DEF RegisterNative
  <2>2. CASE op' = [op EXCEPT !.i = @ + 1]
    BY <1>1, <2>1, <2>2 DEF OpType
  <2>3. CASE op' = [op EXCEPT !.i = @ + 1, !.result = FirstFailure(op.result, "ERR_JNI")]
    BY <1>1, <1>7, <2>1, <2>3 DEF OpType
  <2> QED
    BY <2>2, <2>3 DEF RegisterNative
<1>9. UNCHANGED <<session, registry, cache, pages, vmFlag, flagFound, def, suspended, locking, warned>>
  BY DEF RegisterNative
<1> QED
  BY <1>1, <1>2, <1>6, <1>8, <1>9
     DEF TypeInv, TypeOK, ClassChosen, LoopInRange, session, registry, locking

\* Resuming the threads ends the loop.
LEMMA ResumeOthersType ==
    ASSUME TypeInv, ResumeOthers
    PROVE  TypeInv'
<1>1. op' \in OpType /\ op'.pc = "after" /\ op'.cls = op.cls
  BY DEF ResumeOthers, TypeInv, TypeOK, OpType, Pcs
<1>2. op.cls \in Classes
  BY DEF ResumeOthers, TypeInv, ClassChosen, InReapply
<1> QED
  BY <1>1, <1>2 DEF ResumeOthers, TypeInv, TypeOK, ClassChosen, LoopInRange,
                    session, registry, locking

\* So does resuming them after a refusal.
LEMMA ResumeRefusedType ==
    ASSUME TypeInv, ResumeRefused
    PROVE  TypeInv'
<1>1. op' \in OpType /\ op'.pc = "after" /\ op'.cls = op.cls
  BY DEF ResumeRefused, TypeInv, TypeOK, OpType, Pcs
<1>2. op.cls \in Classes
  BY DEF ResumeRefused, TypeInv, ClassChosen, InReapply
<1> QED
  BY <1>1, <1>2 DEF ResumeRefused, TypeInv, TypeOK, ClassChosen, LoopInRange,
                    session, registry, locking

\* An install that succeeded, or was undone, returns.
LEMMA InstallEndType ==
    ASSUME TypeInv, InstallDone \/ InstallUndone
    PROVE  TypeInv'
<1>1. op \in OpType /\ op.first \in Statuses
  BY DEF TypeInv, TypeOK, OpType
<1>2. op' \in OpType /\ op'.pc = "return"
  BY <1>1, ReturningType DEF InstallDone, InstallUndone, Statuses
<1>3. UNCHANGED <<session, registry, cache, pages, vm, locking, warned>>
  BY DEF InstallDone, InstallUndone
<1> QED
  BY <1>2, <1>3 DEF TypeInv, TypeOK, ClassChosen, LoopInRange, InReapply,
                    session, registry, vm, locking

\* Undoing an install removes the last entry.
LEMMA InstallUndoType ==
    ASSUME TypeInv, InstallUndo
    PROVE  TypeInv'
<1> DEFINE c == op.cls
           n == Len(hooks[c])
<1>1. c \in Classes /\ TypeOK /\ op \in OpType /\ op.result \in Statuses
  BY DEF InstallUndo, TypeInv, ClassChosen, InReapply, TypeOK, OpType
<1>2. hooks' \in [Classes -> Seq(Entry)]
  <2>1. hooks[c] \in Seq(Entry) /\ n \in Nat
    BY <1>1 DEF TypeOK
  <2>2. SubSeq(hooks[c], 1, n - 1) \in Seq(Entry)
    BY <2>1
  <2> QED
    BY <1>1, <2>2 DEF InstallUndo, TypeOK
<1>3. pages' \in Seq(Page)
  BY <1>1, DisarmType DEF InstallUndo
<1>4. g_classes' \in Seq(Classes)
  BY <1>1, DropType DEF InstallUndo, TypeOK
<1>5. op' \in OpType /\ op'.pc \in {"apply", "return"} /\ op'.cls = c
  <2>1. CASE op' = Returning(op, op.result)
    <3>1. op' \in OpType /\ op'.pc = "return"
      BY <1>1, <2>1, ReturningType
    <3>2. op'.cls = c
      BY <1>1, <2>1 DEF Returning, OpType
    <3> QED
      BY <3>1, <3>2
  <2>2. CASE op' = [op EXCEPT !.pc = "apply", !.rollback = TRUE, !.first = op.result]
    BY <1>1, <2>2 DEF OpType, Pcs
  <2> QED
    BY <2>1, <2>2 DEF InstallUndo
<1>6. UNCHANGED <<session, g_insert_serial, cache, vm, locking, warned>>
  BY DEF InstallUndo
<1> QED
  BY <1>1, <1>2, <1>3, <1>4, <1>5, <1>6
     DEF TypeInv, TypeOK, ClassChosen, LoopInRange, InReapply, session, vm, locking

\* The partition permutes the entries of the class.
LEMMA PartitionStepType ==
    ASSUME TypeInv, PartitionStep
    PROVE  TypeInv'
<1> DEFINE c == op.cls
<1>1. c \in Classes /\ TypeOK /\ op \in OpType /\ hooks[c] \in Seq(Entry)
  BY DEF PartitionStep, TypeInv, ClassChosen, InReapply, TypeOK
<1>2. /\ op.pc = "scan" /\ op.i \in Nat /\ op.kept \in Nat /\ Len(hooks[c]) \in Nat
      /\ op.kept < op.i /\ op.i <= Len(hooks[c])
  BY <1>1 DEF PartitionStep, TypeInv, LoopInRange, OpType
<1>3. UNCHANGED <<session, g_classes, g_insert_serial, cache, pages, vm, locking, warned>>
  BY DEF PartitionStep
<1>4. CASE op' = [op EXCEPT !.i = @ + 1] /\ UNCHANGED hooks
  <2>1. op' \in OpType /\ op'.pc = "scan" /\ op'.cls = c /\ op'.i = op.i + 1 /\ op'.kept = op.kept
    <3>1. op' = [op EXCEPT !.i = op.i + 1]
      BY <1>4
    <3>2. op.i + 1 \in Nat
      BY <1>2
    <3> QED
      BY <1>1, <1>2, <3>1, <3>2 DEF OpType
  <2>2. TypeOK'
    BY <1>1, <1>3, <1>4, <2>1 DEF TypeOK, session, vm, locking
  <2>3. ClassChosen' /\ LoopInRange'
    BY <1>1, <1>2, <1>4, <2>1 DEF ClassChosen, LoopInRange
  <2> QED
    BY <2>2, <2>3 DEF TypeInv
<1>5. CASE /\ hooks' = [hooks EXCEPT ![c] = Swap(@, op.kept + 1, op.i)]
           /\ op' = [op EXCEPT !.i = @ + 1, !.kept = @ + 1]
  <2>1. /\ op' \in OpType /\ op'.pc = "scan" /\ op'.cls = c /\ op'.i = op.i + 1
        /\ op'.kept = op.kept + 1
    <3>1. op' = [op EXCEPT !.i = op.i + 1, !.kept = op.kept + 1]
      BY <1>5
    <3>2. op.i + 1 \in Nat /\ op.kept + 1 \in Nat
      BY <1>2
    <3> QED
      BY <1>1, <1>2, <3>1, <3>2 DEF OpType
  <2>2. op.kept + 1 \in 1..Len(hooks[c]) /\ op.i \in 1..Len(hooks[c])
    BY <1>2
  <2>3. Swap(hooks[c], op.kept + 1, op.i) \in Seq(Entry)
        /\ Len(Swap(hooks[c], op.kept + 1, op.i)) = Len(hooks[c])
    BY <1>1, <2>2, SwapType
  <2>4. hooks' \in [Classes -> Seq(Entry)] /\ Len(hooks'[c]) = Len(hooks[c])
    BY <1>1, <1>5, <2>3 DEF TypeOK
  <2>5. TypeOK'
    BY <1>1, <1>3, <2>1, <2>4 DEF TypeOK, session, vm, locking
  <2>6. ClassChosen' /\ LoopInRange'
    BY <1>1, <1>2, <2>1, <2>4 DEF ClassChosen, LoopInRange
  <2> QED
    BY <2>5, <2>6 DEF TypeInv
<1> QED
  BY <1>4, <1>5 DEF PartitionStep

\* The end of the partition cuts the array in two.
LEMMA PartitionDoneType ==
    ASSUME TypeInv, PartitionDone
    PROVE  TypeInv'
<1> DEFINE c == op.cls
           n == Len(hooks[c])
<1>1. c \in Classes /\ TypeOK /\ op \in OpType /\ hooks[c] \in Seq(Entry) /\ n \in Nat
  BY DEF PartitionDone, TypeInv, ClassChosen, InReapply, TypeOK
<1>2. op.kept \in Nat /\ op.kept <= n
  BY <1>1 DEF PartitionDone, TypeInv, LoopInRange, OpType
<1>3. UNCHANGED <<session, g_classes, g_insert_serial, cache, pages, vm, locking, warned>>
  BY DEF PartitionDone
<1>4. CASE op' = Returning(op, "ERR_NOT_HOOKED") /\ UNCHANGED hooks
  <2>1. op' \in OpType /\ op'.pc = "return"
    BY <1>1, <1>4, ReturningType DEF Statuses
  <2> QED
    BY <1>1, <1>3, <1>4, <2>1
       DEF TypeInv, TypeOK, ClassChosen, LoopInRange, InReapply, session, vm, locking
<1>5. CASE /\ hooks' = [hooks EXCEPT ![c] = SubSeq(@, 1, op.kept)]
           /\ op' = [op EXCEPT !.pc = "apply", !.aside = SubSeq(hooks[c], op.kept + 1, n)]
  <2>1. SubSeq(hooks[c], 1, op.kept) \in Seq(Entry)
    BY <1>1, <1>2
  <2>2. SubSeq(hooks[c], op.kept + 1, n) \in Seq(Entry)
    BY <1>1, <1>2
  <2>3. hooks' \in [Classes -> Seq(Entry)]
    BY <1>1, <1>5, <2>1 DEF TypeOK
  <2>4. op' \in OpType /\ op'.pc = "apply" /\ op'.cls = c
    BY <1>1, <1>5, <2>2 DEF OpType, Pcs
  <2> QED
    BY <1>1, <1>3, <2>3, <2>4
       DEF TypeInv, TypeOK, ClassChosen, LoopInRange, session, vm, locking
<1> QED
  BY <1>4, <1>5 DEF PartitionDone

\* A successful uninstall frees the entries and perhaps drops the class.
LEMMA UninstallDoneType ==
    ASSUME TypeInv, UninstallDone
    PROVE  TypeInv'
<1>1. TypeOK /\ op \in OpType
  BY DEF TypeInv, TypeOK
<1>2. op' \in OpType /\ op'.pc = "return"
  BY <1>1, ReturningType DEF UninstallDone, Statuses
<1>3. pages' \in Seq(Page)
  BY <1>1, DisarmType DEF UninstallDone
<1>4. g_classes' \in Seq(Classes)
  BY <1>1, DropType DEF UninstallDone, TypeOK
<1>5. UNCHANGED <<session, hooks, g_insert_serial, cache, vm, locking, warned>>
  BY DEF UninstallDone
<1> QED
  BY <1>1, <1>2, <1>3, <1>4, <1>5
     DEF TypeInv, TypeOK, ClassChosen, LoopInRange, InReapply, session, vm, locking

\* A failed uninstall puts the entries back.
LEMMA UninstallUndoType ==
    ASSUME TypeInv, UninstallUndo
    PROVE  TypeInv'
<1>1. TypeOK /\ op \in OpType /\ op.result \in Statuses /\ op.aside \in Seq(Entry)
  BY DEF TypeInv, TypeOK, OpType
<1>2. op.cls \in Classes /\ hooks[op.cls] \in Seq(Entry)
  BY <1>1 DEF UninstallUndo, TypeInv, ClassChosen, InReapply, TypeOK
<1>3. op' \in OpType /\ op'.pc = "return"
  BY <1>1, ReturningType DEF UninstallUndo
<1>4. hooks[op.cls] \o op.aside \in Seq(Entry)
  BY <1>1, <1>2
<1>5. hooks' \in [Classes -> Seq(Entry)]
  BY <1>1, <1>4 DEF UninstallUndo, TypeOK
<1>6. UNCHANGED <<session, g_classes, g_insert_serial, cache, pages, vm, locking, warned>>
  BY DEF UninstallUndo
<1> QED
  BY <1>1, <1>3, <1>5, <1>6
     DEF TypeInv, TypeOK, ClassChosen, LoopInRange, InReapply, session, vm, locking

\* A shutdown empties the last class of the table.
LEMMA ShutdownClassType ==
    ASSUME TypeInv, ShutdownClass
    PROVE  TypeInv'
<1> DEFINE c == g_classes[Len(g_classes)]
<1>1. TypeOK /\ op \in OpType
  BY DEF TypeInv, TypeOK
<1>2. c \in Classes
  BY <1>1 DEF ShutdownClass, TypeOK
<1>3. hooks[c] \in Seq(Entry)
  BY <1>1, <1>2 DEF TypeOK
<1>4. op' \in OpType /\ op'.pc = "apply" /\ op'.cls = c
  BY <1>1, <1>2, <1>3 DEF ShutdownClass, OpType, Pcs
<1>5. hooks' \in [Classes -> Seq(Entry)]
  BY <1>1 DEF ShutdownClass, TypeOK
<1>6. UNCHANGED <<session, g_classes, g_insert_serial, cache, pages, vm, locking, warned>>
  BY DEF ShutdownClass
<1> QED
  BY <1>1, <1>2, <1>4, <1>5, <1>6
     DEF TypeInv, TypeOK, ClassChosen, LoopInRange, session, vm, locking

\* ... and drops it, whatever reapply said.
LEMMA ShutdownClassDoneType ==
    ASSUME TypeInv, ShutdownClassDone
    PROVE  TypeInv'
<1>1. TypeOK /\ op \in OpType /\ FirstFailure(op.first, op.result) \in Statuses
  BY DEF TypeInv, TypeOK, OpType, FirstFailure
<1>2. op' \in OpType /\ op'.pc = "next"
  <2>1. op' = [op EXCEPT !.pc = "next", !.aside = <<>>,
                         !.first = FirstFailure(op.first, op.result)]
    BY DEF ShutdownClassDone
  <2>2. <<>> \in Seq(Entry) /\ "next" \in Pcs
    BY DEF Pcs
  <2> QED
    BY <1>1, <2>1, <2>2 DEF OpType
<1>3. pages' \in Seq(Page)
  BY <1>1, DisarmType DEF ShutdownClassDone
<1>4. g_classes' \in Seq(Classes)
  BY <1>1, DropType DEF ShutdownClassDone
<1>5. UNCHANGED <<session, hooks, g_insert_serial, cache, vm, locking, warned>>
  BY DEF ShutdownClassDone
<1> QED
  BY <1>1, <1>2, <1>3, <1>4, <1>5
     DEF TypeInv, TypeOK, ClassChosen, LoopInRange, InReapply, session, vm, locking

\* The end of a shutdown resets the session.
LEMMA ShutdownFinishType ==
    ASSUME TypeInv, ShutdownFinish
    PROVE  TypeInv'
<1>1. TypeOK /\ op \in OpType /\ op.first \in Statuses
  BY DEF TypeInv, TypeOK, OpType
<1>2. op' \in OpType /\ op'.pc = "return"
  BY <1>1, ReturningType DEF ShutdownFinish
<1>3. vmFlag' \in BOOLEAN
  BY <1>1 DEF ShutdownFinish, RestoredFlag, TypeOK
<1>4. /\ g_initialized' \in BOOLEAN /\ g_can_suspend' \in BOOLEAN /\ g_flag_state' \in {-1, 0, 1}
      /\ g_insert_serial' \in Nat /\ cache' \in [Classes -> Definition \union {NoDef}]
  BY DEF ShutdownFinish
<1>5. UNCHANGED <<g_classes, hooks, pages, flagFound, def, bound, suspended, locking, warned>>
  BY DEF ShutdownFinish
<1> QED
  BY <1>1, <1>2, <1>3, <1>4, <1>5
     DEF TypeInv, TypeOK, ClassChosen, LoopInRange, InReapply, locking

\* Returning releases g_lock.
LEMMA ReturnType ==
    ASSUME TypeInv, Return
    PROVE  TypeInv'
<1>1. op' \in OpType /\ op'.pc = "idle"
  BY IdleType DEF Return, Idle
<1>2. warned' \in BOOLEAN
  BY DEF Return
<1>3. lock' = NoThread /\ UNCHANGED <<session, registry, cache, pages, vm, want>>
  BY DEF Return
<1> QED
  BY <1>1, <1>2, <1>3
     DEF TypeInv, TypeOK, ClassChosen, LoopInRange, InReapply, session, registry, vm

-----------------------------------------------------------------------------
(* Type correctness: the specification *)

\* The initial state is well typed.
LEMMA TypeInit == Init => TypeInv
<1> SUFFICES ASSUME Init PROVE TypeInv
  OBVIOUS
<1>1. op \in OpType /\ op.pc = "idle"
  BY IdleType DEF Init, Idle
<1>2. def \in [Classes -> Definition]
  <2>1. [ver |-> 0, edits |-> <<>>] \in Definition
    BY DEF Definition
  <2> QED
    BY <2>1 DEF Init
<1>3. /\ g_classes \in Seq(Classes) /\ hooks \in [Classes -> Seq(Entry)]
      /\ cache \in [Classes -> Definition \union {NoDef}] /\ pages \in Seq(Page)
      /\ bound \in [Classes -> SUBSET (Edit \X (Nat \ {0}))]
  BY DEF Init
<1>4. /\ g_initialized \in BOOLEAN /\ g_can_suspend \in BOOLEAN /\ suspended \in BOOLEAN
      /\ vmFlag \in BOOLEAN /\ flagFound \in BOOLEAN /\ warned \in BOOLEAN
      /\ g_flag_state \in {-1, 0, 1} /\ g_insert_serial \in Nat
      /\ lock \in Threads \union {NoThread} /\ want \subseteq Threads
  BY DEF Init
<1> QED
  BY <1>1, <1>2, <1>3, <1>4 DEF TypeInv, TypeOK, ClassChosen, LoopInRange, InReapply

\* Every step of the library keeps the types.
LEMMA TypeNext == TypeInv /\ [Next]_vars => TypeInv'
<1> SUFFICES ASSUME TypeInv, [Next]_vars PROVE TypeInv'
  OBVIOUS
<1>1. ASSUME NEW t \in Threads, Call(t) PROVE TypeInv'
  <2>1. CASE CheckInitialized(t) \/ GiveUp(t)
    BY <2>1, WaitType
  <2>2. CASE JNI2Hook_Init(t)
    BY <2>2, InitCallType
  <2>3. CASE JNI2Hook_Install(t)
    BY <2>3, InstallType, ConstantsAssumption DEF JNI2Hook_Install, Kinds
  <2>4. CASE JNI2Hook_InstallAt(t)
    BY <2>4, InstallType DEF JNI2Hook_InstallAt, Kinds
  <2>5. CASE JNI2Hook_Uninstall(t)
    <3>1. PICK m \in Methods :
            Uninstall(t, m, UNION {{hooks[c][i].id : i \in {j \in 1..Len(hooks[c]) :
                                       matches_method(hooks[c][j], m)}} : c \in Classes})
      BY <2>5 DEF JNI2Hook_Uninstall
    <3>2. UNION {{hooks[c][i].id : i \in {j \in 1..Len(hooks[c]) :
                     matches_method(hooks[c][j], m)}} : c \in Classes} \in SUBSET Nat
      BY IdType
    <3> QED
      BY <3>1, <3>2, UninstallType
  <2>6. CASE JNI2Hook_UninstallAt(t)
    <3>1. PICK m \in Methods, o \in Offsets, f \in Fns :
            Uninstall(t, m, UNION {{hooks[c][i].id : i \in {j \in 1..Len(hooks[c]) :
                                       matches_insert(hooks[c][j], m, o, f)}} : c \in Classes})
      BY <2>6 DEF JNI2Hook_UninstallAt
    <3>2. UNION {{hooks[c][i].id : i \in {j \in 1..Len(hooks[c]) :
                     matches_insert(hooks[c][j], m, o, f)}} : c \in Classes} \in SUBSET Nat
      BY IdType
    <3> QED
      BY <3>1, <3>2, UninstallType
  <2>7. CASE JNI2Hook_Shutdown(t)
    BY <2>7, ShutdownType
  <2>8. CASE JNI2Hook_RedefineClass(t)
    BY <2>8, RedefineClassType
  <2> QED
    BY <1>1, <2>1, <2>2, <2>3, <2>4, <2>5, <2>6, <2>7, <2>8 DEF Call
<1>2. CASE Step
  BY <1>2, ReapplyFailsType, RedefineRefusedType, RedefineClassesType, RegisterNativeType,
     ResumeOthersType, ResumeRefusedType, InstallEndType, InstallUndoType, PartitionStepType,
     PartitionDoneType, UninstallDoneType,
     UninstallUndoType, ShutdownClassType, ShutdownClassDoneType, ShutdownFinishType, ReturnType
     DEF Step
<1>3. CASE UNCHANGED vars
  BY <1>3 DEF vars, session, registry, vm, locking, TypeInv, TypeOK, ClassChosen, LoopInRange
<1> QED
  BY <1>1, <1>2, <1>3 DEF Next

\* Every variable of the registry keeps its type in every behaviour: the loops
\* of uninstall_matching and reapply never leave the array of hooks.
THEOREM TypeCorrect == Spec => []TypeOK
<1>1. TypeInv => TypeOK
  BY DEF TypeInv
<1> QED
  BY TypeInit, TypeNext, <1>1, PTL DEF Spec

-----------------------------------------------------------------------------
(* The bytes to rebuild from *)

\* A shutdown empties a class before it rebuilds it, so dropping the class
\* whatever reapply returns leaves no hook behind without its class.
ShutdownEmptied ==
    op.call = "Shutdown" /\ op.pc \in InReapply => hooks[op.cls] = <<>>

\* Only an uninstall partitions, only a shutdown walks the table of classes.
CallKnown ==
    /\ op.pc = "scan" => op.call = "Uninstall"
    /\ op.pc = "next" => op.call = "Shutdown"

BytesInv == TypeInv /\ RebuildHasItsBytes /\ ShutdownEmptied

\* drop_class removes its class from the table, and no other.
LEMMA DropTracked ==
    ASSUME TypeOK, NEW c, drop_class(c)
    PROVE  /\ \A x : x # c /\ IsTracked(x) => IsTracked(x)'
           /\ \A k \in 1..Len(g_classes') : IsTracked(g_classes'[k])
<1>1. PICK k \in 1..Len(g_classes) :
          /\ g_classes[k] = c
          /\ g_classes' = [i \in 1..(Len(g_classes) - 1) |->
                              IF i < k THEN g_classes[i] ELSE g_classes[i + 1]]
  BY DEF drop_class
<1>2. Len(g_classes) \in Nat /\ k \in Nat
  BY DEF TypeOK
<1>3. Len(g_classes') = Len(g_classes) - 1
  <2>1. g_classes' \in Seq(Classes)
    BY DropType
  <2>2. DOMAIN g_classes' = 1..(Len(g_classes) - 1)
    BY <1>1
  <2>3. DOMAIN g_classes' = 1..Len(g_classes') /\ Len(g_classes') \in Nat
    BY <2>1
  <2> QED
    BY <1>1, <1>2, <2>2, <2>3
<1>4. ASSUME NEW x, x # c, IsTracked(x)
      PROVE  IsTracked(x)'
  <2>1. PICK i \in 1..Len(g_classes) : g_classes[i] = x
    BY <1>4 DEF IsTracked
  <2>2. i # k
    BY <1>1, <1>4, <2>1
  <2>3. CASE i < k
    BY <1>1, <1>2, <1>3, <2>1, <2>3 DEF IsTracked
  <2>4. CASE i > k
    <3>1. i - 1 \in 1..(Len(g_classes) - 1) /\ ~(i - 1 < k) /\ (i - 1) + 1 = i
      BY <1>2, <2>1, <2>4
    <3>2. g_classes'[i - 1] = x
      BY <1>1, <2>1, <3>1
    <3> QED
      BY <1>3, <3>1, <3>2 DEF IsTracked
  <2> QED
    BY <1>2, <2>1, <2>2, <2>3, <2>4
<1>5. ASSUME NEW i \in 1..Len(g_classes')
      PROVE  IsTracked(g_classes'[i])
  <2>1. i \in 1..(Len(g_classes) - 1) /\ i \in 1..Len(g_classes) /\ i + 1 \in 1..Len(g_classes)
    BY <1>2, <1>3, <1>5
  <2>2. g_classes'[i] = g_classes[i] \/ g_classes'[i] = g_classes[i + 1]
    BY <1>1, <2>1
  <2> QED
    BY <2>1, <2>2 DEF IsTracked
<1> QED
  BY <1>4, <1>5

\* Steps that leave the table, the hooks and the cache alone.
LEMMA BytesFrame ==
    ASSUME BytesInv, TypeInv', UNCHANGED <<registry, cache>>,
           \/ UNCHANGED op
           \/ op'.pc \notin InReapply
           \/ op.pc \in InReapply /\ op'.cls = op.cls /\ op'.call = op.call
    PROVE  BytesInv'
<1>1. g_classes' = g_classes /\ hooks' = hooks /\ cache' = cache
  BY DEF registry
<1>2. RebuildHasItsBytes'
  BY <1>1 DEF BytesInv, RebuildHasItsBytes, IsTracked, InReapply
<1>3. ShutdownEmptied'
  BY <1>1 DEF BytesInv, ShutdownEmptied
<1> QED
  BY <1>2, <1>3 DEF BytesInv

\* What install records keeps every tracked class cached and tracks its class.
LEMMA WithClassBytes ==
    ASSUME BytesInv, NEW c \in Classes, g_classes' = WithClass(c), cache' = Captured(c)
    PROVE  /\ \A k \in 1..Len(g_classes') : cache'[g_classes'[k]] # NoDef
           /\ \A x : IsTracked(x) => IsTracked(x)'
           /\ IsTracked(c)'
<1>1. TypeOK /\ RebuildHasItsBytes
  BY DEF BytesInv, TypeInv
<1>2. def[c] # NoDef
  BY <1>1 DEF TypeOK, Definition, NoDef
<1>3. \A x \in Classes : cache[x] # NoDef \/ x = c => cache'[x] # NoDef
  BY <1>1, <1>2 DEF Captured, TypeOK
<1>4. CASE IsTracked(c)
  <2>1. g_classes' = g_classes
    BY <1>4 DEF WithClass
  <2>2. \A k \in 1..Len(g_classes) : cache[g_classes[k]] # NoDef /\ g_classes[k] \in Classes
    BY <1>1 DEF RebuildHasItsBytes, TypeOK
  <2> QED
    BY <1>3, <1>4, <2>1, <2>2 DEF IsTracked
<1>5. CASE ~IsTracked(c)
  <2>1. g_classes' = Append(g_classes, c) /\ g_classes \in Seq(Classes)
    BY <1>1, <1>5 DEF WithClass, TypeOK
  <2>2. Len(g_classes') = Len(g_classes) + 1 /\ Len(g_classes) \in Nat
    BY <2>1
  <2>3. \A k \in 1..Len(g_classes) : g_classes'[k] = g_classes[k] /\ g_classes[k] \in Classes
    BY <2>1
  <2>4. g_classes'[Len(g_classes) + 1] = c
    BY <2>1
  <2>5. \A k \in 1..Len(g_classes') : k \in 1..Len(g_classes) \/ k = Len(g_classes) + 1
    BY <2>2
  <2>6. \A k \in 1..Len(g_classes') : cache'[g_classes'[k]] # NoDef
    BY <1>1, <1>3, <2>3, <2>4, <2>5 DEF RebuildHasItsBytes
  <2>7. \A k \in 1..Len(g_classes) : k \in 1..Len(g_classes')
    BY <2>2
  <2>8. Len(g_classes) + 1 \in 1..Len(g_classes')
    BY <2>2
  <2> QED
    BY <2>3, <2>4, <2>6, <2>7, <2>8 DEF IsTracked
<1> QED
  BY <1>4, <1>5

\* install captures the class before it tracks it.
LEMMA InstallBytes ==
    ASSUME BytesInv, TypeInv', NEW t \in Threads, NEW m \in Methods, NEW o \in Offsets,
           NEW f \in Fns, NEW k \in Kinds, install(t, m, o, f, k)
    PROVE  BytesInv'
<1> DEFINE c == ClassOf[m]
<1>1. c \in Classes /\ TypeOK
  BY ConstantsAssumption DEF BytesInv, TypeInv
<1>2. Began("Install", c).cls = c /\ Began("Install", c).call = "Install"
  BY DEF Began, Idle
<1>3. Began("Install", c) \in OpType
  BY <1>1, BeganType DEF Calls
<1>4. CASE op' = Returning(Began("Install", c), "ERR_ALREADY_HOOKED")
           /\ UNCHANGED <<registry, cache, pages>>
  <2>1. op'.pc = "return"
    BY <1>3, <1>4, ReturningType DEF Statuses
  <2> QED
    BY <1>4, <2>1, BytesFrame DEF InReapply
<1>5. CASE InstallFails(m, k)
  <2>1. op'.pc = "return"
    BY <1>3, <1>5, ReturningType DEF InstallFails, Statuses
  <2>2. hooks' = hooks
    BY <1>5 DEF InstallFails
  <2>3. CASE g_classes' = g_classes /\ cache' \in {cache, Captured(c)}
    <3>1. \A x \in Classes : cache[x] # NoDef => cache'[x] # NoDef
      BY <1>1, <2>3 DEF Captured, TypeOK
    <3>2. RebuildHasItsBytes'
      BY <1>1, <2>1, <2>2, <2>3, <3>1 DEF BytesInv, RebuildHasItsBytes, IsTracked, TypeOK
    <3> QED
      BY <2>1, <3>2 DEF BytesInv, ShutdownEmptied, InReapply
  <2>4. CASE g_classes' = WithClass(c) /\ cache' = Captured(c)
    <3>1. RebuildHasItsBytes'
      BY <1>1, <2>1, <2>2, <2>4, WithClassBytes DEF BytesInv, RebuildHasItsBytes
    <3> QED
      BY <2>1, <3>1 DEF BytesInv, ShutdownEmptied, InReapply
  <2> QED
    BY <1>5, <2>3, <2>4 DEF InstallFails
<1>6. CASE InstallEntry(m, o, f, k)
  <2>1. op' = [Began("Install", c) EXCEPT !.pc = "apply"]
    BY <1>6 DEF InstallEntry
  <2>2. op'.pc = "apply" /\ op'.cls = c /\ op'.call = "Install"
    BY <1>2, <1>3, <2>1 DEF OpType
  <2>3. g_classes' = WithClass(c) /\ cache' = Captured(c)
    BY <1>6 DEF InstallEntry
  <2>4. \A x \in Classes : x # c => hooks'[x] = hooks[x]
    BY <1>1, <1>6 DEF InstallEntry, TypeOK
  <2>5. RebuildHasItsBytes'
    BY <1>1, <2>2, <2>3, <2>4, WithClassBytes DEF BytesInv, RebuildHasItsBytes
  <2> QED
    BY <2>2, <2>5 DEF BytesInv, ShutdownEmptied
<1> QED
  BY <1>4, <1>5, <1>6 DEF install

\* An uninstall partitions the hooks of a class that has some.
LEMMA UninstallBytes ==
    ASSUME BytesInv, TypeInv', NEW t \in Threads, NEW m \in Methods, NEW ids,
           Uninstall(t, m, ids)
    PROVE  BytesInv'
<1>1. TypeOK /\ UNCHANGED <<registry, cache>>
  BY DEF BytesInv, TypeInv, Uninstall
<1>2. CASE op' = Returning(Began("Uninstall", NoClass), "ERR_NOT_HOOKED")
  <2>1. op'.pc = "return"
    BY <1>1, <1>2, BeganType, ReturningType DEF Calls, Statuses
  <2> QED
    BY <1>1, <2>1, BytesFrame DEF InReapply
<1>3. ASSUME NEW c \in Classes, NEW i \in 1..Len(hooks[c]),
             op' = [Began("Uninstall", c) EXCEPT !.pc = "scan", !.i = 1, !.match = ids]
      PROVE  BytesInv'
  <2>1. Began("Uninstall", c) \in OpType /\ Began("Uninstall", c).cls = c
        /\ Began("Uninstall", c).call = "Uninstall"
    BY <1>1, BeganType DEF Calls, Began, Idle
  <2>2. op'.cls = c /\ op'.call = "Uninstall"
    BY <1>3, <2>1 DEF OpType
  <2>3. hooks[c] # <<>>
    BY <1>3
  <2>4. IsTracked(c)
    BY <2>3 DEF BytesInv, RebuildHasItsBytes
  <2>5. RebuildHasItsBytes'
    BY <1>1, <2>2, <2>4 DEF BytesInv, RebuildHasItsBytes, IsTracked, registry
  <2> QED
    BY <2>2, <2>5 DEF BytesInv, ShutdownEmptied
<1> QED
  BY <1>2, <1>3 DEF Uninstall

\* Steps that change the hooks of the chosen, tracked class only.
LEMMA HooksOfTracked ==
    ASSUME BytesInv, TypeInv', op.pc \in InReapply, g_classes' = g_classes, cache' = cache,
           \A x \in Classes : x # op.cls => hooks'[x] = hooks[x],
           op'.pc \in InReapply => op'.cls = op.cls,
           op'.call = op.call, op.call # "Shutdown"
    PROVE  BytesInv'
<1>1. IsTracked(op.cls)
  BY DEF BytesInv, RebuildHasItsBytes, InReapply
<1>2. RebuildHasItsBytes'
  BY <1>1 DEF BytesInv, RebuildHasItsBytes, IsTracked, InReapply
<1> QED
  BY <1>2 DEF BytesInv, ShutdownEmptied

\* Steps that drop the chosen class when it has no hooks left.
LEMMA DropBytes ==
    ASSUME BytesInv, TypeInv', drop_class(op.cls), cache' = cache, op.cls \in Classes,
           \A x \in Classes : x # op.cls => hooks'[x] = hooks[x],
           hooks'[op.cls] = <<>>, op'.pc \notin InReapply
    PROVE  BytesInv'
<1>1. /\ \A x : x # op.cls /\ IsTracked(x) => IsTracked(x)'
      /\ \A k \in 1..Len(g_classes') : IsTracked(g_classes'[k])
  BY DropTracked DEF BytesInv, TypeInv
<1>2. \A x : IsTracked(x) => cache[x] # NoDef
  BY DEF BytesInv, RebuildHasItsBytes, IsTracked
<1>3. \A k \in 1..Len(g_classes') : cache'[g_classes'[k]] # NoDef
  BY <1>1, <1>2
<1>4. \A x \in Classes : hooks'[x] # <<>> => IsTracked(x)'
  BY <1>1 DEF BytesInv, RebuildHasItsBytes
<1>5. RebuildHasItsBytes'
  BY <1>3, <1>4 DEF RebuildHasItsBytes, InReapply
<1> QED
  BY <1>5 DEF BytesInv, ShutdownEmptied

\* Every step that belongs to the call holding g_lock keeps the invariant.
LEMMA StepBytes ==
    ASSUME BytesInv, CallKnown, TypeInv', Step
    PROVE  BytesInv'
<1>1. TypeOK /\ op \in OpType /\ op.result \in Statuses /\ op.first \in Statuses
  BY DEF BytesInv, TypeInv, TypeOK, OpType
<1>2. op.pc \in InReapply => op.cls \in Classes
  BY DEF BytesInv, TypeInv, ClassChosen
<1>3. CASE ReapplyFails \/ RedefineRefused
  BY <1>1, <1>3, BytesFrame DEF ReapplyFails, RedefineRefused, InReapply, OpType
<1>4. CASE RedefineClasses
  BY <1>1, <1>4, BytesFrame DEF RedefineClasses, InReapply, OpType
<1>5. CASE RegisterNative
  <2>1. op.pc \in InReapply /\ UNCHANGED <<registry, cache>>
    BY <1>5 DEF RegisterNative, InReapply
  <2>2. op'.cls = op.cls /\ op'.call = op.call
    BY <1>1, <1>5 DEF RegisterNative, OpType
  <2> QED
    BY <2>1, <2>2, BytesFrame
<1>6. CASE ResumeOthers \/ ResumeRefused
  BY <1>1, <1>6, BytesFrame DEF ResumeOthers, ResumeRefused, InReapply, OpType
<1>7. CASE InstallDone \/ InstallUndone
  <2>1. op'.pc = "return" /\ UNCHANGED <<registry, cache>>
    BY <1>1, <1>7, ReturningType DEF InstallDone, InstallUndone, Statuses
  <2> QED
    BY <2>1, BytesFrame DEF InReapply
<1>8. CASE InstallUndo
  <2>1. /\ op.cls \in Classes /\ op.pc \in InReapply /\ op.call = "Install"
        /\ cache' = cache /\ \A x \in Classes : x # op.cls => hooks'[x] = hooks[x]
    BY <1>1, <1>2, <1>8 DEF InstallUndo, InReapply, TypeOK
  <2>2. CASE Len(hooks[op.cls]) = 1 /\ drop_class(op.cls) /\ op' = Returning(op, op.result)
    <3>1. op'.pc \notin InReapply
      BY <1>1, <2>2, ReturningType DEF InReapply
    <3>2. hooks'[op.cls] = SubSeq(hooks[op.cls], 1, Len(hooks[op.cls]) - 1)
      BY <1>1, <1>8, <2>1 DEF InstallUndo, TypeOK
    <3>3. hooks[op.cls] \in Seq(Entry)
      BY <1>1, <2>1 DEF TypeOK
    <3>4. hooks'[op.cls] = <<>>
      BY <2>2, <3>2, <3>3
    <3> QED
      BY <2>1, <2>2, <3>1, <3>4, DropBytes
  <2>3. CASE /\ op' = [op EXCEPT !.pc = "apply", !.rollback = TRUE, !.first = op.result]
             /\ UNCHANGED g_classes
    <3>1. op'.cls = op.cls /\ op'.call = op.call
      BY <1>1, <2>3 DEF OpType
    <3> QED
      BY <2>1, <2>3, <3>1, HooksOfTracked
  <2> QED
    BY <1>8, <2>2, <2>3 DEF InstallUndo
<1> DEFINE SteadyUninstall == /\ op.pc \in InReapply /\ op.call = "Uninstall"
                              /\ g_classes' = g_classes /\ cache' = cache
                              /\ \A x \in Classes : x # op.cls => hooks'[x] = hooks[x]
                              /\ op'.cls = op.cls /\ op'.call = op.call
<1>9. CASE PartitionStep
  <2>1. SteadyUninstall
    BY <1>1, <1>2, <1>9 DEF CallKnown, PartitionStep, InReapply, TypeOK, OpType
  <2> QED
    BY <2>1, HooksOfTracked
<1>10. CASE PartitionDone
  <2>1. SteadyUninstall
    BY <1>1, <1>2, <1>10 DEF CallKnown, PartitionDone, Returning, InReapply, TypeOK, OpType
  <2> QED
    BY <2>1, HooksOfTracked
<1>11. CASE UninstallUndo
  <2>1. SteadyUninstall
    BY <1>1, <1>2, <1>11 DEF UninstallUndo, Returning, InReapply, TypeOK, OpType
  <2> QED
    BY <2>1, HooksOfTracked
<1>12. CASE UninstallDone
  <2>1. op'.pc \notin InReapply /\ hooks' = hooks /\ cache' = cache /\ op.cls \in Classes
    BY <1>1, <1>2, <1>12, ReturningType DEF UninstallDone, InReapply, Statuses
  <2>2. CASE hooks[op.cls] = <<>> /\ drop_class(op.cls)
    BY <2>1, <2>2, DropBytes
  <2>3. CASE UNCHANGED g_classes
    BY <1>12, <2>1, <2>3, BytesFrame DEF UninstallDone, registry
  <2> QED
    BY <1>12, <2>2, <2>3 DEF UninstallDone
<1>13. CASE ShutdownClass
  <2> DEFINE c == g_classes[Len(g_classes)]
  <2>1. /\ op'.cls = c /\ op'.call = "Shutdown" /\ op'.pc = "apply"
        /\ g_classes' = g_classes /\ cache' = cache
    BY <1>1, <1>13 DEF CallKnown, ShutdownClass, OpType
  <2>2. Len(g_classes) \in 1..Len(g_classes) /\ c \in Classes
    BY <1>1, <1>13 DEF ShutdownClass, TypeOK
  <2>3. IsTracked(c)
    BY <2>2 DEF IsTracked
  <2>4. hooks'[c] = <<>> /\ \A x \in Classes : x # c => hooks'[x] = hooks[x]
    BY <1>1, <1>13, <2>2 DEF ShutdownClass, TypeOK
  <2>5. RebuildHasItsBytes'
    BY <2>1, <2>3, <2>4 DEF BytesInv, RebuildHasItsBytes, IsTracked
  <2> QED
    BY <2>1, <2>4, <2>5 DEF BytesInv, ShutdownEmptied
<1>14. CASE ShutdownClassDone
  <2>1. op.pc \in InReapply /\ op.call = "Shutdown" /\ hooks' = hooks /\ cache' = cache
        /\ drop_class(op.cls)
    BY <1>14 DEF ShutdownClassDone, InReapply
  <2>2. op'.pc \notin InReapply
    BY <1>1, <1>14 DEF ShutdownClassDone, InReapply, OpType
  <2>3. hooks'[op.cls] = <<>>
    BY <2>1 DEF BytesInv, ShutdownEmptied
  <2> QED
    BY <1>2, <2>1, <2>2, <2>3, DropBytes
<1>15. CASE ShutdownFinish
  <2>1. g_classes' = <<>> /\ g_classes = <<>> /\ hooks' = hooks /\ op'.pc = "return"
    BY <1>1, <1>15, ReturningType DEF ShutdownFinish
  <2>2. RebuildHasItsBytes'
    BY <2>1 DEF BytesInv, RebuildHasItsBytes, IsTracked
  <2> QED
    BY <2>1, <2>2 DEF BytesInv, ShutdownEmptied, InReapply
<1>16. CASE Return
  BY <1>16, BytesFrame DEF Return, Idle, InReapply
<1> QED
  BY <1>3, <1>4, <1>5, <1>6, <1>7, <1>8, <1>9, <1>10, <1>11, <1>12, <1>13, <1>14, <1>15, <1>16
     DEF Step

\* The phase of a call says which call it is.
LEMMA CallNext == TypeInv /\ CallKnown /\ [Next]_vars => CallKnown'
<1> SUFFICES ASSUME TypeInv, CallKnown, [Next]_vars PROVE CallKnown'
  OBVIOUS
<1>1. op \in OpType /\ TypeOK
  BY DEF TypeInv, TypeOK
<1>2. \A call, c : /\ Began(call, c).pc = "idle" /\ Began(call, c).call = call
                   /\ \A s : Returning(Began(call, c), s).pc = "return"
  BY DEF Began, Returning, Idle
<1>3. \A s : Returning(op, s).pc = "return"
  BY <1>1 DEF Returning, OpType
<1>4. ASSUME NEW t \in Threads, Call(t) PROVE CallKnown'
  <2>1. CASE UNCHANGED op
    BY <2>1 DEF CallKnown
  <2>2. CASE JNI2Hook_Init(t)
    BY <1>2, <2>2 DEF JNI2Hook_Init, CallKnown
  <2>3. ASSUME NEW m \in Methods, NEW o \in Offsets, NEW f \in Fns, NEW k \in Kinds,
               install(t, m, o, f, k)
        PROVE  CallKnown'
    <3>1. CASE op'.pc = "return"
      BY <3>1 DEF CallKnown
    <3>2. CASE op' = [Began("Install", ClassOf[m]) EXCEPT !.pc = "apply"]
      BY <3>2 DEF CallKnown, Began, Idle
    <3> QED
      BY <1>2, <2>3, <3>1, <3>2 DEF install, InstallFails, InstallEntry
  <2>4. ASSUME NEW m \in Methods, NEW ids, Uninstall(t, m, ids)
        PROVE  CallKnown'
    <3>1. CASE op' = Returning(Began("Uninstall", NoClass), "ERR_NOT_HOOKED")
      BY <1>2, <3>1 DEF CallKnown
    <3>2. ASSUME NEW c \in Classes,
                 op' = [Began("Uninstall", c) EXCEPT !.pc = "scan", !.i = 1, !.match = ids]
          PROVE  CallKnown'
      BY <3>2 DEF CallKnown, Began, Idle
    <3> QED
      BY <2>4, <3>1, <3>2 DEF Uninstall
  <2>5. CASE JNI2Hook_Shutdown(t)
    BY <2>5 DEF JNI2Hook_Shutdown, CallKnown, Began, Idle
  <2>6. CASE JNI2Hook_RedefineClass(t)
    <3>1. op'.pc = "return"
      BY <1>2, <2>6 DEF JNI2Hook_RedefineClass
    <3> QED
      BY <3>1 DEF CallKnown
  <2> QED
    BY <1>4, <2>1, <2>2, <2>3, <2>4, <2>5, <2>6, ConstantsAssumption
       DEF Call, CheckInitialized, GiveUp, JNI2Hook_Install, JNI2Hook_InstallAt,
           JNI2Hook_Uninstall, JNI2Hook_UninstallAt, Kinds
<1>5. CASE Step
  <2>1. CASE \/ ReapplyFails \/ RedefineRefused \/ RedefineClasses \/ RegisterNative
             \/ ResumeOthers \/ ResumeRefused
    <3>1. op'.pc \in {"after", "bind", "refused"}
      BY <1>1, <2>1 DEF ReapplyFails, RedefineRefused, RedefineClasses, RegisterNative,
                        ResumeOthers, ResumeRefused, OpType
    <3> QED
      BY <3>1 DEF CallKnown
  <2>2. CASE InstallDone \/ InstallUndone \/ UninstallDone \/ UninstallUndo \/ ShutdownFinish
    <3>1. op'.pc = "return"
      BY <1>3, <2>2 DEF InstallDone, InstallUndone, UninstallDone, UninstallUndo, ShutdownFinish
    <3> QED
      BY <3>1 DEF CallKnown
  <2>3. CASE InstallUndo
    <3>1. op'.pc \in {"apply", "return"}
      BY <1>1, <1>3, <2>3 DEF InstallUndo, OpType
    <3> QED
      BY <3>1 DEF CallKnown
  <2>4. CASE PartitionStep
    <3>1. op'.pc = "scan" /\ op.pc = "scan" /\ op'.call = op.call
      BY <1>1, <2>4 DEF PartitionStep, OpType
    <3> QED
      BY <3>1 DEF CallKnown
  <2>5. CASE PartitionDone
    <3>1. op'.pc \in {"apply", "return"}
      BY <1>1, <1>3, <2>5 DEF PartitionDone, OpType
    <3> QED
      BY <3>1 DEF CallKnown
  <2>6. CASE ShutdownClass
    BY <1>1, <2>6 DEF ShutdownClass, OpType, CallKnown
  <2>7. CASE ShutdownClassDone
    BY <1>1, <2>7 DEF ShutdownClassDone, OpType, CallKnown
  <2>8. CASE Return
    BY <2>8 DEF Return, Idle, CallKnown
  <2> QED
    BY <1>5, <2>1, <2>2, <2>3, <2>4, <2>5, <2>6, <2>7, <2>8 DEF Step
<1>6. CASE UNCHANGED vars
  BY <1>6 DEF vars, CallKnown
<1> QED
  BY <1>4, <1>5, <1>6 DEF Next

\* The initial state has no class, no hook and no call.
LEMMA BytesInit == Init => BytesInv /\ CallKnown
<1> SUFFICES ASSUME Init PROVE BytesInv /\ CallKnown
  OBVIOUS
<1>1. TypeInv
  BY TypeInit
<1>2. g_classes = <<>> /\ op.pc = "idle" /\ op.call = "none"
      /\ \A c \in Classes : hooks[c] = <<>>
  BY DEF Init, Idle
<1>3. RebuildHasItsBytes
  BY <1>2 DEF RebuildHasItsBytes
<1> QED
  BY <1>1, <1>2, <1>3 DEF BytesInv, ShutdownEmptied, CallKnown, InReapply

\* Every step keeps the bytes of every tracked class.
LEMMA BytesNext == BytesInv /\ CallKnown /\ [Next]_vars => BytesInv'
<1> SUFFICES ASSUME BytesInv, CallKnown, [Next]_vars PROVE BytesInv'
  OBVIOUS
<1>1. TypeInv'
  BY TypeNext DEF BytesInv
<1>2. TypeInv /\ TypeOK
  BY DEF BytesInv, TypeInv
<1>3. \A call \in Calls, c \in Classes \union {NoClass} :
          \A s \in Statuses : Returning(Began(call, c), s).pc = "return"
  BY <1>2, BeganType, ReturningType
<1>4. ASSUME NEW t \in Threads, Call(t) PROVE BytesInv'
  <2>1. CASE CheckInitialized(t) \/ GiveUp(t)
    BY <1>1, <2>1, BytesFrame DEF CheckInitialized, GiveUp
  <2>2. CASE JNI2Hook_Init(t)
    <3>1. op'.pc = "return" /\ UNCHANGED <<registry, cache>>
      BY <1>3, <2>2 DEF JNI2Hook_Init, Calls, Statuses
    <3> QED
      BY <1>1, <3>1, BytesFrame DEF InReapply
  <2>3. CASE JNI2Hook_Install(t)
    BY <1>1, <2>3, InstallBytes, ConstantsAssumption DEF JNI2Hook_Install, Kinds
  <2>4. CASE JNI2Hook_InstallAt(t)
    BY <1>1, <2>4, InstallBytes DEF JNI2Hook_InstallAt, Kinds
  <2>5. CASE JNI2Hook_Uninstall(t)
    BY <1>1, <2>5, UninstallBytes DEF JNI2Hook_Uninstall
  <2>6. CASE JNI2Hook_UninstallAt(t)
    BY <1>1, <2>6, UninstallBytes DEF JNI2Hook_UninstallAt
  <2>7. CASE JNI2Hook_Shutdown(t)
    <3>1. op'.pc = "next" /\ UNCHANGED <<registry, cache>>
      BY <2>7 DEF JNI2Hook_Shutdown, Began, Idle
    <3> QED
      BY <1>1, <3>1, BytesFrame DEF InReapply
  <2>8. CASE JNI2Hook_RedefineClass(t)
    <3>1. op'.pc = "return" /\ UNCHANGED <<registry, cache>>
      BY <1>3, <2>8 DEF JNI2Hook_RedefineClass, Calls, Statuses
    <3> QED
      BY <1>1, <3>1, BytesFrame DEF InReapply
  <2> QED
    BY <1>4, <2>1, <2>2, <2>3, <2>4, <2>5, <2>6, <2>7, <2>8 DEF Call
<1>5. CASE Step
  BY <1>1, <1>5, StepBytes
<1>6. CASE UNCHANGED vars
  BY <1>1, <1>6, BytesFrame DEF vars
<1> QED
  BY <1>4, <1>5, <1>6 DEF Next

\* A class with a hook is always tracked and a tracked class is always cached,
\* whatever fails and however the calls interleave: reapply can rebuild every
\* class an uninstall or a shutdown has to restore (jni2hook.c:346).
THEOREM BytesAtHand == Spec => []RebuildHasItsBytes
<1>1. BytesInv => TypeInv /\ RebuildHasItsBytes
  BY DEF BytesInv
<1> QED
  BY BytesInit, BytesNext, CallNext, <1>1, PTL DEF Spec

-----------------------------------------------------------------------------
(* No call runs on a library that has been shut down *)

\* Every step keeps g_initialized while a call is under way, or ends the call.
LEMMA InitializedNext == TypeInv /\ BodyRunsInitialized /\ [Next]_vars => BodyRunsInitialized'
<1> SUFFICES ASSUME TypeInv, BodyRunsInitialized, [Next]_vars PROVE BodyRunsInitialized'
  OBVIOUS
<1>1. op \in OpType
  BY DEF TypeInv, TypeOK
<1>2. \A s : Returning(op, s).pc = "return"
  BY <1>1 DEF Returning, OpType
<1>3. \A call, c, s : Returning(Began(call, c), s).pc = "return"
  BY DEF Began, Returning, Idle
<1>4. ASSUME NEW t \in Threads, Call(t) PROVE BodyRunsInitialized'
  <2>1. CASE CheckInitialized(t) \/ GiveUp(t)
    <3>1. op' = op /\ g_initialized' = g_initialized
      BY <2>1 DEF CheckInitialized, GiveUp, session
    <3> QED
      BY <3>1 DEF BodyRunsInitialized
  <2>2. CASE JNI2Hook_Init(t) \/ JNI2Hook_RedefineClass(t)
    <3>1. \E call, c, s : op' = Returning(Began(call, c), s)
      <4>1. CASE JNI2Hook_Init(t)
        BY <4>1 DEF JNI2Hook_Init
      <4>2. CASE JNI2Hook_RedefineClass(t)
        BY <4>2 DEF JNI2Hook_RedefineClass
      <4> QED
        BY <2>2, <4>1, <4>2
    <3>2. op'.pc = "return"
      BY <1>3, <3>1
    <3> QED
      BY <3>2 DEF BodyRunsInitialized
  <2>3. CASE \/ JNI2Hook_Install(t) \/ JNI2Hook_InstallAt(t) \/ JNI2Hook_Uninstall(t)
             \/ JNI2Hook_UninstallAt(t) \/ JNI2Hook_Shutdown(t)
    <3>1. Enter(t) /\ g_initialized' = g_initialized
      BY <2>3 DEF JNI2Hook_Install, JNI2Hook_InstallAt, JNI2Hook_Uninstall,
                  JNI2Hook_UninstallAt, JNI2Hook_Shutdown, install, Uninstall, session
    <3>2. g_initialized
      BY <3>1 DEF Enter, StillInitialized
    <3> QED
      BY <3>1, <3>2 DEF BodyRunsInitialized
  <2> QED
    BY <1>4, <2>1, <2>2, <2>3 DEF Call
<1>5. CASE Step
  <2>1. CASE ShutdownFinish
    <3>1. op'.pc = "return"
      BY <1>2, <2>1 DEF ShutdownFinish
    <3> QED
      BY <3>1 DEF BodyRunsInitialized
  <2>2. CASE Return
    BY <2>2 DEF Return, Idle, BodyRunsInitialized
  <2>3. CASE ~ShutdownFinish /\ ~Return
    <3>1. op.pc \notin {"idle", "return"}
      BY <1>5, <2>3 DEF Step, ReapplyFails, RedefineRefused, RedefineClasses, RegisterNative,
         ResumeOthers, ResumeRefused, InstallDone, InstallUndo, InstallUndone, PartitionStep,
         PartitionDone, UninstallDone,
         UninstallUndo, ShutdownClass, ShutdownClassDone
    <3>2. g_initialized' = g_initialized
      BY <1>5, <2>3 DEF Step, ReapplyFails, RedefineRefused, RedefineClasses, RegisterNative,
         ResumeOthers, ResumeRefused, InstallDone, InstallUndo, InstallUndone, PartitionStep,
         PartitionDone, UninstallDone,
         UninstallUndo, ShutdownClass, ShutdownClassDone, session
    <3>3. g_initialized
      BY <3>1 DEF BodyRunsInitialized
    <3> QED
      BY <3>2, <3>3 DEF BodyRunsInitialized
  <2> QED
    BY <2>1, <2>2, <2>3
<1>6. CASE UNCHANGED vars
  <2>1. op' = op /\ g_initialized' = g_initialized
    BY <1>6 DEF vars, session
  <2> QED
    BY <2>1 DEF BodyRunsInitialized
<1> QED
  BY <1>4, <1>5, <1>6 DEF Next

\* lock_if_initialized works: a call that read g_initialized before a Shutdown
\* and got g_lock after it never runs its body (jni2hook.c:111).
THEOREM NoBodyAfterShutdown == Spec => []BodyRunsInitialized
<1>1. Init => BodyRunsInitialized
  BY DEF Init, Idle, BodyRunsInitialized
<1> QED
  BY TypeInit, TypeNext, InitializedNext, <1>1, PTL DEF Spec
=============================================================================
