----------------------------- MODULE Trampoline -----------------------------
(***************************************************************************)
(* One trampoline page (trampoline.c) between the VM and a detour: the     *)
(* owner that uninstalls the hook, disarms the page and unloads its code,  *)
(* and Java threads that enter the page, some through call sites the VM    *)
(* no longer updates.  The page is machine code: a thread fetches the test *)
(* of the armed flag, and then the jump or the return, one instruction     *)
(* after the other, while the owner changes the protection of the page.    *)
(***************************************************************************)
EXTENDS Naturals, FiniteSets

CONSTANTS
    Callers,     \* Java threads
    Kinds,       \* descriptor letters of return types under study
    Faults       \* "protect": mprotect may fail

ASSUME TrampolineAssumption ==
    /\ Kinds \subseteq {"V", "Z", "B", "C", "S", "I", "J", "F", "D", "L", "["}
    /\ Faults \subseteq {"protect"}

VARIABLES
    kind,        \* return_kind the page was created with
    returns,     \* return type of the native method bound to the page
    executable,  \* protection of the page: execute-read, else read-write
    armed,       \* the flag at TRAMPOLINE_ARMED
    mapped,      \* the code of the detour is still loaded
    opc,         \* the owner
    cpc,         \* each caller
    late         \* callers that entered the page after the disarm was over

vars == <<kind, returns, executable, armed, mapped, opc, cpc, late>>

\* Registers a return instruction sequence clears.
emit_zero_return(k) ==
    CASE k = "V" -> {}
      [] k \in {"J", "L", "["} -> {"eax", "rax"}
      [] k \in {"F", "D"} -> {"xmm0"}
      [] OTHER -> {"eax", "rax"}

\* Where the VM looks for the result of a native method.
ResultRegister(k) ==
    CASE k = "V" -> {}
      [] k \in {"F", "D"} -> {"xmm0"}
      [] k \in {"J", "L", "["} -> {"rax"}
      [] OTHER -> {"eax"}

\* trampoline_create has armed the page and made it executable.  install gives
\* it the return letter of the hooked method, also for an inserted call, whose
\* native method returns void.
Init ==
    /\ kind \in Kinds
    /\ returns \in {kind, "V"}
    /\ executable = TRUE /\ armed = TRUE /\ mapped = TRUE
    /\ opc = "live"
    /\ cpc = [c \in Callers |-> "outside"]
    /\ late = {}

-----------------------------------------------------------------------------
(* The owner: trampoline_disarm inside JNI2Hook_Uninstall *)

\* protect_page: the protection asked for, or the one it had.
Protections(wanted) == {wanted} \union (IF "protect" \in Faults THEN {executable} ELSE {})

\* protect_page(page, false); a failure ends the disarm and is not reported.
MakeWritable ==
    /\ opc = "live"
    /\ executable' \in Protections(FALSE)
    /\ opc' = IF executable' THEN "returned" ELSE "writable"
    /\ UNCHANGED <<kind, returns, armed, mapped, cpc, late>>

\* Mutant: the flag is not written.
MutantKeepArmed ==
    /\ opc = "writable"
    /\ opc' = "cleared"
    /\ UNCHANGED <<kind, returns, executable, armed, mapped, cpc, late>>

ClearArmed ==
    /\ opc = "writable"
    /\ armed' = FALSE
    /\ opc' = "cleared"
    /\ UNCHANGED <<kind, returns, executable, mapped, cpc, late>>

\* protect_page(page, true); its result is ignored.
MakeExecutable ==
    /\ opc = "cleared"
    /\ executable' \in Protections(TRUE)
    /\ opc' = "returned"
    /\ UNCHANGED <<kind, returns, armed, mapped, cpc, late>>

\* Uninstall has reported OK: the caller may unload itself.
Unload ==
    /\ opc = "returned"
    /\ mapped' = FALSE
    /\ opc' = "unloaded"
    /\ UNCHANGED <<kind, returns, executable, armed, cpc, late>>

-----------------------------------------------------------------------------
(* A caller *)

\* The VM, or a stale call site, transfers control to the page.
EnterPage(c) ==
    /\ cpc[c] = "outside"
    /\ cpc' = [cpc EXCEPT ![c] = "test"]
    /\ late' = IF opc \in {"returned", "unloaded"} THEN late \union {c} ELSE late \ {c}
    /\ UNCHANGED <<kind, returns, executable, armed, mapped, opc>>

\* Mutant: the page jumps without looking at the flag.
MutantTestArmed(c) ==
    /\ cpc[c] = "test"
    /\ cpc' = [cpc EXCEPT ![c] = IF executable THEN "jump" ELSE "fault"]
    /\ UNCHANGED <<kind, returns, executable, armed, mapped, opc, late>>

\* cmp qword [armed], 0 and je: only an executable page can be fetched from.
TestArmed(c) ==
    /\ cpc[c] = "test"
    /\ cpc' = [cpc EXCEPT ![c] = IF ~executable THEN "fault"
                                 ELSE IF armed THEN "jump" ELSE "zero"]
    /\ UNCHANGED <<kind, returns, executable, armed, mapped, opc, late>>

\* jmp [target]
JumpToTarget(c) ==
    /\ cpc[c] = "jump"
    /\ cpc' = [cpc EXCEPT ![c] = IF executable THEN "detour" ELSE "fault"]
    /\ UNCHANGED <<kind, returns, executable, armed, mapped, opc, late>>

ReturnZero(c) ==
    /\ cpc[c] = "zero"
    /\ cpc' = [cpc EXCEPT ![c] = IF executable THEN "outside" ELSE "fault"]
    /\ UNCHANGED <<kind, returns, executable, armed, mapped, opc, late>>

DetourReturns(c) ==
    /\ cpc[c] = "detour"
    /\ cpc' = [cpc EXCEPT ![c] = "outside"]
    /\ UNCHANGED <<kind, returns, executable, armed, mapped, opc, late>>

Owner == MakeWritable \/ ClearArmed \/ MakeExecutable \/ Unload
Caller(c) == TestArmed(c) \/ JumpToTarget(c) \/ ReturnZero(c) \/ DetourReturns(c)

Next == Owner \/ \E c \in Callers : EnterPage(c) \/ Caller(c)

Spec == Init /\ [][Next]_vars

\* A thread in the page keeps executing, and a detour returns.
FairSpec == Spec /\ \A c \in Callers : WF_vars(Caller(c))

-----------------------------------------------------------------------------
(* Properties *)

\* Every variable has the type of what it stands for.
TypeOK ==
    /\ kind \in Kinds /\ returns \in Kinds \union {"V"}
    /\ executable \in BOOLEAN /\ armed \in BOOLEAN /\ mapped \in BOOLEAN
    /\ opc \in {"live", "writable", "cleared", "returned", "unloaded"}
    /\ cpc \in [Callers -> {"outside", "test", "jump", "detour", "zero", "fault"}]
    /\ late \subseteq Callers

\* The register the VM reads the result from is cleared, for every type.
ZeroIsOfTheReturnType ==
    (\E c \in Callers : cpc[c] = "zero") => ResultRegister(returns) \subseteq emit_zero_return(kind)

\* jni2hook.h:86: a call that arrives after the uninstall returns a zero of the
\* method's type: it neither reaches the detour nor faults, and the register the
\* VM reads is one that emit_zero_return has cleared.
LateCallReturnsZero ==
    /\ \A c \in late : cpc[c] \in {"outside", "test", "zero"}
    /\ ZeroIsOfTheReturnType

\* Once the flag is cleared the detour drains: every thread that was in it, or
\* about to jump to it, leaves, and none enters again, so that an owner who
\* waits long enough after the uninstall is alone with its code.
DetourDrains ==
    [](~armed => <>[](\A c \in Callers : cpc[c] \notin {"jump", "detour"}))

-----------------------------------------------------------------------------
(* What the documentation says and the code does not do *)

\* jni2hook.h:88: "A caller may unload itself once uninstall reports OK".
NobodyRunsUnloadedCode ==
    \A c \in Callers : cpc[c] = "detour" => mapped

\* trampoline.h:15: "Stale call sites then reach a no-op instead of a hole."
PageIsNeverAHole ==
    \A c \in Callers : cpc[c] # "fault"

=============================================================================
