-------------------------- MODULE TrampolineProofs --------------------------
(* Proofs about Trampoline, for any number of callers and any return types.  *)
EXTENDS Trampoline, TLAPS

\* Type correctness of the page model, whatever mprotect does.
THEOREM TypeCorrect == Spec => []TypeOK
<1>1. Init => TypeOK
  BY DEF Init, TypeOK
<1>2. TypeOK /\ [Next]_vars => TypeOK'
  <2> SUFFICES ASSUME TypeOK, [Next]_vars PROVE TypeOK'
    OBVIOUS
  <2>1. CASE Owner
    BY <2>1 DEF Owner, MakeWritable, ClearArmed, MakeExecutable, Unload, Protections, TypeOK
  <2>2. ASSUME NEW c \in Callers, EnterPage(c) PROVE TypeOK'
    BY <2>2 DEF EnterPage, TypeOK
  <2>3. ASSUME NEW c \in Callers, Caller(c) PROVE TypeOK'
    BY <2>3 DEF Caller, TestArmed, JumpToTarget, ReturnZero, DetourReturns, TypeOK
  <2>4. CASE UNCHANGED vars
    BY <2>4 DEF vars, TypeOK
  <2> QED
    BY <2>1, <2>2, <2>3, <2>4 DEF Next
<1> QED
  BY <1>1, <1>2, PTL DEF Spec

-----------------------------------------------------------------------------
(* The zero a disarmed page returns *)

\* The page is made for the hooked method; what is bound to it returns either
\* the same type or, for an inserted call, nothing.
BoundAsCreated == kind \in Kinds /\ returns \in {kind, "V"}

\* The two tables agree: what emit_zero_return clears for a type is where the
\* VM reads a result of that type, and a void result is read nowhere.
LEMMA ZeroCoversResult ==
    \A k : ResultRegister(k) \subseteq emit_zero_return(k) /\ ResultRegister("V") = {}
<1>1. ResultRegister("V") = {}
  BY DEF ResultRegister
<1> SUFFICES ASSUME NEW k PROVE ResultRegister(k) \subseteq emit_zero_return(k)
  BY <1>1
<1>2. CASE k = "V"
  BY <1>1, <1>2
<1>3. CASE k \in {"F", "D"}
  BY <1>3 DEF ResultRegister, emit_zero_return
<1>4. CASE k \in {"J", "L", "["}
  BY <1>4 DEF ResultRegister, emit_zero_return
<1>5. CASE k \notin {"V", "F", "D", "J", "L", "["}
  BY <1>5 DEF ResultRegister, emit_zero_return
<1> QED
  BY <1>2, <1>3, <1>4, <1>5

\* A call that a disarmed page answers leaves a zero in the register the VM
\* reads, for every return type, for detours and inserted calls alike.
THEOREM ZeroIsRead == Spec => []ZeroIsOfTheReturnType
<1>1. Init => BoundAsCreated
  BY DEF Init, BoundAsCreated
<1>2. BoundAsCreated /\ [Next]_vars => BoundAsCreated'
  BY DEF BoundAsCreated, vars, Next, Owner, Caller, MakeWritable, ClearArmed, MakeExecutable,
     Unload, EnterPage, TestArmed, JumpToTarget, ReturnZero, DetourReturns
<1>3. BoundAsCreated => ZeroIsOfTheReturnType
  BY ZeroCoversResult DEF BoundAsCreated, ZeroIsOfTheReturnType
<1> QED
  BY <1>1, <1>2, <1>3, PTL DEF Spec

-----------------------------------------------------------------------------
(* Late calls *)

\* What is true of the page once the disarm has returned, when mprotect works:
\* it can be executed and its flag is clear.  With the flag clear a thread that
\* comes late takes the return; with the page executable it can fetch it.
DisarmIsOver ==
    opc \in {"returned", "unloaded"} => executable /\ ~armed

\* Before that the flag is cleared in the step that leaves "writable".
FlagFollowsOwner == opc = "cleared" => ~armed

\* A late caller has only met a page whose disarm is over.
LateMeansOver == late # {} => opc \in {"returned", "unloaded"}

\* A late caller is outside, in front of the test, or at the return.
LateIsHarmless == \A c \in late : cpc[c] \in {"outside", "test", "zero"}

IInv == TypeOK /\ DisarmIsOver /\ FlagFollowsOwner /\ LateMeansOver /\ LateIsHarmless

\* A call that enters the page after the uninstall returned gets a zero: it
\* neither reaches the detour nor faults, provided mprotect does not fail.
THEOREM LateCallIsHarmless ==
    ASSUME "protect" \notin Faults PROVE Spec => []LateCallReturnsZero
<1>1. Init => IInv
  BY DEF Init, IInv, TypeOK, DisarmIsOver, FlagFollowsOwner, LateMeansOver, LateIsHarmless
<1>2. IInv /\ [Next]_vars => IInv'
  <2> SUFFICES ASSUME IInv, [Next]_vars PROVE IInv'
    OBVIOUS
  <2> USE DEF IInv, DisarmIsOver, FlagFollowsOwner, LateMeansOver, LateIsHarmless
  <2>1. CASE Owner
    <3>1. TypeOK'
      BY <2>1 DEF Owner, MakeWritable, ClearArmed, MakeExecutable, Unload, Protections, TypeOK
    <3>2. LateMeansOver' /\ LateIsHarmless'
      BY <2>1 DEF Owner, MakeWritable, ClearArmed, MakeExecutable, Unload, Protections
    <3>3. CASE MakeWritable
      BY <3>1, <3>2, <3>3 DEF MakeWritable, Protections
    <3>4. CASE ClearArmed
      BY <3>1, <3>2, <3>4 DEF ClearArmed
    <3>5. CASE MakeExecutable
      BY <3>1, <3>2, <3>5 DEF MakeExecutable, Protections, TypeOK
    <3>6. CASE Unload
      BY <3>1, <3>2, <3>6 DEF Unload
    <3> QED
      BY <2>1, <3>3, <3>4, <3>5, <3>6 DEF Owner
  <2>2. ASSUME NEW c \in Callers, EnterPage(c) PROVE IInv'
    BY <2>2 DEF EnterPage, TypeOK
  <2>3. ASSUME NEW c \in Callers, Caller(c) PROVE IInv'
    BY <2>3 DEF Caller, TestArmed, JumpToTarget, ReturnZero, DetourReturns, TypeOK
  <2>4. CASE UNCHANGED vars
    BY <2>4 DEF vars, TypeOK
  <2> QED
    BY <2>1, <2>2, <2>3, <2>4 DEF Next
<1>3. IInv /\ ZeroIsOfTheReturnType => LateCallReturnsZero
  BY DEF IInv, LateIsHarmless, LateCallReturnsZero
<1> QED
  BY <1>1, <1>2, <1>3, ZeroIsRead, PTL DEF Spec

=============================================================================
