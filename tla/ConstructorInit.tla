--------------------------- MODULE ConstructorInit ---------------------------
(***************************************************************************)
(* constructor_init_offset: a data flow over the body of a constructor     *)
(* that looks for the invokespecial that initialises "this".  The work     *)
(* list is a ring of one slot per instruction; an instruction that is in   *)
(* it already is not entered again.                                        *)
(*                                                                         *)
(* A turn of the loop takes an instruction from the ring and executes it   *)
(* on its frame; each call of propagate that follows is a step.            *)
(* An instruction is what execute does to the operand stack, and where it  *)
(* goes.  Offsets are instruction numbers; a target of 0 is an offset at   *)
(* which no instruction starts.                                            *)
(***************************************************************************)
EXTENDS Naturals, FiniteSets, SequencesExt

CONSTANTS Bodies,      \* [code, max_locals, max_stack, handlers]
          AllocFails,  \* whether malloc may fail
          PathBound    \* steps of an execution the reference looks at

\* The effects execute tells apart: slots popped and pushed, the call of a
\* constructor with "a" argument slots ("b" is 0 when it names its class by the
\* constant of this_class or super_class, 1 by another constant), loads and
\* stores with and without a reference, the dups, swap, checkcast, no effect,
\* and what it does not follow (jsr and ret).
Effects == {"effect", "init", "load", "aload", "store", "astore", "dup", "swap", "keep", "none", "unknown"}

\* Where an instruction goes, "end" being what execute calls terminal.
Flows == {"next", "branch", "goto", "switch", "end"}

ASSUME BodiesAssumption ==
    /\ AllocFails \in BOOLEAN /\ PathBound \in Nat
    /\ \A b \in Bodies :
         /\ DOMAIN b = {"code", "max_locals", "max_stack", "handlers"}
         /\ b.code \in Seq([op : Effects, a : Nat, b : Nat, flow : Flows, targets : Seq(Nat)])
         /\ \A i \in DOMAIN b.code :
              /\ Range(b.code[i].targets) \subseteq 0..Len(b.code)
              /\ b.code[i].op \in {"aload", "astore"} => b.code[i].b = 1
         /\ b.max_locals \in Nat /\ b.max_stack \in Nat

VARIABLES body, states, queue, head, tail, pending,
          index,   \* the instruction of this turn
          work,    \* the frame it leaves
          rest,    \* the targets of the calls of propagate still to come
          found, ambiguous, result,
          lost     \* history: an allocation of merge_state has failed

ring == <<queue, head, tail, pending>>
turn == <<index, work, rest>>
vars == <<body, states, ring, turn, found, ambiguous, result, lost>>

Results == {"scan", "FOUND", "MISSING", "AMBIGUOUS"}

-----------------------------------------------------------------------------
(* The operand stack *)

TRACE_THIS == {"this"}
TRACE_OTHER == {"other"}
Values == {TRACE_THIS, TRACE_OTHER, TRACE_THIS \union TRACE_OTHER}

Pop(s, n) == SubSeq(s, 1, Len(s) - n)
Others(n) == [i \in 1..n |-> TRACE_OTHER]

\* What pop_slots, push_slot, load_local, store_local and duplicate_slots
\* require of the frame.
CanExecute(b, node, w) ==
    LET depth == Len(w.stack) IN
    CASE node.op = "effect" -> /\ node.a <= depth
                               /\ depth - node.a + node.b <= b.max_stack
      [] node.op = "init"   -> node.a + 1 <= depth
      [] node.op \in {"load", "aload"}   -> /\ node.a + node.b <= b.max_locals
                                            /\ depth + node.b <= b.max_stack
      [] node.op \in {"store", "astore"} -> /\ node.a + node.b <= b.max_locals
                                            /\ node.b <= depth
      [] node.op = "dup"    -> node.a + node.b <= depth /\ depth + node.a <= b.max_stack
      [] node.op = "swap"   -> depth >= 2
      [] node.op = "keep"   -> depth >= 1
      [] node.op = "none"   -> TRUE
      [] OTHER              -> FALSE

\* execute, on a frame that meets the requirements.
execute(node, w) ==
    LET s == w.stack
        n == Len(s)
        stored(v) == [i \in DOMAIN w.locals |->
                         IF i \in node.a + 1 .. node.a + node.b THEN v ELSE w.locals[i]]
    IN
    CASE node.op = "effect" -> [w EXCEPT !.stack = Pop(s, node.a) \o Others(node.b)]
      [] node.op = "init"   -> [w EXCEPT !.stack = Pop(s, node.a + 1)]
      [] node.op = "load"   -> [w EXCEPT !.stack = s \o Others(node.b)]
      [] node.op = "aload"  -> [w EXCEPT !.stack = Append(s, w.locals[node.a + 1])]
      [] node.op = "store"  -> [locals |-> stored(TRACE_OTHER), stack |-> Pop(s, node.b)]
      [] node.op = "astore" -> [locals |-> stored(s[n]), stack |-> Pop(s, 1)]
      [] node.op = "dup"    ->
            [w EXCEPT !.stack = Pop(s, node.a + node.b) \o SubSeq(s, n - node.a + 1, n)
                                    \o SubSeq(s, n - node.a - node.b + 1, n)]
      [] node.op = "swap"   -> [w EXCEPT !.stack = Pop(s, 2) \o <<s[n], s[n - 1]>>]
      [] OTHER              -> w

\* Mutant: the arguments above the receiver are not counted.
MutantIsInitializingCall(node, w) ==
    /\ node.op = "init" /\ node.b = 0
    /\ Len(w.stack) > node.a
    /\ w.stack[Len(w.stack)] = TRACE_THIS

\* The call names its class by the index of this_class or super_class, and its
\* receiver is "this" on every path that has reached it.
is_initializing_call(node, w) ==
    /\ node.op = "init" /\ node.b = 0
    /\ Len(w.stack) > node.a
    /\ w.stack[Len(w.stack) - node.a] = TRACE_THIS

-----------------------------------------------------------------------------
(* The work list *)

Unreached == [reached |-> FALSE, queued |-> FALSE, locals |-> <<>>, stack |-> <<>>]
Entered(b) == [locals |-> [i \in 1..b.max_locals |-> IF i = 1 THEN TRACE_THIS ELSE TRACE_OTHER],
               stack |-> <<>>]

Joined(s, t) == [i \in DOMAIN s |-> s[i] \union t[i]]

\* merge_state: a frame of another depth is dropped.
merge_state(state, w) ==
    IF ~state.reached
    THEN [state EXCEPT !.reached = TRUE, !.locals = w.locals, !.stack = w.stack]
    ELSE IF Len(state.stack) # Len(w.stack)
    THEN state
    ELSE [state EXCEPT !.locals = Joined(@, w.locals), !.stack = Joined(@, w.stack)]

\* What propagate does with a frame that changes nothing, or changes an
\* instruction that is in the ring already.
Merge(target) ==
    /\ states' = [states EXCEPT ![target] = merge_state(@, work)]
    /\ UNCHANGED ring

Enqueue(target) ==
    /\ states' = [states EXCEPT ![target] = [merge_state(@, work) EXCEPT !.queued = TRUE]]
    /\ queue' = [queue EXCEPT ![tail] = target]
    /\ tail' = (tail + 1) % Len(body.code)
    /\ pending' = pending + 1
    /\ UNCHANGED head

Changes(target) == merge_state(states[target], work) # states[target]

\* Mutant: the mark that an instruction is in the ring is not looked at.
MutantPropagate(target) ==
    IF Changes(target) THEN Enqueue(target) ELSE Merge(target)

\* Mutant: an instruction is visited once.
MutantPropagateOnce(target) ==
    IF states[target].reached THEN Merge(target) ELSE Enqueue(target)

\* propagate: enter the target into the ring if its frame has changed and it
\* is not there yet.
propagate(target) ==
    IF Changes(target) /\ ~states[target].queued THEN Enqueue(target) ELSE Merge(target)

\* Mutant: a conditional branch is always taken.
MutantSuccessors(code, i) ==
    IF code[i].flow # "next" THEN code[i].targets
    ELSE IF i < Len(code) THEN <<i + 1>> ELSE <<>>

\* The targets of an instruction in the order of the loop.
Successors(code, i) ==
    LET next == IF i < Len(code) THEN <<i + 1>> ELSE <<>> IN
    CASE code[i].flow = "branch" -> code[i].targets \o next
      [] code[i].flow \in {"goto", "switch"} -> code[i].targets
      [] code[i].flow = "next" -> next
      [] OTHER -> <<>>

-----------------------------------------------------------------------------
(* constructor_init_offset *)

\* Guards and allocations first, then the entry frame is queued.
Init ==
    /\ body \in Bodies
    /\ found = 0 /\ ambiguous = FALSE /\ head = 0
    /\ index = 0 /\ work = Entered(body) /\ rest = <<>>
    /\ LET n == Len(body.code) IN
       \/ /\ n = 0 \/ body.max_locals = 0 \/ AllocFails
          /\ result = "MISSING" /\ lost = (n # 0 /\ body.max_locals # 0)
          /\ states = <<>> /\ queue = <<>> /\ tail = 0 /\ pending = 0
       \/ /\ n # 0 /\ body.max_locals # 0
          /\ result = "scan" /\ lost = FALSE
          /\ states = [i \in 1..n |-> IF i = 1
                          THEN [merge_state(Unreached, Entered(body)) EXCEPT !.queued = TRUE]
                          ELSE Unreached]
          /\ queue = [i \in 0..n - 1 |-> IF i = 0 THEN 1 ELSE 0]
          /\ tail = 1 % n /\ pending = 1

\* One turn of the loop takes the instruction at the head of the ring.
Current == queue[head]
Frame(i) == [locals |-> states[i].locals, stack |-> states[i].stack]

Turn ==
    /\ result = "scan" /\ rest = <<>> /\ pending # 0
    /\ head' = (head + 1) % Len(body.code)
    /\ pending' = pending - 1
    /\ states' = [states EXCEPT ![Current].queued = FALSE]
    /\ UNCHANGED <<body, queue, tail, result, lost>>

\* A second, different point makes the answer ambiguous.
Report(at) ==
    /\ found' = IF found = 0 THEN at ELSE found
    /\ ambiguous' = (ambiguous \/ found \notin {0, at})

\* The call that initialises "this": nothing behind it is looked at.
VisitInit ==
    /\ Turn
    /\ is_initializing_call(body.code[Current], Frame(Current))
    /\ Report(Current + 1)
    /\ UNCHANGED turn

\* The instruction cannot be executed on this frame: the path is given up.
VisitStop ==
    /\ Turn
    /\ ~is_initializing_call(body.code[Current], Frame(Current))
    /\ ~CanExecute(body, body.code[Current], Frame(Current))
    /\ UNCHANGED <<turn, found, ambiguous>>

\* The instruction is executed; its frame will go to every successor.
VisitNext ==
    /\ Turn
    /\ ~is_initializing_call(body.code[Current], Frame(Current))
    /\ CanExecute(body, body.code[Current], Frame(Current))
    /\ index' = Current
    /\ work' = execute(body.code[Current], Frame(Current))
    /\ rest' = Successors(body.code, Current)
    /\ UNCHANGED <<found, ambiguous>>

\* The frame goes to the next successor.  instruction_index_at leaves out a
\* target that is no instruction; one reached for the first time needs memory,
\* without which merge_state reports no change.
Propagate ==
    /\ result = "scan" /\ rest # <<>>
    /\ rest' = Tail(rest)
    /\ LET target == Head(rest) IN
       \/ target = 0 /\ UNCHANGED <<states, ring, lost>>
       \/ target # 0 /\ propagate(target) /\ UNCHANGED lost
       \/ /\ target # 0 /\ AllocFails /\ ~states[target].reached
          /\ lost' = TRUE
          /\ UNCHANGED <<states, ring>>
    /\ UNCHANGED <<body, index, work, found, ambiguous, result>>

Finish ==
    /\ result = "scan" /\ rest = <<>> /\ pending = 0
    /\ result' = IF ambiguous THEN "AMBIGUOUS" ELSE IF found = 0 THEN "MISSING" ELSE "FOUND"
    /\ UNCHANGED <<body, states, ring, turn, found, ambiguous, lost>>

Loop == VisitInit \/ VisitStop \/ VisitNext \/ Propagate \/ Finish

Done == result # "scan" /\ UNCHANGED vars

Next == Loop \/ Done

Spec == Init /\ [][Next]_vars

-----------------------------------------------------------------------------
(* The reference: executions of the constructor, one path at a time *)

\* The VM enters the method with "this" in the first local variable.
Begin(b) == [at |-> 1, w |-> Entered(b)]

\* invokespecial initialises the receiver below its arguments, whichever
\* constant names the class.
TakesThis(node, w) ==
    node.op = "init" /\ w.stack[Len(w.stack) - node.a] = TRACE_THIS

Runs(b, c) == CanExecute(b, b.code[c.at], c.w)

\* Where an execution may be after the instruction it is at; a thrown
\* exception goes to the handler with only itself on the stack.
Steps(b, c, handled) ==
    LET node == b.code[c.at]
        ends == {t \in Range(node.targets) : t # 0}
                    \union (IF node.flow \in {"next", "branch"} /\ c.at < Len(b.code)
                            THEN {c.at + 1} ELSE {})
        catches == {h \in b.handlers : handled /\ h.from <= c.at /\ c.at < h.to}
    IN
    IF ~Runs(b, c) \/ TakesThis(node, c.w) THEN {}
    ELSE {[at |-> t, w |-> execute(node, c.w)] : t \in ends}
         \union {[at |-> h.pc, w |-> [c.w EXCEPT !.stack = <<TRACE_OTHER>>]] : h \in catches}

\* Everything an execution of at most PathBound instructions can be in.
Reachable(b, handled) ==
    LET R[k \in 0..PathBound] ==
            IF k = 0 THEN [all |-> {Begin(b)}, new |-> {Begin(b)}]
            ELSE LET before == R[k - 1]
                     new == UNION {Steps(b, c, handled) : c \in before.new} \ before.all
                 IN [all |-> before.all \union new, new |-> new]
    IN R[PathBound].all

\* The points right behind the calls that initialise "this" on some path.
InitPoints(b, handled) ==
    {c.at + 1 : c \in {d \in Reachable(b, handled) :
                           Runs(b, d) /\ TakesThis(b.code[d.at], d.w)}}

\* What the VM's verifier demands, as far as the scan depends on it: every
\* path reaches an instruction with the same depth and with the same receiver
\* of an initialising call, can execute it, and does not leave the code.
Verifiable(b) ==
    /\ b.code # <<>> /\ b.max_locals # 0
    /\ LET reach == Reachable(b, FALSE) IN
       /\ \A c \in reach :
            /\ Runs(b, c)
            /\ 0 \notin Range(b.code[c.at].targets)
            /\ b.code[c.at].flow \in {"next", "branch"} => c.at < Len(b.code)
       /\ \A i \in DOMAIN b.code :
            LET frames == {c.w.stack : c \in {d \in reach : d.at = i}} IN
            /\ Cardinality({Len(f) : f \in frames}) <= 1
            /\ b.code[i].op = "init" =>
                 Cardinality({f[Len(f) - b.code[i].a] : f \in frames}) <= 1

\* What compilers write: one constant per class, so that two indices are
\* different classes.
OneConstantPerClass(b) == \A i \in DOMAIN b.code : b.code[i].op = "init" => b.code[i].b = 0

Answer(points) ==
    CASE points = {} -> "MISSING"
      [] \E p \in points : points = {p} -> "FOUND"
      [] OTHER -> "AMBIGUOUS"

-----------------------------------------------------------------------------
(* Properties *)

\* The ring of constructor_init_offset holds exactly the instructions marked
\* as queued, each once, between head and tail, so that a ring of one slot
\* per instruction never overflows.
QueueHoldsTheMarked ==
    result = "scan" =>
        LET n == Len(body.code)
            waiting == [i \in 1..pending |-> queue[(head + i - 1) % n]]
        IN
        /\ pending \in 0..n /\ head \in 0..n - 1
        /\ tail = (head + pending) % n
        /\ \A i, j \in 1..pending : waiting[i] = waiting[j] => i = j
        /\ Range(waiting) = {i \in 1..n : states[i].queued}
        /\ \A i \in 1..n : Range(states[i].locals) \union Range(states[i].stack) \subseteq Values

\* Instruction i has been visited with the frame it has now: the call that
\* initialises "this" is reported, and any other has brought what it makes of
\* the frame to all its successors.
Settled(i) ==
    LET node == body.code[i] IN
    IF is_initializing_call(node, Frame(i))
    THEN found = i + 1 \/ ambiguous
    ELSE CanExecute(body, node, Frame(i)) =>
            \A t \in Range(Successors(body.code, i)) \ {0} :
                /\ states[t].reached
                /\ merge_state(states[t], execute(node, Frame(i))) = states[t]

\* The loop of constructor_init_offset ends in a fixed point of the data flow,
\* although an instruction that is in the ring is not entered again and one
\* may be its own successor: unless memory ran out, there is no instruction
\* left whose frame has changed since it was visited.
EndsInAFixedPoint ==
    (result # "scan" /\ ~lost) => \A i \in DOMAIN states : states[i].reached => Settled(i)

\* On a body the verifier accepts, with one constant per class, the answer of
\* constructor_init_offset is the one all executions agree on, and the offset
\* is the point behind the only call that initialises "this".
AgreesWithPaths ==
    (result # "scan" /\ ~lost /\ Verifiable(body) /\ OneConstantPerClass(body)) =>
        LET points == InitPoints(body, FALSE) IN
        result = Answer(points) /\ (result = "FOUND" => points = {found})

\* Whatever the body and however often memory runs out, a reported point lies
\* behind a call that initialises "this" on a path from the entry: a call on
\* a fresh instance is never taken for it.
FoundIsReal ==
    result = "FOUND" => found \in InitPoints(body, FALSE)

\* "Different paths reach a different initialising call" makes the answer
\* ambiguous, the paths through an exception handler included.
HookFiresOnEveryPath ==
    result = "FOUND" => InitPoints(body, TRUE) = {found}

=============================================================================
