----------------------------- MODULE CodeEditor -----------------------------
(***************************************************************************)
(* The rewriting of one method body by the inserted calls of its hooks:    *)
(* reapply (jni2hook.c) sorts the hooks and hands them one by one to       *)
(* class_transform_insert_call, which loads the Code attribute into a code *)
(* editor (code_editor.c, instruction.c), inserts a call and stores it.    *)
(*                                                                         *)
(* A stored body is the Code attribute: jumps and frames are deltas, every *)
(* other table holds offsets.  A loaded body holds offsets throughout, and *)
(* instruction indices while a call is being inserted.                     *)
(***************************************************************************)
EXTENDS Integers, Sequences, SequencesExt

CONSTANTS
    Bodies,      \* Code attributes as they came from the VM
    HookLists,   \* offsets the hooks of the method were installed at, in order
    MaxU2        \* largest u2, also JVM_MAX_CODE_LENGTH: 65535, scaled down

ASSUME CodeEditorAssumption ==
    /\ MaxU2 \in Nat /\ MaxU2 % 2 = 1
    /\ HookLists \subseteq Seq(Nat)

VARIABLES
    cached,      \* the body in the cached class
    hooks,       \* the hooks the rebuild in progress, or the last one, is for
    stored,      \* the Code attribute of the class file being rebuilt
    editor,      \* the code_editor of class_transform_insert_call
    todo,        \* hooks that wait for their insertion, sorted
    pc,
    status       \* what the last rebuild ended with

vars == <<cached, hooks, stored, editor, todo, pc, status>>

NoEditor == <<>>

U2(i) == i % (MaxU2 + 1)
MaxInt16 == MaxU2 \div 2
MinInt16 == -MaxInt16 - 1

-----------------------------------------------------------------------------
(* instruction.c.  An instruction is [id, hook, kind, len, refs]: "id" and   *)
(* "hook" say which instruction of the cached body it is (0: none), and      *)
(* which hook has inserted it; refs are its jump targets, the default of a   *)
(* switch first.                                                             *)

IsSwitch(node) == node.kind \in {"tableswitch", "lookupswitch"}

instruction_switch_entries(node) == Len(node.refs) - 1

SwitchOperands(node) ==
    IF node.kind = "tableswitch" THEN 12 + 4 * instruction_switch_entries(node)
                                 ELSE 8 + 8 * instruction_switch_entries(node)

\* Mutant: the opcode is not counted.
MutantLengthAt(node, offset) ==
    IF IsSwitch(node) THEN 1 + ((4 - (offset % 4)) % 4) + SwitchOperands(node) ELSE node.len

instruction_length_at(node, offset) ==
    IF IsSwitch(node) THEN 1 + ((4 - ((offset + 1) % 4)) % 4) + SwitchOperands(node) ELSE node.len

\* The bytes an instruction takes where it is read or written: the operands of
\* a switch start at the next multiple of four.
BytesAt(node, offset) ==
    IF IsSwitch(node)
    THEN LET operands == CHOOSE o \in offset + 1 .. offset + 4 : o % 4 = 0
         IN  operands - offset + SwitchOperands(node)
    ELSE node.len

\* Where the instructions start; the last position is the code length.
Layout(nodes) ==
    LET at[i \in 1..Len(nodes) + 1] ==
            IF i = 1 THEN 0 ELSE at[i - 1] + BytesAt(nodes[i - 1], at[i - 1])
    IN  at

\* Targets are deltas in the bytes and offsets in the list.
Retarget(node, by) == [node EXCEPT !.refs = [k \in DOMAIN @ |-> @[k] + by]]

instruction_list_parse(code) ==
    LET at == Layout(code)
    IN  [nodes |-> [i \in 1..Len(code) |-> Retarget(code[i], at[i])],
         offsets |-> SubSeq(at, 1, Len(code)), code_length |-> at[Len(code) + 1]]

Deltas(nodes) == [i \in 1..Len(nodes) |-> Retarget(nodes[i], -Layout(nodes)[i])]

\* Mutant: the range of a branch is not looked at, its delta is cut to 16 bits.
MutantEncodeStatus(nodes) ==
    IF Layout(nodes)[Len(nodes) + 1] > MaxU2 THEN "CODE_TOO_LARGE" ELSE "OK"

EncodeStatus(nodes) ==
    IF \E i \in 1..Len(nodes) : nodes[i].kind = "branch"
                                /\ Deltas(nodes)[i].refs[1] \notin MinInt16..MaxInt16
    THEN "BRANCH_RANGE"
    ELSE IF Layout(nodes)[Len(nodes) + 1] > MaxU2 THEN "CODE_TOO_LARGE" ELSE "OK"

\* A plain branch has two bytes for its delta, the others have four.
instruction_list_encode(nodes) ==
    [i \in 1..Len(nodes) |->
        IF nodes[i].kind = "branch"
        THEN [Deltas(nodes)[i] EXCEPT !.refs = [k \in DOMAIN @ |-> U2(@[k] - MinInt16) + MinInt16]]
        ELSE Deltas(nodes)[i]]

-----------------------------------------------------------------------------
(* code_editor_load and code_editor_store *)

stack_map_table_parse(frames) ==
    LET at[i \in 1..Len(frames)] ==
            IF i = 1 THEN frames[i].at ELSE at[i - 1] + frames[i].at + 1
    IN  [i \in 1..Len(frames) |-> [frames[i] EXCEPT !.at = at[i]]]

\* Mutant: every frame is one delta past the frame before it.
MutantFrameDeltas(frames) ==
    [i \in 1..Len(frames) |->
        [frames[i] EXCEPT !.at = IF i = 1 THEN @ ELSE @ - frames[i - 1].at]]

FrameDeltas(frames) ==
    [i \in 1..Len(frames) |->
        [frames[i] EXCEPT !.at = IF i = 1 THEN @ ELSE @ - frames[i - 1].at - 1]]

stack_map_table_write(frames) ==
    [i \in 1..Len(frames) |->
        [FrameDeltas(frames)[i] EXCEPT !.uninit = [k \in DOMAIN @ |-> U2(@[k])]]]

\* A span of a type annotation is kept as its two ends.
code_editor_load(body) ==
    instruction_list_parse(body.code) @@
    [max_stack |-> body.max_stack, exceptions |-> body.exceptions, lines |-> body.lines,
     locals |-> body.locals, frames |-> stack_map_table_parse(body.frames),
     marks |-> body.marks,
     spans |-> [i \in DOMAIN body.spans |->
                   [start |-> body.spans[i].start, end |-> body.spans[i].start + body.spans[i].length]]]

StoreStatus(e) ==
    IF EncodeStatus(e.nodes) # "OK" THEN EncodeStatus(e.nodes)
    ELSE IF \E i \in DOMAIN e.frames : FrameDeltas(e.frames)[i].at \notin 0..MaxU2
    THEN "LIMIT_EXCEEDED" ELSE "OK"

code_editor_store(e) ==
    [code |-> instruction_list_encode(e.nodes), max_stack |-> e.max_stack,
     exceptions |-> e.exceptions, lines |-> e.lines, locals |-> e.locals,
     frames |-> stack_map_table_write(e.frames), marks |-> e.marks,
     spans |-> [i \in DOMAIN e.spans |->
                   [start |-> e.spans[i].start, length |-> U2(e.spans[i].end - e.spans[i].start)]]]

-----------------------------------------------------------------------------
(* code_editor_insert *)

\* Indices count from 0; the offset past the end has index count.
offset_to_index(e, offset) ==
    IF offset = e.code_length THEN Len(e.nodes)
    ELSE IF \E i \in 1..Len(e.nodes) : e.offsets[i] = offset
    THEN (CHOOSE i \in 1..Len(e.nodes) : e.offsets[i] = offset) - 1
    ELSE -1

index_to_offset(e, index) ==
    IF index >= Len(e.nodes) THEN e.code_length ELSE e.offsets[index + 1]

\* Every offset the Code attribute stores.
References(e) ==
    UNION {Range(n.refs) : n \in Range(e.nodes)}
    \union UNION {{x.start, x.end, x.handler} : x \in Range(e.exceptions)}
    \union Range(e.lines)
    \union UNION {{v.start, v.start + v.length} : v \in Range(e.locals)}
    \union UNION {{f.at} \union Range(f.uninit) : f \in Range(e.frames)}
    \union Range(e.marks)
    \union UNION {{s.start, s.end} : s \in Range(e.spans)}

\* They go through "position" when they name a place in the code and through
\* "instruction" when they name an instruction.  Tables of u2 are cut to sixteen
\* bits; a local is a span, both of its ends move.
map_all_references(e, position, instruction) ==
    LET Local(v) == [start |-> U2(position[v.start]),
                     length |-> U2(position[v.start + v.length] - position[v.start])]
    IN  [e EXCEPT
          !.nodes = [i \in DOMAIN @ |->
              [@[i] EXCEPT !.refs = [k \in DOMAIN e.nodes[i].refs |-> position[e.nodes[i].refs[k]]]]],
          !.exceptions = [i \in DOMAIN @ |-> [f \in {"start", "end", "handler"} |-> U2(position[@[i][f]])]],
          !.lines = [i \in DOMAIN @ |-> U2(position[@[i]])],
          !.locals = [i \in DOMAIN @ |-> Local(@[i])],
          !.frames = [i \in DOMAIN @ |->
              [at |-> position[@[i].at],
               uninit |-> [k \in DOMAIN @[i].uninit |-> instruction[@[i].uninit[k]]]]],
          !.marks = [i \in DOMAIN @ |-> instruction[@[i]]],
          !.spans = [i \in DOMAIN @ |-> [start |-> position[@[i].start], end |-> position[@[i].end]]]]

\* Mutant: a reference to the insertion point moves with the instruction.
MutantShiftAfter(index, at, count) == IF index >= at THEN index + count ELSE index
shift_after(index, at, count) == IF index > at THEN index + count ELSE index

shift_with(index, at, count) == IF index >= at THEN index + count ELSE index

InsertStatus(e, offset) ==
    IF offset_to_index(e, offset) < 0 THEN "BAD_OFFSET"
    ELSE IF e.max_stack + 1 > MaxU2 THEN "LIMIT_EXCEEDED"
    ELSE IF \E r \in References(e) : offset_to_index(e, r) < 0 THEN "BAD_OFFSET"
    ELSE "OK"

\* References become indices, the nodes move, the indices follow.
Inserted(e, offset, nodes) ==
    LET at == offset_to_index(e, offset)
        index == [o \in References(e) |-> offset_to_index(e, o)]
        indexed == map_all_references(e, index, index)
        after == [i \in References(indexed) |-> shift_after(i, at, Len(nodes))]
        with == [i \in References(indexed) |-> shift_with(i, at, Len(nodes))]
        Grown(s, new) == SubSeq(s, 1, at) \o new \o SubSeq(s, at + 1, Len(s))
    IN  [map_all_references(indexed, after, with) EXCEPT
            !.nodes = Grown(@, nodes), !.offsets = Grown(@, [i \in 1..Len(nodes) |-> 0])]

\* type_annotation_flush writes the annotations as u2.
FlushStatus(e) ==
    IF \/ \E i \in DOMAIN e.marks : e.marks[i] > MaxU2
       \/ \E i \in DOMAIN e.spans : e.spans[i].end > MaxU2
    THEN "CODE_TOO_LARGE" ELSE "OK"

-----------------------------------------------------------------------------
(* The rebuild of the body by reapply *)

Init ==
    /\ cached \in Bodies
    /\ hooks = <<>> /\ todo = <<>>
    /\ stored = cached
    /\ editor = NoEditor
    /\ pc = "idle"
    /\ status = "OK"

\* Mutant: ascending offsets.
MutantCompare(i, j, hs) == hs[i] < hs[j] \/ (hs[i] = hs[j] /\ i < j)

\* Inserts of one method go from its end to its start; the sort is stable.
compare_insert_entries(i, j, hs) == hs[i] > hs[j] \/ (hs[i] = hs[j] /\ i < j)

\* reapply starts from the cached bytes.
reapply(hs) ==
    /\ pc = "idle"
    /\ hooks' = hs
    /\ todo' = SetToSortSeq(DOMAIN hs, LAMBDA i, j : compare_insert_entries(i, j, hs))
    /\ stored' = cached
    /\ pc' = "load"
    /\ UNCHANGED <<cached, editor, status>>

\* The class file is given up with every insertion made so far.
Fail(why) ==
    /\ status' = why
    /\ stored' = cached /\ editor' = NoEditor /\ todo' = <<>>
    /\ pc' = "idle"
    /\ UNCHANGED <<cached, hooks>>

\* The rest of reapply is not about the body.
Finish ==
    /\ pc = "load" /\ todo = <<>>
    /\ status' = "OK"
    /\ pc' = "idle"
    /\ UNCHANGED <<cached, hooks, stored, editor, todo>>

Load ==
    /\ pc = "load" /\ todo # <<>>
    /\ editor' = code_editor_load(stored)
    /\ pc' = "insert"
    /\ UNCHANGED <<cached, hooks, stored, todo, status>>

\* constructor_init_offset: the end of the one instruction that initialises
\* this, or nothing when there is none or several.
SafeOffset(e) ==
    LET i == CHOOSE i \in 1..Len(e.nodes) : e.nodes[i].id = cached.init
    IN  e.offsets[i] + instruction_length_at(e.nodes[i], e.offsets[i])

AtOffset(e, offset) ==
    IF cached.init > 0 /\ offset < SafeOffset(e) THEN SafeOffset(e) ELSE offset

\* aload_0 and invokespecial, or invokestatic alone.
CallNodes(h) ==
    LET Node(l) == [id |-> 0, hook |-> h, kind |-> "plain", len |-> l, refs |-> <<>>]
    IN  IF cached.static THEN <<Node(3)>> ELSE <<Node(1), Node(3)>>

\* init = -1: a constructor without one safe offset.
class_transform_insert_call ==
    /\ pc = "insert"
    /\ LET offset == AtOffset(editor, hooks[Head(todo)])
       IN  IF cached.init < 0 THEN Fail("AMBIGUOUS_INIT")
           ELSE IF InsertStatus(editor, offset) # "OK" THEN Fail(InsertStatus(editor, offset))
           ELSE /\ editor' = Inserted(editor, offset, CallNodes(Head(todo)))
                /\ pc' = "recompute"
                /\ UNCHANGED <<cached, hooks, stored, todo, status>>

\* One pass of the loop; the pass that changes nothing is the last.
instruction_list_recompute_offsets ==
    /\ pc = "recompute"
    /\ LET n == Len(editor.nodes)
           at[i \in 1..n + 1] ==
               IF i = 1 THEN 0 ELSE at[i - 1] + instruction_length_at(editor.nodes[i - 1], at[i - 1])
       IN  editor' = [editor EXCEPT !.offsets = SubSeq(at, 1, n), !.code_length = at[n + 1]]
    /\ pc' = IF editor.offsets = editor'.offsets THEN "remap" ELSE "recompute"
    /\ UNCHANGED <<cached, hooks, stored, todo, status>>

\* The indices become offsets again and the annotations are written.
Remap ==
    /\ pc = "remap"
    /\ LET offset == [i \in References(editor) |-> index_to_offset(editor, i)]
           e == map_all_references(editor, offset, offset)
       IN  IF FlushStatus(e) # "OK" THEN Fail(FlushStatus(e))
           ELSE /\ editor' = [e EXCEPT !.max_stack = @ + 1]
                /\ pc' = "store"
                /\ UNCHANGED <<cached, hooks, stored, todo, status>>

Store ==
    /\ pc = "store"
    /\ IF StoreStatus(editor) # "OK" THEN Fail(StoreStatus(editor))
       ELSE /\ stored' = code_editor_store(editor) @@ [static |-> cached.static, init |-> cached.init]
            /\ editor' = NoEditor
            /\ todo' = Tail(todo)
            /\ pc' = "load"
            /\ UNCHANGED <<cached, hooks, status>>

\* Each of these steps allocates, and a Code attribute may hold a type annotation
\* the library does not know (UNSUPPORTED, with the same effect).
OutOfMemory == pc # "idle" /\ Fail("OUT_OF_MEMORY")

Step ==
    \/ Finish \/ Load
    \/ class_transform_insert_call
    \/ instruction_list_recompute_offsets
    \/ Remap \/ Store

Next == (\E hs \in HookLists : reapply(hs)) \/ Step \/ OutOfMemory

Spec == Init /\ [][Next]_vars

-----------------------------------------------------------------------------
(* Properties.  They compare the body being rebuilt with the cached one, both  *)
(* read back from their stored form, between two insertions.                   *)

Between == pc \in {"idle", "load"}
Now == code_editor_load(stored)
Was == code_editor_load(cached)

\* Every number fits the field of the Code attribute it is written to.
TypeOK ==
    /\ pc \in {"idle", "load", "insert", "recompute", "remap", "store"}
    /\ status \in {"OK", "BAD_OFFSET", "LIMIT_EXCEEDED", "BRANCH_RANGE", "CODE_TOO_LARGE",
                   "AMBIGUOUS_INIT", "OUT_OF_MEMORY"}
    /\ hooks \in Seq(Nat) /\ todo \in Seq(DOMAIN hooks)
    /\ stored.max_stack \in 0..MaxU2
    /\ \A i \in DOMAIN stored.code : stored.code[i].kind = "branch" =>
          stored.code[i].refs[1] \in MinInt16..MaxInt16
    /\ UNION {{x.start, x.end, x.handler} : x \in Range(stored.exceptions)} \subseteq 0..MaxU2
    /\ editor # NoEditor <=> pc \in {"insert", "recompute", "remap", "store"}

\* The instruction of the cached body that runs next when control is at this
\* offset, past calls that were inserted; 0 when no instruction starts there.
Place(e, offset) ==
    LET i == offset_to_index(e, offset)
        left == {e.nodes[j].id : j \in i + 1..Len(e.nodes)} \ {0}
    IN  IF i < 0 THEN 0
        ELSE IF left = {} THEN Len(cached.code) + 1
        ELSE CHOOSE k \in left : \A l \in left : k <= l

\* A reference to a place still leads there, and through every call that was
\* inserted in front of it.
LeadsWhereItDid(now, was) ==
    /\ Place(Now, now) = Place(Was, was)
    /\ LET i == offset_to_index(Now, now) IN i > 0 => Now.nodes[i].hook = 0

\* run_shift_semantics.sh: the instructions of the method stay in their order,
\* and a jump to an insertion point runs the inserted calls and then the
\* instruction it named, for every branch, switch entry and handler
\* (shift_after, instruction_list_encode).
SameControlFlow ==
    Between =>
        /\ [i \in DOMAIN cached.code |-> cached.code[i].id]
              = [i \in DOMAIN SelectSeq(Now.nodes, LAMBDA n : n.id # 0)
                    |-> SelectSeq(Now.nodes, LAMBDA n : n.id # 0)[i].id]
        /\ \A n \in Range(Now.nodes) : n.id # 0 =>
              \A k \in DOMAIN n.refs : LeadsWhereItDid(n.refs[k], Was.nodes[n.id].refs[k])
        /\ \A i \in DOMAIN Now.exceptions :
              LeadsWhereItDid(Now.exceptions[i].handler, Was.exceptions[i].handler)

Covers(start, end, offset) == start <= offset /\ offset < end

\* An inserted call is covered by exactly the exception handlers, scopes of
\* locals and annotated spans that cover the instruction it stands in front
\* of, and no instruction leaves or enters one (shift_after).
SpansKept ==
    Between =>
        \A i \in 1..Len(Now.nodes) :
            LET now == Now.offsets[i]
                was == index_to_offset(Was, Place(Now, now) - 1)
            IN  /\ \A k \in DOMAIN Now.exceptions :
                      Covers(Now.exceptions[k].start, Now.exceptions[k].end, now)
                          <=> Covers(Was.exceptions[k].start, Was.exceptions[k].end, was)
                /\ \A k \in DOMAIN Now.locals :
                      Covers(Now.locals[k].start, Now.locals[k].start + Now.locals[k].length, now)
                          <=> Covers(Was.locals[k].start, Was.locals[k].start + Was.locals[k].length, was)
                /\ \A k \in DOMAIN Now.spans :
                      Covers(Now.spans[k].start, Now.spans[k].end, now)
                          <=> Covers(Was.spans[k].start, Was.spans[k].end, was)

InstructionAt(e, offset) ==
    LET i == offset_to_index(e, offset)
    IN  IF i \in 0..Len(e.nodes) - 1 THEN e.nodes[i + 1].id ELSE 0

\* The verifier finds a frame at the target of a jump exactly when it found one
\* before, and a line number stays with its instruction (stack_map_table_write);
\* an Uninitialized type keeps naming its "new" and an annotation its opcode,
\* not the call inserted in front of it (shift_with).
FramesAtTargets ==
    Between =>
        /\ \A i \in DOMAIN Now.marks :
              InstructionAt(Now, Now.marks[i]) = InstructionAt(Was, Was.marks[i])
        /\ \A i \in DOMAIN Now.frames : \A k \in DOMAIN Now.frames[i].uninit :
              InstructionAt(Now, Now.frames[i].uninit[k])
                  = InstructionAt(Was, Was.frames[i].uninit[k])
        /\ \A i \in DOMAIN Now.frames : LeadsWhereItDid(Now.frames[i].at, Was.frames[i].at)
        /\ \A i \in DOMAIN Now.lines : LeadsWhereItDid(Now.lines[i], Was.lines[i])
        /\ \A n \in Range(Now.nodes) : \A k \in DOMAIN n.refs :
              (\E f \in Range(Now.frames) : f.at = n.refs[k])
                  <=> (\E f \in Range(Was.frames) : f.at = Was.nodes[n.id].refs[k])

\* The calls a rebuild must put in front of an offset of the cached body: the
\* hooks installed there, the last one first; in a constructor the ones meant
\* for an earlier offset come before them.
ExpectedCalls(offset) ==
    SetToSortSeq({h \in DOMAIN hooks : AtOffset(Was, hooks[h]) = offset},
                 LAMBDA i, j : hooks[i] < hooks[j] \/ (hooks[i] = hooks[j] /\ i > j))

\* Offsets of hooks mean offsets of the cached body, although all but the first
\* insertion are made into a body that has already moved (reapply), and a
\* constructor calls nobody before it has initialised this.
CallsWhereInstalled ==
    pc = "idle" /\ status = "OK" =>
        /\ cached.init > 0 =>
              \A i, j \in 1..Len(Now.nodes) :
                  i < j /\ Now.nodes[j].id = cached.init => Now.nodes[i].hook = 0
        /\ \A k \in 1..Len(cached.code) + 1 :
              LET calls == SelectSeq([i \in 1..Len(Now.nodes) |->
                                         [h |-> Now.nodes[i].hook, l |-> Now.nodes[i].len,
                                          k |-> Place(Now, Now.offsets[i])]],
                                     LAMBDA c : c.h # 0 /\ c.l = 3 /\ c.k = k)
              IN  [i \in DOMAIN calls |-> calls[i].h] = ExpectedCalls(index_to_offset(Was, k - 1))

\* An editor that can be stored reads back as it was: no table was cut to
\* sixteen bits, no switch is padded for another offset, no delta is off.
ReadsBack ==
    pc = "store" /\ StoreStatus(editor) = "OK" =>
        code_editor_load(code_editor_store(editor)) = editor

=============================================================================
