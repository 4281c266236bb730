--------------------------- MODULE ClassTransform ---------------------------
(***************************************************************************)
(* The rewrites of class_transform.c on a class file in memory, called one *)
(* after the other: making a method native and restoring it, and inserting *)
(* a call to a hook of the class, to a static method of another class, or  *)
(* to a guard that may skip the body.                                      *)
(*                                                                         *)
(* The info of a Code attribute is [nodes, stack, frames]: instructions    *)
(* are <<opcode, operand>>, and a jump target, an offset and the place of  *)
(* a frame are the number of instructions in front of it.  code_editor.c   *)
(* has a module of its own, CodeEditor, and so has constructor_init.c.     *)
(***************************************************************************)
EXTENDS ClassFile

CONSTANTS
    Classes,         \* the classes to start from
    Calls,           \* the calls a caller makes, each once or more often
    MaxEdits,        \* calls in a behaviour
    MaxParameters,   \* the size of forwarded_parameter parameters[], 64 in the code
    MaxDescriptor,   \* the size of callee_descriptor[], 1024 in the code
    LongNames,       \* class names that do not fit char returned[512]
    Faults           \* allocations that may fail

\* The size of instruction nodes[] in a guarded call, 70 in the code.
MaxNodes == MaxParameters + 6

IsList(s) == Len(s) \in Nat /\ s = [i \in 1..Len(s) |-> s[i]]

\* The parts of a class file, with the lists the rewrites make longer or shorter.
IsClassFile(c) ==
    /\ c = [version |-> c.version, flags |-> c.flags, this |-> c.this, super |-> c.super,
            interfaces |-> c.interfaces, fields |-> c.fields, pool |-> c.pool,
            methods |-> c.methods, attributes |-> c.attributes]
    /\ IsList(c.pool) /\ IsList(c.methods)

IsBody(code) ==
    /\ code = [nodes |-> code.nodes, stack |-> code.stack, frames |-> code.frames]
    /\ IsList(code.nodes)

IsCode(c, attribute) == constant_pool_utf8(c.pool, attribute.name) = Name("Code")

\* A method of a class the VM has loaded: it has code, once, exactly if it is
\* neither native nor abstract.
IsMethod(c, m) ==
    /\ m = [flags |-> m.flags, name |-> m.name, desc |-> m.desc, attributes |-> m.attributes]
    /\ m.name \in 1..Len(c.pool) /\ m.desc \in 1..Len(c.pool)
    /\ IsList(m.attributes)
    /\ \A i \in 1..Len(m.attributes) :
           LET a == m.attributes[i] IN a = [name |-> a.name, info |-> a.info] /\ a.name \in 1..Len(c.pool)
    /\ \A i, j \in 1..Len(m.attributes) :
           IsCode(c, m.attributes[i]) /\ IsCode(c, m.attributes[j]) => i = j
    /\ \A i \in 1..Len(m.attributes) : IsCode(c, m.attributes[i]) => IsBody(m.attributes[i].info)
    /\ HasCode(c, m) <=> m.flags \intersect {"NATIVE", "ABSTRACT"} = {}

\* No two methods of such a class share a name and a descriptor.
IsClass(c) ==
    /\ IsClassFile(c)
    /\ \A i \in 1..Len(c.methods) : IsMethod(c, c.methods[i])
    /\ \A i, j \in 1..Len(c.methods) :
           IsNamed(c, c.methods[i], constant_pool_utf8(c.pool, c.methods[j].name),
                   constant_pool_utf8(c.pool, c.methods[j].desc)) => i = j

\* The letter of a type behind its brackets.
Letter(type) == IF IsObject(type) THEN "L" ELSE type[2]

HasTypes(desc) ==
    /\ IsList(desc[2])
    /\ \A i \in 1..Len(desc[2]) : Letter(desc[2][i]) \in {"B", "C", "S", "Z", "I", "J", "F", "D", "L"}

\* Classes come from the VM.  A caller makes no copy native under its own name.
ASSUME ClassTransformAssumption ==
    /\ MaxEdits \in Nat /\ MaxParameters \in Nat /\ MaxDescriptor \in Nat
    /\ \A c \in Classes : IsClass(c)
    /\ \A call \in Calls.static \union Calls.guarded : HasTypes(call.desc)
    /\ \A a, b \in Calls.native : a.copy = b.name /\ a.desc = b.desc => a.copy = a.name

VARIABLES
    original,        \* the class the edits started from
    cf,
    moved,           \* <<name, descriptor, copy>> of the methods made native
    edits,
    status           \* what the last call returned

vars == <<original, cf, moved, edits, status>>

Result(s, c) == [status |-> s, cf |-> c]

-----------------------------------------------------------------------------
(* Methods and bodies *)

NameOf(c, i) == constant_pool_utf8(c.pool, c.methods[i].name)

\* What all rewrites look at before they touch anything.  make_native asks for
\* native before abstract; no method is both.
Refusal(c, i, initializers) ==
    IF i = 0 THEN "METHOD_NOT_FOUND"
    ELSE IF NameOf(c, i) \in initializers THEN "INITIALIZER"
    ELSE IF "ABSTRACT" \in c.methods[i].flags THEN "ABSTRACT"
    ELSE IF "NATIVE" \in c.methods[i].flags THEN "ALREADY_NATIVE"
    ELSE IF ~HasCode(c, c.methods[i]) THEN "NO_CODE" ELSE "OK"

WithPool(c, pool) == [c EXCEPT !.pool = pool]

SetCode(c, i, code) ==
    LET k == attribute_list_find(c, c.methods[i].attributes, Name("Code")) IN
    [c EXCEPT !.methods[i].attributes[k].info = code]

attribute_list_remove_named(c, attributes, name) ==
    RemoveAt(attributes, attribute_list_find(c, attributes, name))

\* code_editor_insert of nodes in front of instruction p; what refers to p
\* itself stays, and reaches the inserted code.
shift_after(t, p, n) == IF t > p THEN t + n ELSE t

code_editor_insert(code, p, nodes, extra) ==
    LET Shift(t) == shift_after(t, p, Len(nodes))
        all == SubSeq(code.nodes, 1, p) \o nodes \o SubSeq(code.nodes, p + 1, Len(code.nodes))
    IN
    [nodes |-> [i \in DOMAIN all |->
                   IF all[i][1] \in {"ifeq", "goto"} THEN <<all[i][1], Shift(all[i][2])>> ELSE all[i]],
     stack |-> code.stack + extra,
     frames |-> [i \in DOMAIN code.frames |-> [code.frames[i] EXCEPT !.at = Shift(@)]]]

InsertRefusal(code, p, extra) ==
    IF p \notin 0..Len(code.nodes) THEN "BAD_OFFSET"
    ELSE IF code.stack + extra > MaxCount THEN "CLASSFILE" ELSE "OK"

\* constructor_init_offset: the position behind the call of super() or this().
InitCalls(code) == {k \in DOMAIN code.nodes : code.nodes[k][1] = "init"}
InitRefusal(c, i, code) ==
    IF NameOf(c, i) # Name("<init>") THEN "OK"
    ELSE IF InitCalls(code) = {} THEN "INITIALIZER"
    ELSE IF Cardinality(InitCalls(code)) > 1 THEN "AMBIGUOUS_INIT" ELSE "OK"

SafeOffset(c, i, code, p) ==
    IF NameOf(c, i) = Name("<init>") THEN Max({p} \union InitCalls(code)) ELSE p

-----------------------------------------------------------------------------
(* class_transform_make_native and class_transform_restore *)

copy_flags(flags) ==
    {"PRIVATE", "FINAL"}
    \union (flags \intersect {"STATIC", "SYNCHRONIZED", "BRIDGE", "VARARGS", "STRICT", "SYNTHETIC"})

class_transform_make_native(c, name, desc, copy, fault) ==
    LET i == classFile_find_method(c, name, desc)
        refusal == Refusal(c, i, {Name("<init>"), Name("<clinit>")})
        n == classFile_intern_utf8(c.pool, copy)
        m == c.methods[i]
        native == [m EXCEPT !.flags = @ \union {"NATIVE"},
                            !.attributes = attribute_list_remove_named(c, @, Name("Code"))]
    IN
    IF "INTERFACE" \in c.flags THEN Result("INTERFACE", c)
    ELSE IF classFile_find_method(c, copy, desc) # 0 THEN Result("NAME_IN_USE", c)
    ELSE IF refusal # "OK" THEN Result(refusal, c)
    ELSE IF ~n.ok \/ fault \in {"copy", "append"} THEN Result("CLASSFILE", WithPool(c, n.pool))
    ELSE Result("OK", [WithPool(c, n.pool) EXCEPT
                          !.methods = Append([@ EXCEPT ![i] = native],
                                             [m EXCEPT !.name = n.index, !.flags = copy_flags(@)])])

\* Mutant: the copy is dropped before its body has been moved back.
MutantRestore(c, name, desc, copy, fault) ==
    LET k == classFile_find_method(c, copy, desc)
        i == classFile_find_method(c, name, desc)
    IN
    IF k = 0 \/ i = 0 THEN Result("METHOD_NOT_FOUND", c)
    ELSE IF ~HasCode(c, c.methods[k]) THEN Result("NO_CODE", c)
    ELSE Result("OK", [c EXCEPT !.methods = RemoveAt([@ EXCEPT ![i].flags = @ \ {"NATIVE"}], k)])

\* An empty attribute takes the code; it is removed again when that fails.
class_transform_restore(c, name, desc, copy, fault) ==
    LET k == classFile_find_method(c, copy, desc)
        i == classFile_find_method(c, name, desc)
        held == [c.methods[i] EXCEPT !.attributes = Append(@, Attribute(0, <<>>))]
        appended == [c EXCEPT !.methods[i] = held]
        undone == [appended EXCEPT !.methods[i].attributes = RemoveAt(@, Len(@))]
        source == appended.methods[k]
        code == source.attributes[attribute_list_find(appended, source.attributes, Name("Code"))]
        restored == [held EXCEPT !.flags = @ \ {"NATIVE"}, !.attributes = [@ EXCEPT ![Len(@)] = code]]
    IN
    IF k = 0 \/ i = 0 THEN Result("METHOD_NOT_FOUND", c)
    ELSE IF ~HasCode(c, c.methods[k]) THEN Result("NO_CODE", c)
    ELSE IF fault = "append" THEN Result("CLASSFILE", c)
    ELSE IF ~HasCode(appended, source) THEN Result("NO_CODE", undone)
    ELSE IF fault = "copy" THEN Result("CLASSFILE", undone)
    ELSE Result("OK", [appended EXCEPT !.methods = RemoveAt([@ EXCEPT ![i] = restored], k)])

-----------------------------------------------------------------------------
(* Forwarding the parameters of a method *)

JavaObject == Object(0, "java/lang/Object")
IntType == Primitive(0, "I")
VoidType == Primitive(0, "V")

LoadOpcode(letter) ==
    CASE letter \in {"B", "C", "S", "Z", "I"} -> "iload"
      [] letter = "J" -> "lload"
      [] letter = "F" -> "fload"
      [] letter = "D" -> "dload"
      [] letter = "L" -> "aload"

LoadWidth(opcode) == IF opcode \in {"lload", "dload"} THEN 2 ELSE 1

\* The receiver, which is a reference like any other, and the parameters.
ParameterTypes(desc, static) == (IF static THEN <<>> ELSE <<JavaObject>>) \o desc[2]

\* Mutant: a long or a double takes one slot.
MutantDescribeParameters(desc, static) ==
    LET types == ParameterTypes(desc, static) IN
    [i \in DOMAIN types |-> [opcode |-> LoadOpcode(Letter(types[i])), slot |-> i - 1,
                             forwarded |-> IF IsObject(types[i]) THEN JavaObject ELSE types[i]]]

describe_parameters(desc, static) ==
    LET types == ParameterTypes(desc, static)
        Opcode(i) == LoadOpcode(Letter(types[i]))
        slot[i \in DOMAIN types] == IF i = 1 THEN 0 ELSE slot[i - 1] + LoadWidth(Opcode(i - 1))
    IN
    [i \in DOMAIN types |->
        [opcode |-> Opcode(i), slot |-> slot[i],
         forwarded |-> IF types[i][1] > 0 \/ IsObject(types[i]) THEN JavaObject ELSE types[i]]]

\* "(I", a letter or Ljava/lang/Object; per parameter, ")V" and the final zero.
CalleeDescriptorFits(parameters) ==
    5 + MapThenSumSet(LAMBDA i : IF parameters[i].forwarded = JavaObject THEN 18 ELSE 1, DOMAIN parameters)
        <= MaxDescriptor

build_callee_descriptor(parameters, ret) ==
    MethodDesc(<<IntType>> \o [i \in DOMAIN parameters |-> parameters[i].forwarded], ret)

Pushed(parameters) ==
    1 + MapThenSumSet(LAMBDA i : LoadWidth(parameters[i].opcode), DOMAIN parameters)

\* sipush, a load per parameter, invokestatic.
CallNodes(argument, parameters, methodref) ==
    <<<<"sipush", argument>>>>
        \o [i \in DOMAIN parameters |-> <<parameters[i].opcode, parameters[i].slot>>]
        \o <<<<"invokestatic", methodref>>>>

\* The end of an insertion: code_editor_insert and code_editor_store.
InsertAndStore(c, i, code, at, nodes, extra, fault) ==
    IF InsertRefusal(code, at, extra) # "OK" THEN Result(InsertRefusal(code, at, extra), c)
    ELSE IF fault = "store" THEN Result("CLASSFILE", c)
    ELSE Result("OK", SetCode(c, i, code_editor_insert(code, at, nodes, extra)))

class_transform_insert_static_call(c, name, desc, p, owner, callee, argument, forward, fault) ==
    LET i == classFile_find_method(c, name, desc)
        refusal == Refusal(c, i, {Name("<clinit>")})
        WithCall(code, parameters, ref) ==
            IF ~ref.ok THEN Result("CLASSFILE", WithPool(c, ref.pool))
            ELSE InsertAndStore(WithPool(c, ref.pool), i, code, SafeOffset(c, i, code, p),
                                CallNodes(argument, parameters, ref.index), Pushed(parameters), fault)
        WithParameters(own, code, parameters) ==
            IF ~CalleeDescriptorFits(parameters) THEN Result("METHOD_NOT_FOUND", WithPool(c, own.pool))
            ELSE WithCall(code, parameters,
                     classFile_intern_methodref(own.pool, own.index, callee,
                                                build_callee_descriptor(parameters, VoidType)))
        WithOwner(own, code, described) ==
            IF ~own.ok \/ fault = "load" THEN Result("CLASSFILE", WithPool(c, own.pool))
            ELSE IF InitRefusal(c, i, code) # "OK"
            THEN Result(InitRefusal(c, i, code), WithPool(c, own.pool))
            ELSE IF Len(described) > MaxParameters
            THEN Result("METHOD_NOT_FOUND", WithPool(c, own.pool))
            ELSE WithParameters(own, code, IF forward THEN described ELSE <<>>)
    IN
    IF argument \notin -32768..32767 THEN Result("BAD_OFFSET", c)
    ELSE IF refusal # "OK" THEN Result(refusal, c)
    ELSE WithOwner(classFile_intern_class(c.pool, owner), CodeOf(c, c.methods[i]),
                   describe_parameters(desc, "STATIC" \in c.methods[i].flags))

-----------------------------------------------------------------------------
(* class_transform_insert_guarded_call *)

return_opcode_for(type) ==
    IF type[1] > 0 \/ IsObject(type) THEN "areturn"
    ELSE CASE type[2] = "V" -> "return"
           [] type[2] = "J" -> "lreturn"
           [] type[2] = "F" -> "freturn"
           [] type[2] = "D" -> "dreturn"
           [] OTHER -> "ireturn"

default_opcode_for(type) ==
    IF type[1] > 0 \/ IsObject(type) THEN "aconst_null"
    ELSE CASE type[2] = "J" -> "lconst_0"
           [] type[2] = "F" -> "fconst_0"
           [] type[2] = "D" -> "dconst_0"
           [] OTHER -> "iconst_0"

\* The class a reference type names in the constant pool.
ClassOfType(type) == IF type[1] > 0 THEN ArrayName(type) ELSE Name(type[3])

VerificationType(type) ==
    CASE type[2] = "J" -> "Long" [] type[2] = "F" -> "Float" [] type[2] = "D" -> "Double"
      [] OTHER -> "Integer"

\* The entry of one parameter; the class of a reference is interned.
EntryOf(before, type) ==
    LET class == classFile_intern_class(before.pool, ClassOfType(type)) IN
    IF ~before.ok THEN before
    ELSE IF type[1] > 0 \/ IsObject(type)
    THEN [ok |-> class.ok, pool |-> class.pool, locals |-> Append(before.locals, <<"Object", class.index>>)]
    ELSE [before EXCEPT !.locals = Append(@, <<VerificationType(type), 0>>)]

\* The state a method starts in, parameter by parameter.
build_entry_frame(c, pool, desc, static) ==
    LET start == [ok |-> TRUE, pool |-> pool, locals |-> IF static THEN <<>> ELSE <<<<"Object", c.this>>>>]
        frame[i \in 0..Len(desc[2])] ==
            IF i = 0 THEN start ELSE EntryOf(frame[i - 1], desc[2][i])
    IN  frame[Len(desc[2])]

\* Kept sorted; a place that is described already keeps its frame.
insert_frame(frames, frame) ==
    IF \E i \in DOMAIN frames : frames[i].at = frame.at THEN frames
    ELSE SelectSeq(frames, LAMBDA f : f.at < frame.at) \o <<frame>>
             \o SelectSeq(frames, LAMBDA f : f.at > frame.at)

\* value_descriptor is eight bytes, and is filled for a reference as well.
ValueDescriptorFits(type) == type[1] + (IF IsObject(type) THEN 2 ELSE 1) <= 4

\* The value that stands in for the body: a default, or what value_callee says.
ValueNodes(pool, own, desc, value_callee, argument) ==
    LET returns == desc[3]
        isReference == Letter(returns) = "L" \/ returns[1] > 0
        Value(ok, p, nodes) == [ok |-> ok, pool |-> p, nodes |-> nodes]
        Cast(call, cast) == Value(cast.ok, cast.pool, Append(call, <<"checkcast", cast.index>>))
        Called(ref, call) ==
            IF isReference /\ ref.ok /\ IsObject(returns) /\ returns[3] \in LongNames
            THEN Value(FALSE, ref.pool, <<>>)
            ELSE IF isReference /\ ref.ok
            THEN Cast(call, classFile_intern_class(ref.pool, ClassOfType(returns)))
            ELSE Value(ref.ok, ref.pool, call)
        WithRef(ref) == Called(ref, <<<<"sipush", argument>>, <<"invokestatic", ref.index>>>>)
    IN
    IF returns = VoidType THEN Value(TRUE, pool, <<>>)
    ELSE IF value_callee = NoText THEN Value(TRUE, pool, <<<<default_opcode_for(returns), 0>>>>)
    ELSE IF ~ValueDescriptorFits(returns) THEN Value(FALSE, pool, <<>>)
    ELSE WithRef(classFile_intern_methodref(pool, own, value_callee,
                     MethodDesc(<<IntType>>, IF isReference THEN JavaObject ELSE returns)))

\* The branch over the value and its frame, in the code the guard was put into.
Guard(code, branch, n, locals) ==
    [code EXCEPT !.nodes[branch] = <<"ifeq", n>>,
                 !.frames = insert_frame(@, [at |-> n, locals |-> locals])]

\* sipush, the loads, invokestatic, ifeq, the value and the return go into
\* nodes[], whose bound nothing checks: "OVERRUN" stands for a write behind it.
class_transform_insert_guarded_call(c, name, desc, owner, callee, value_callee, argument, fault) ==
    LET i == classFile_find_method(c, name, desc)
        refusal == Refusal(c, i, {Name("<init>"), Name("<clinit>")})
        static == "STATIC" \in c.methods[i].flags
        WithTable(inserted, branch, n, frame, table) ==
            IF ~table.ok \/ fault = "store" THEN Result("CLASSFILE", WithPool(c, table.pool))
            ELSE Result("OK", SetCode(WithPool(c, table.pool), i, Guard(inserted, branch, n, frame.locals)))
        WithFrame(code, inserted, branch, n, frame) ==
            IF ~frame.ok \/ fault = "append" THEN Result("CLASSFILE", WithPool(c, frame.pool))
            ELSE WithTable(inserted, branch, n, frame,
                           IF code.frames # <<>> THEN frame
                           ELSE classFile_intern_utf8(frame.pool, Name("StackMapTable")))
        WithNodes(code, branch, nodes, pushed, pool) ==
            IF InsertRefusal(code, 0, pushed) # "OK" THEN Result("CLASSFILE", WithPool(c, pool))
            ELSE WithFrame(code, code_editor_insert(code, 0, nodes, pushed), branch, Len(nodes),
                           build_entry_frame(c, pool, desc, static))
        WithValue(code, parameters, ref, value) ==
            IF ~value.ok THEN Result("CLASSFILE", WithPool(c, value.pool))
            ELSE IF Len(parameters) + Len(value.nodes) + 4 > MaxNodes
            THEN Result("OVERRUN", WithPool(c, value.pool))
            ELSE WithNodes(code, Len(parameters) + 3,
                           CallNodes(argument, parameters, ref.index) \o <<<<"ifeq", 0>>>>
                               \o value.nodes \o <<<<return_opcode_for(desc[3]), 0>>>>,
                           Max({Pushed(parameters), IF desc[3] = VoidType THEN 0 ELSE 2}), value.pool)
        WithGuard(own, code, parameters, ref) ==
            IF ~ref.ok THEN Result("CLASSFILE", WithPool(c, ref.pool))
            ELSE WithValue(code, parameters, ref, ValueNodes(ref.pool, own.index, desc, value_callee, argument))
        WithOwner(own, code, parameters) ==
            IF ~own.ok \/ fault = "load" THEN Result("CLASSFILE", WithPool(c, own.pool))
            ELSE IF Len(parameters) > MaxParameters \/ ~CalleeDescriptorFits(parameters)
            THEN Result("METHOD_NOT_FOUND", WithPool(c, own.pool))
            ELSE WithGuard(own, code, parameters,
                           classFile_intern_methodref(own.pool, own.index, callee,
                               build_callee_descriptor(parameters, Primitive(0, "Z"))))
    IN
    IF argument \notin -32768..32767 THEN Result("BAD_OFFSET", c)
    ELSE IF refusal # "OK" THEN Result(refusal, c)
    ELSE WithOwner(classFile_intern_class(c.pool, owner), CodeOf(c, c.methods[i]),
                   describe_parameters(desc, static))

-----------------------------------------------------------------------------
(* class_transform_insert_call *)

NoArguments == MethodDesc(<<>>, VoidType)

\* Mutant: the hook stays declared when its call cannot be written.
MutantUndeclare(c, k) == c

\* member_list_remove of the hook that was declared ahead of its call.
Undeclare(c, k) == [c EXCEPT !.methods = RemoveAt(@, k)]

class_transform_insert_call(c, name, desc, p, hook, fault) ==
    LET i == classFile_find_method(c, name, desc)
        refusal == Refusal(c, i, {Name("<clinit>")})
        static == "STATIC" \in c.methods[i].flags
        Member(n, d) ==
            [name |-> n, desc |-> d, attributes |-> <<>>,
             flags |-> {"PRIVATE", "FINAL", "NATIVE"} \union (IF static THEN {"STATIC"} ELSE {})]
        Nodes(ref) ==
            IF static THEN <<<<"invokestatic", ref>>>> ELSE <<<<"aload_0", 0>>, <<"invokespecial", ref>>>>
        Finish(result) ==
            IF result.status = "OK" THEN result
            ELSE Result(result.status, Undeclare(result.cf, Len(result.cf.methods)))
        Declared(declared, ref, code) ==
            IF fault = "load" THEN Result("CLASSFILE", declared)
            ELSE IF InitRefusal(c, i, code) # "OK" THEN Result(InitRefusal(c, i, code), declared)
            ELSE InsertAndStore(declared, i, code, SafeOffset(c, i, code, p), Nodes(ref.index), 1, fault)
        WithRef(n, d, ref) ==
            IF ~ref.ok \/ fault = "append" THEN Result("CLASSFILE", WithPool(c, ref.pool))
            ELSE Finish(Declared([WithPool(c, ref.pool) EXCEPT !.methods = Append(@, Member(n.index, d.index))],
                                 ref, CodeOf(c, c.methods[i])))
        WithDescriptor(n, d) ==
            IF ~d.ok THEN Result("CLASSFILE", WithPool(c, d.pool))
            ELSE WithRef(n, d, classFile_intern_methodref(d.pool, c.this, hook, NoArguments))
        WithName(n) ==
            IF ~n.ok THEN Result("CLASSFILE", WithPool(c, n.pool))
            ELSE WithDescriptor(n, classFile_intern_utf8(n.pool, NoArguments))
    IN
    IF "INTERFACE" \in c.flags THEN Result("INTERFACE", c)
    ELSE IF classFile_find_method(c, hook, NoArguments) # 0 THEN Result("NAME_IN_USE", c)
    ELSE IF refusal # "OK" THEN Result(refusal, c)
    ELSE WithName(classFile_intern_utf8(c.pool, hook))

-----------------------------------------------------------------------------
Init ==
    /\ original \in Classes
    /\ cf = original
    /\ moved = {}
    /\ edits = 0
    /\ status = "OK"

\* What a program does after a write behind an array is undefined, and the
\* model says nothing of it.
Edit(result) ==
    /\ edits < MaxEdits /\ status # "OVERRUN"
    /\ edits' = edits + 1
    /\ cf' = result.cf
    /\ status' = result.status
    /\ UNCHANGED original

Fault == Faults \union {"none"}

MakeNative ==
    \E call \in Calls.native, fault \in Fault :
        /\ Edit(class_transform_make_native(cf, call.name, call.desc, call.copy, fault))
        /\ moved' = IF status' = "OK" THEN moved \union {call} ELSE moved

\* The calls whose copy does not exist, or has no body to move back.
Bodiless ==
    {call \in Calls.native :
        LET k == classFile_find_method(cf, call.copy, call.desc) IN k = 0 \/ ~HasCode(cf, cf.methods[k])}

\* A restore undoes a rewrite that has been made, or finds nothing to undo.
Restore ==
    \E call \in moved \union Bodiless, fault \in Fault :
        /\ Edit(class_transform_restore(cf, call.name, call.desc, call.copy, fault))
        /\ moved' = IF status' = "OK" THEN moved \ {call} ELSE moved

InsertStaticCall ==
    \E call \in Calls.static, fault \in Fault :
        /\ Edit(class_transform_insert_static_call(cf, call.name, call.desc, call.at, call.owner,
                    call.callee, call.argument, call.forward, fault))
        /\ UNCHANGED moved

InsertGuardedCall ==
    \E call \in Calls.guarded, fault \in Fault :
        /\ Edit(class_transform_insert_guarded_call(cf, call.name, call.desc, call.owner,
                    call.callee, call.value, call.argument, fault))
        /\ UNCHANGED moved

InsertCall ==
    \E call \in Calls.insert, fault \in Fault :
        /\ Edit(class_transform_insert_call(cf, call.name, call.desc, call.at, call.hook, fault))
        /\ UNCHANGED moved

Next == MakeNative \/ Restore \/ InsertStaticCall \/ InsertGuardedCall \/ InsertCall

Spec == Init /\ [][Next]_vars

-----------------------------------------------------------------------------
(* The verifier's view of a method, from the JVM specification *)

Kind(type) ==
    IF type[1] > 0 \/ IsObject(type) THEN "A"
    ELSE IF type[2] \in {"J", "F", "D"} THEN type[2] ELSE "I"

Kinds(types) == [i \in DOMAIN types |-> Kind(types[i])]
Words(kinds) == Len(kinds) + Cardinality({i \in DOMAIN kinds : kinds[i] \in {"J", "D"}})

\* The kind of the parameter in a local slot, "" where none starts.
LocalKind(desc, static, slot) ==
    LET kinds == (IF static THEN <<>> ELSE <<"A">>) \o Kinds(desc[2])
        at == {i \in DOMAIN kinds : Words(SubSeq(kinds, 1, i - 1)) = slot}
    IN  IF at = {} THEN "" ELSE kinds[Min(at)]

ReturnKind == [ireturn |-> "I", lreturn |-> "J", freturn |-> "F", dreturn |-> "D", areturn |-> "A"]
LoadKind == [iload |-> "I", lload |-> "J", fload |-> "F", dload |-> "D", aload |-> "A", aload_0 |-> "A"]
ConstKind == [sipush |-> "I", iconst_0 |-> "I", lconst_0 |-> "J", fconst_0 |-> "F", dconst_0 |-> "D",
              aconst_null |-> "A"]

ClassNameAt(c, i) ==
    IF HasConstant(c.pool, i) /\ c.pool[i].tag = "Class" THEN constant_pool_utf8(c.pool, c.pool[i].a) ELSE NoText

\* A frame says that a method is where it started.
IsEntryFrame(c, frame, desc, static) ==
    LET types == desc[2]
        own == IF static THEN 0 ELSE 1
    IN
    /\ Len(frame.locals) = own + Len(types)
    /\ ~static => frame.locals[1] = <<"Object", c.this>>
    /\ \A i \in DOMAIN types :
           LET local == frame.locals[own + i] IN
           IF Kind(types[i]) = "A"
           THEN local[1] = "Object" /\ ClassNameAt(c, local[2]) = ClassOfType(types[i])
           ELSE local[1] = VerificationType(types[i])

\* The method a call names: declared as it is called if it is one of this class.
CallResolves(c, ref, op) ==
    LET nat == c.pool[ref.b]
        k == classFile_find_method(c, constant_pool_utf8(c.pool, nat.a), constant_pool_utf8(c.pool, nat.b))
    IN  ref.a = c.this => k # 0 /\ ("STATIC" \in c.methods[k].flags <=> op = "invokestatic")

\* One instruction: what it finds on top of the stack the original code had
\* there, and what it leaves.  An original instruction finds nothing extra.
Verified(c, m, code, k, before) ==
    LET op == code.nodes[k][1]
        x == code.nodes[k][2]
        desc == constant_pool_utf8(c.pool, m.desc)
        static == "STATIC" \in m.flags
        target == {i \in DOMAIN code.frames : code.frames[i].at = x}
        stack == before.stack
        ref == c.pool[x]
        called == constant_pool_utf8(c.pool, c.pool[ref.b].b)
        taken == (IF op = "invokespecial" THEN <<"A">> ELSE <<>>) \o Kinds(called[2])
        uninitialised == NameOf(c, SelectInSeq(c.methods, LAMBDA e : e = m)) = Name("<init>")
                         /\ \E later \in InitCalls(code) : later > k
        Pop(kinds) == SubSeq(stack, 1, Len(stack) - Len(kinds))
        State(ok, after, live) == [ok |-> before.ok /\ ok, stack |-> after, live |-> live]
    IN
    CASE op \in DOMAIN ConstKind -> State(TRUE, Append(stack, ConstKind[op]), TRUE)
      [] op \in DOMAIN LoadKind ->
            State(LocalKind(desc, static, x) = LoadKind[op] /\ ~(x = 0 /\ uninitialised),
                  Append(stack, LoadKind[op]), TRUE)
      [] op \in {"invokestatic", "invokespecial"} ->
            State(IsSuffix(taken, stack) /\ CallResolves(c, ref, op),
                  Pop(taken) \o (IF called[3] = VoidType THEN <<>> ELSE <<Kind(called[3])>>), TRUE)
      [] op = "checkcast" -> State(stack # <<>> /\ Last(stack) = "A" /\ ClassNameAt(c, x) = ClassOfType(desc[3]),
                                   stack, TRUE)
      [] op = "ifeq" ->
            State(/\ stack = <<"I">>
                  /\ \E i \in target : IsEntryFrame(c, code.frames[i], desc, static),
                  <<>>, TRUE)
      [] op = "return" -> State(Kind(desc[3]) = "I" /\ desc[3] = VoidType, <<>>, FALSE)
      [] op \in DOMAIN ReturnKind -> State(stack = <<ReturnKind[op]>> /\ Kind(desc[3]) = ReturnKind[op], <<>>, FALSE)
      [] OTHER -> State(stack = <<>>, <<>>, op \notin {"goto", "end"})

Verifies(c, m, code, room) ==
    LET framed == {code.frames[i].at : i \in DOMAIN code.frames}
        \* the state in front of instruction k + 1
        state[k \in 0..Len(code.nodes)] ==
            LET before == IF k = 0 THEN [ok |-> TRUE, stack |-> <<>>, live |-> TRUE]
                          ELSE Verified(c, m, code, k, state[k - 1])
            IN
            IF k = Len(code.nodes) THEN before
            ELSE [before EXCEPT !.ok = /\ @
                                       /\ before.live \/ k \in framed
                                       /\ k \in framed => before.stack = <<>>
                                       /\ Words(before.stack) <= room]
    IN
    /\ state[Len(code.nodes)].ok
    /\ \A i, j \in DOMAIN code.frames : i < j => code.frames[i].at < code.frames[j].at

-----------------------------------------------------------------------------
(* Properties of the rewrites that stay inside their arrays *)

IsOriginalNode(node) == node[1] \in {"body", "init", "goto", "end"}

Kept(code) == {i \in 1..Len(code.nodes) : IsOriginalNode(code.nodes[i])}
Untargeted(node) == IF node[1] = "goto" THEN <<"goto", 0>> ELSE node

\* The instructions a body had before anything was inserted, in their order and
\* without targets.
Core(code) ==
    {<<Cardinality({j \in Kept(code) : j <= i}), Untargeted(code.nodes[i])>> : i \in Kept(code)}

HasBody(c, name, desc, core) ==
    \E m \in Range(c.methods) : IsNamed(c, m, name, desc) /\ HasCode(c, m) /\ Core(CodeOf(c, m)) = core

\* However the rewrites follow one another, every body of the class is still
\* there: in its method, or in the copy if the method has been made native; a
\* method has code exactly if it is neither native nor abstract; and no two
\* methods share a name and a descriptor, which no VM would load.
BodiesStayWithTheirMethods == status # "OVERRUN" =>
    /\ \A m \in Range(original.methods) :
           HasCode(original, m) =>
               LET name == constant_pool_utf8(original.pool, m.name)
                   desc == constant_pool_utf8(original.pool, m.desc)
                   core == Core(CodeOf(original, m))
               IN  \/ HasBody(cf, name, desc, core)
                   \/ \E call \in moved :
                         call.name = name /\ call.desc = desc /\ HasBody(cf, call.copy, desc, core)
    /\ \A m \in Range(cf.methods) : HasCode(cf, m) <=> m.flags \intersect {"NATIVE", "ABSTRACT"} = {}
    /\ \A i, j \in DOMAIN cf.methods :
           i # j => cf.methods[i].name # cf.methods[j].name \/ cf.methods[i].desc # cf.methods[j].desc

\* The verifier accepts what was inserted: each load reads a parameter of its
\* kind where the JVM keeps it, each call finds the arguments its descriptor
\* asks for and, in this class, a method to call, a constructor's receiver is
\* not touched before super(), the branch over the replaced body lands on a
\* frame that describes it, and the operand stack is deep enough.
InsertedCodeVerifies == status # "OVERRUN" =>
    \A m \in Range(cf.methods) :
        HasCode(cf, m) =>
            LET code == CodeOf(cf, m)
                before == {CodeOf(original, o) : o \in {e \in Range(original.methods) : HasCode(original, e)}}
                mine == {b \in before : Core(b) = Core(code)}
            IN  \E b \in mine : Verifies(cf, m, code, code.stack - b.stack)

\* A rewrite that fails, at whatever step, leaves the class as it was but for
\* constants nothing refers to yet.
FailedEditKeepsTheClass ==
    [][status' \notin {"OK", "OVERRUN"} => WithPool(cf', cf.pool) = cf]_vars

\* Rewrites append to the constant pool and never move an entry: the indices in
\* bodies and attributes the library cannot read keep their meaning.
OldIndicesKeepTheirMeaning == [][status' # "OVERRUN" => IsPrefix(cf.pool, cf'.pool)]_vars

-----------------------------------------------------------------------------
(* What the code does not keep *)

\* The instructions of a guarded call ("sipush id, one load per argument,
\* invokestatic, ifeq over the body, then the value to return in its place",
\* class_transform.c:766) fit the array they are put together in.  False with
\* MaxParameters parameters, a value and a reference to return: one too many.
NodesFit == status # "OVERRUN"

=============================================================================
