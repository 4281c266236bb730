------------------------------ MODULE ClassFile ------------------------------
(***************************************************************************)
(* The class file as the library keeps it in memory, and its form on disk. *)
(*                                                                         *)
(* A constant pool is the sequence of its slots; slot 0 of the code is     *)
(* left out, so that index i is pool[i] and the count is Len(pool) + 1.    *)
(* The slot behind a Long or a Double is Empty.  A text is a name, a class *)
(* name or a descriptor, as a tuple that starts with its sort; a type in a *)
(* descriptor starts with its array depth.  On disk a class is a sequence  *)
(* of tokens.                                                              *)
(***************************************************************************)
EXTENDS Integers, SequencesExt

CONSTANT MaxCount    \* CLASSFILE_MAX_COUNT, 65535 in the code

ASSUME MaxCountAssumption == MaxCount \in Nat

Primitive(depth, p) == <<depth, p>>
Object(depth, class) == <<depth, "L", class>>
IsObject(type) == Len(type) = 3

Name(n) == <<"name", n>>
ArrayName(t) == <<"array", t>>
FieldDesc(t) == <<"field", t>>
MethodDesc(args, ret) == <<"method", args, ret>>
NoText == <<>>

Constant(tag, text, a, b) == [tag |-> tag, text |-> text, a |-> a, b |-> b]
Utf8(text) == Constant("Utf8", text, 0, 0)
ClassConstant(name) == Constant("Class", NoText, name, 0)
NameAndType(name, desc) == Constant("NameAndType", NoText, name, desc)
Empty == Constant("", NoText, 0, 0)

RefTags == {"Fieldref", "Methodref", "InterfaceMethodref"}
DynamicTags == {"Dynamic", "InvokeDynamic"}
DataTags == {"Utf8", "Integer", "Float", "Long", "Double"}
KnownTags == RefTags \union DynamicTags
    \union DataTags \union {"Class", "String", "NameAndType",
            "MethodHandle", "MethodType", "Module", "Package"}

\* A Code attribute is its instructions, its stack and its frames; every
\* other attribute is opaque.
Attribute(name, info) == [name |-> name, info |-> info]

-----------------------------------------------------------------------------
(* cp_info.c and class_file.c: lookup and interning *)

cp_info_slots(tag) == IF tag \in {"Long", "Double"} THEN 2 ELSE 1

\* constant_pool_at: no constant at 0, behind the end, or in an empty slot.
HasConstant(pool, i) == i \in 1..Len(pool) /\ pool[i] # Empty

constant_pool_utf8(pool, i) ==
    IF HasConstant(pool, i) /\ pool[i].tag = "Utf8" THEN pool[i].text ELSE NoText

\* Mutant: the slot behind a Long is taken for a free one.
MutantAppend(pool, entry) ==
    LET holes == {i \in 1..Len(pool) : pool[i] = Empty} IN
    IF holes # {} THEN [ok |-> TRUE, pool |-> [pool EXCEPT ![Min(holes)] = entry], index |-> Min(holes)]
    ELSE IF Len(pool) + 2 > MaxCount
    THEN [ok |-> FALSE, pool |-> pool, index |-> 0]
    ELSE [ok |-> TRUE, pool |-> Append(pool, entry), index |-> Len(pool) + 1]

\* The slots a constant takes.
Slots(entry) == <<entry>> \o (IF cp_info_slots(entry.tag) = 2 THEN <<Empty>> ELSE <<>>)

constant_pool_append(pool, entry) ==
    IF Len(pool) + 1 + cp_info_slots(entry.tag) > MaxCount
    THEN [ok |-> FALSE, pool |-> pool, index |-> 0]
    ELSE [ok |-> TRUE, index |-> Len(pool) + 1,
          pool |-> pool \o Slots(entry)]

\* intern_simple and classFile_intern_utf8: the first equal entry, or a new one.
Intern(pool, entry) ==
    IF \E i \in 1..Len(pool) : pool[i] = entry
    THEN [ok |-> TRUE, pool |-> pool, index |-> SelectInSeq(pool, LAMBDA e : e = entry)]
    ELSE constant_pool_append(pool, entry)

\* What follows an interning that did not fail.
IfOk(result, Op(_)) == IF result.ok THEN Op(result) ELSE result

\* The texts of the model are shorter than 65536 bytes; a longer one is refused
\* the way a full pool is.
classFile_intern_utf8(pool, text) == Intern(pool, Utf8(text))

classFile_intern_class(pool, text) ==
    IfOk(classFile_intern_utf8(pool, text), LAMBDA name : Intern(name.pool, ClassConstant(name.index)))

classFile_intern_name_and_type(pool, name, desc) ==
    IfOk(classFile_intern_utf8(pool, name), LAMBDA n :
        IfOk(classFile_intern_utf8(n.pool, desc), LAMBDA d :
            Intern(d.pool, NameAndType(n.index, d.index))))

classFile_intern_methodref(pool, class, name, desc) ==
    IfOk(classFile_intern_name_and_type(pool, name, desc), LAMBDA nat :
        Intern(nat.pool, Constant("Methodref", NoText, class, nat.index)))

-----------------------------------------------------------------------------
(* member_info.c and attribute_info.c *)

IsNamed(cf, m, name, desc) ==
    /\ constant_pool_utf8(cf.pool, m.name) = name
    /\ constant_pool_utf8(cf.pool, m.desc) = desc

\* member_list_find: the position of the first match, 0 if there is none.
classFile_find_method(cf, name, desc) ==
    SelectInSeq(cf.methods, LAMBDA m : IsNamed(cf, m, name, desc))

attribute_list_find(cf, attributes, name) ==
    SelectInSeq(attributes, LAMBDA a : constant_pool_utf8(cf.pool, a.name) = name)

HasCode(cf, m) == attribute_list_find(cf, m.attributes, Name("Code")) # 0
CodeOf(cf, m) == m.attributes[attribute_list_find(cf, m.attributes, Name("Code"))].info

-----------------------------------------------------------------------------
(* class_file_writer.c *)

U2(n) == <<"u2", n>>
Tag(t) == <<"tag", t>>
Bytes(x) == <<"bytes", x>>

ConstantTokens(e) ==
    CASE e = Empty -> <<>>
      [] e.tag \in DataTags -> <<Tag(e.tag), Bytes(e.text)>>
      [] e.tag \in {"Class", "Module", "Package", "String", "MethodType"} -> <<Tag(e.tag), U2(e.a)>>
      [] OTHER -> <<Tag(e.tag), U2(e.a), U2(e.b)>>

write_attributes(list) ==
    <<U2(Len(list))>> \o FlattenSeq([i \in DOMAIN list |-> <<U2(list[i].name), Bytes(list[i].info)>>])

write_members(list) ==
    <<U2(Len(list))>> \o
    FlattenSeq([i \in DOMAIN list |->
                  <<<<"flags", list[i].flags>>, U2(list[i].name), U2(list[i].desc)>>
                      \o write_attributes(list[i].attributes)])

classfile_serialize(cf) ==
    <<<<"magic", "CAFEBABE">>, <<"version", cf.version>>, U2(Len(cf.pool) + 1)>>
        \o FlattenSeq([i \in DOMAIN cf.pool |-> ConstantTokens(cf.pool[i])])
        \o <<<<"flags", cf.flags>>, U2(cf.this), U2(cf.super), U2(Len(cf.interfaces))>>
        \o [i \in DOMAIN cf.interfaces |-> U2(cf.interfaces[i])]
        \o write_members(cf.fields) \o write_members(cf.methods)
        \o write_attributes(cf.attributes)
=============================================================================
