---------------------------- MODULE MCClassRemap ----------------------------
(* A class App that extends Base and implements Face, and calls into Lib.    *)
EXTENDS ClassRemap

Void == Primitive(0, "V")
Takes(type) == MethodDesc(<<type>>, Void)
Lib == Object(0, "Lib")

\* One reference, with a tag, an owner and a name, that shares its NameAndType
\* with a reference to App, and its texts with an own member and a string.
App(tag, owner, name, wide) ==
    LET isField == tag = "Fieldref" IN
    [version |-> 52,
     pool |-> <<Utf8(Name("App")), Constant(tag, NoText, owner, 12), ClassConstant(1),
                Utf8(Name("Base")), ClassConstant(4), Utf8(Name("Face")), ClassConstant(6),
                Utf8(Name("Lib")), ClassConstant(8), Utf8(Name(name)),
                Utf8(IF isField THEN FieldDesc(Lib) ELSE Takes(Lib)), NameAndType(10, 11),
                Constant(IF isField THEN "Fieldref" ELSE "Methodref", NoText, 3, 12),
                Constant("String", NoText, 10, 0), Utf8(ArrayName(Object(1, "Lib"))),
                ClassConstant(15), Utf8(IF isField THEN Takes(Lib) ELSE FieldDesc(Lib))>>
                \o (IF wide THEN Slots(Constant("Long", <<"value", 7>>, 0, 0)) ELSE <<>>),
     flags |-> {"PUBLIC"}, this |-> 3, super |-> 5, interfaces |-> <<7>>,
     fields |-> IF wide THEN <<>>
                ELSE <<[flags |-> {}, name |-> 10, desc |-> IF isField THEN 11 ELSE 17,
                        attributes |-> <<>>]>>,
     methods |-> <<[flags |-> {"PUBLIC"}, name |-> 10, desc |-> IF isField THEN 17 ELSE 11,
                    attributes |-> <<Attribute(10, <<"opaque", 1>>)>>],
                   [flags |-> {"STATIC"}, name |-> 1, desc |-> IF isField THEN 17 ELSE 11,
                    attributes |-> <<>>]>>,
     attributes |-> <<Attribute(8, <<"opaque", 2>>)>>]

\* A name index that is no text, and an owner without a name.
Nameless == [App("Methodref", 9, "run", TRUE) EXCEPT !.methods[2].name = 18]
Ownerless == [App("Methodref", 9, "run", TRUE) EXCEPT !.pool[9].a = 3]

MCClasses ==
    {App(tag, owner, "run", wide) : tag \in {"Methodref", "Fieldref", "InvokeDynamic"},
                                    owner \in {3, 9}, wide \in BOOLEAN}
    \union {App("InterfaceMethodref", owner, name, FALSE) : owner \in {5, 7, 16}, name \in {"run", "Lib"}}
    \union {Nameless, Ownerless}

Whole == classfile_serialize(App("Methodref", 9, "run", TRUE))
Patched(k, token) == [Whole EXCEPT ![k] = token]

\* Truncated anywhere; bytes behind the end; another magic, version or tag; a
\* pool without slot 0; a pool that ends between the two slots of a Long.
MCDefective ==
    {SubSeq(Whole, 1, n) : n \in 0..Len(Whole) - 1}
    \union {Append(Whole, U2(0)), Patched(1, <<"magic", "CAFED00D">>), Patched(2, <<"version", 44>>),
            Patched(3, U2(0)), Patched(4, Tag("?")), Patched(3, U2(19))}

Member(owner, desc, to_owner, to_name, to_desc) ==
    [owner |-> Name(owner), name |-> Name("run"), descriptor |-> desc,
     runtime_owner |-> to_owner, runtime_name |-> to_name, runtime_descriptor |-> to_desc]

To(from, to) == [from |-> from, to |-> to]

ClassTables ==
    {<<>>, <<To("Lib", ""), To("Lib", "a")>>, <<To("App", "b"), To("Base", "Lib"), To("Lib", "Base")>>}

\* "d" is the name of no class of the file; "Base" is, and one table renames it.
Runtimes ==
    {<<NoText, Name("c"), NoText>>, <<Name("d"), NoText, NoText>>,
     <<Name("Base"), NoText, NoText>>, <<NoText, Name("Lib"), Takes(Object(1, "e"))>>}

MemberTables ==
    {<<>>}
    \union {<<Member(o, d, r[1], r[2], r[3])>> :
               o \in {"Lib", "Base", "Face"}, d \in {NoText, Takes(Lib)}, r \in Runtimes}
    \union {<<Member("Face", NoText, NoText, Name("f"), NoText),
              Member("Base", Takes(Void), NoText, Name("g"), NoText),
              Member("App", NoText, r[1], r[2], r[3])>> : r \in Runtimes}

\* Fields have a table of their own: the methods' one must not reach them.
MCMappings ==
    {[classes |-> c, methods |-> m, fields |-> <<>>] : c \in ClassTables, m \in MemberTables}
    \union {[classes |-> c, methods |-> <<>>, fields |-> m] : c \in ClassTables, m \in MemberTables}

=============================================================================
