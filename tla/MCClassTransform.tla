-------------------------- MODULE MCClassTransform --------------------------
(* A class App with a method of every sort the rewrites tell apart, one with *)
(* the methods that just fit or do not fit the buffers of the code, and one  *)
(* whose methods take arrays.                                                *)
EXTENDS ClassTransform

Long == Primitive(0, "J")
Lib == Object(0, "Lib")

Run == MethodDesc(<<Long, Lib, IntType>>, Lib)
Sum == MethodDesc(<<Primitive(0, "D"), Primitive(0, "F")>>, Long)
Many == MethodDesc([i \in 1..5 |-> IntType], VoidType)
Grid == MethodDesc(<<>>, Primitive(4, "I"))
Wide == MethodDesc(<<Lib, Lib, Lib>>, VoidType)
Vast == MethodDesc(<<>>, Object(0, "Vast"))
Fill == MethodDesc(<<Primitive(1, "J"), IntType>>, VoidType)

Texts == <<Name("App"), Name("Code"), Name("run"), Run, Name("sum"), Sum, Name("many"), Many,
           Name("grid"), Grid, NoArguments, Name("raw"), Name("<init>"), Name("<clinit>"),
           Name("Lib"), Name("fill"), Fill, Name("spare"), Name("pick"), Name("wide"), Wide,
           Name("vast"), Vast>>
TextAt(text) == SelectInSeq(Texts, LAMBDA t : t = text)
This == Len(Texts) + 1

Method(flags, name, desc, attributes) ==
    [flags |-> flags, name |-> TextAt(name), desc |-> TextAt(desc), attributes |-> attributes]
Code(nodes, stack, frames) ==
    <<Attribute(TextAt(Name("Code")), [nodes |-> nodes, stack |-> stack, frames |-> frames])>>
Body(name) == Code(<<<<"body", name>>, <<"end", name>>>>, 1, <<>>)

\* Frames at the start and, behind a jump, in the middle.
Loop ==
    Code(<<<<"body", "run">>, <<"goto", 0>>, <<"end", "run">>>>, 2,
         <<[at |-> 0, locals |-> <<<<"Object", This>>, <<"Long", 0>>, <<"Object", This + 1>>, <<"Integer", 0>>>>],
           [at |-> 2, locals |-> <<>>]>>)

\* A constructor that calls super() or this() inits times.
Constructor(inits) ==
    Code(<<<<"body", "init">>>> \o [i \in 1..inits |-> <<"init", i>>] \o <<<<"end", "init">>>>, 1, <<>>)

App(flags, padding, methods) ==
    [version |-> 52, flags |-> flags, this |-> This, super |-> 0, interfaces |-> <<>>, fields |-> <<>>,
     pool |-> [i \in DOMAIN Texts |-> Utf8(Texts[i])] \o <<ClassConstant(1), ClassConstant(TextAt(Name("Lib")))>>
                  \o Slots(Constant("Long", <<"value", 7>>, 0, 0))
                  \o [i \in 1..padding |-> Constant("Integer", <<"value", i>>, 0, 0)],
     methods |-> methods, attributes |-> <<>>]

Ordinary ==
    <<Method({"SYNCHRONIZED"}, Name("run"), Run, Loop),
      Method({"STATIC"}, Name("sum"), Sum, Body("sum")),
      Method({"STATIC"}, Name("many"), Many, Body("many")),
      Method({}, Name("grid"), Grid, Code(<<<<"end", "grid">>>>, MaxCount - 1, <<>>)),
      Method({"NATIVE"}, Name("raw"), NoArguments, <<>>),
      Method({"ABSTRACT"}, Name("raw"), Sum, <<>>),
      Method({"NATIVE"}, Name("spare"), Sum, <<>>),
      Method({}, Name("<init>"), NoArguments, Constructor(1)),
      Method({"STATIC"}, Name("<clinit>"), NoArguments, Body("clinit"))>>

\* A guard of pick with a value fills nodes[]; wide and vast have descriptors
\* that are too long.
Large ==
    <<Method({"STATIC"}, Name("pick"), Run, Body("pick")),
      Method({"STATIC"}, Name("wide"), Wide, Body("wide")),
      Method({"STATIC"}, Name("vast"), Vast, Body("vast"))>>

\* Padded so that the pool has room for few more constants, or for plenty.
MCClasses ==
    {App({}, padding, Ordinary) : padding \in {0} \union {MaxCount - 28 - k : k \in {1, 4, 8}}}
    \union {App({}, 0, <<Method({}, Name("<init>"), NoArguments, Constructor(inits))>>) : inits \in {0, 2}}
    \union {App({}, 0, Large)}
    \union {App({"INTERFACE"}, 0, SubSeq(Ordinary, 2, 3))}

MCArrayClasses == {App({}, 0, <<Method({"STATIC"}, Name("fill"), Fill, Body("fill"))>>)}

To(name, desc) == [name |-> Name(name), desc |-> desc]
Targets == {To("run", Run), To("sum", Sum), To("many", Many), To("grid", Grid), To("raw", NoArguments),
            To("raw", Sum), To("<init>", NoArguments), To("<clinit>", NoArguments), To("run", Sum)}
Larger == {To("pick", Run), To("wide", Wide), To("vast", Vast)}

Native(t, copy) == [name |-> t.name, desc |-> t.desc, copy |-> copy]
Static(t, at, argument, forward) ==
    [name |-> t.name, desc |-> t.desc, at |-> at, owner |-> Name("Dispatch"), callee |-> Name("hook"),
     argument |-> argument, forward |-> forward]
Guarded(t, value, argument) ==
    [name |-> t.name, desc |-> t.desc, owner |-> Name("Dispatch"), callee |-> Name("guard"),
     value |-> value, argument |-> argument]
Insert(t, at, hook) == [name |-> t.name, desc |-> t.desc, at |-> at, hook |-> hook]

MCCalls ==
    [native |-> {Native(t, Name("copy")) : t \in Targets}
                \union {Native(To("run", Run), Name("run")), Native(To("sum", Sum), Name("spare"))},
     static |-> {Static(t, 0, 5, TRUE) : t \in Targets}
                \union {Static(To("run", Run), at, 5, FALSE) : at \in {1, 99}}
                \union {Static(To("wide", Wide), 0, 5, forward) : forward \in BOOLEAN}
                \union {Static(To("copy", Sum), 1, 5, TRUE), Static(To("sum", Sum), 0, 40000, TRUE)},
     guarded |-> {Guarded(t, NoText, 6) : t \in Targets \union {To("copy", Run)}}
                 \union {Guarded(To(t[1], t[2]), Name("value"), 6) : t \in {<<"run", Run>>, <<"sum", Sum>>, <<"grid", Grid>>}}
                 \union {Guarded(t, Name("value"), 6) : t \in Larger}
                 \union {Guarded(To("sum", Sum), NoText, -40000)},
     insert |-> {Insert(t, 0, Name("hook")) : t \in Targets}
                \union {Insert(To("run", Run), at, Name("copy")) : at \in {1, 99}}]

MCArrayCalls ==
    [native |-> {}, static |-> {Static(To("fill", Fill), at, 5, TRUE) : at \in {0, 1}},
     guarded |-> {Guarded(To("fill", Fill), NoText, 6)}, insert |-> {Insert(To("fill", Fill), 0, Name("hook"))}]
=============================================================================
