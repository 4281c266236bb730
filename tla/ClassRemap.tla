----------------------------- MODULE ClassRemap -----------------------------
(***************************************************************************)
(* The two calls that work on class files without a VM: JNI2Hook_RemapClass *)
(* (class_remap.c), which moves the references of a class to the names the *)
(* classes and members have at run time, and JNI2Hook_ReadMethodLayout     *)
(* (class_layout.c).                                                       *)
(*                                                                         *)
(* A step of the remapping is one round of a loop: one constant, one       *)
(* member.  No allocation fails; what a failed one would do is what the    *)
(* constant pool at its limit does.                                        *)
(***************************************************************************)
EXTENDS ClassParser

CONSTANT Mappings    \* the tables a caller passes: [classes, methods, fields]

VARIABLES
    maps,            \* the tables, which nothing looks at while the class is parsed
    parsed,          \* the class as it was parsed; no part of the code's state
    names,           \* original_class_names
    at,              \* the variable of the loop
    out              \* what the caller gets

vars == <<parserVars, maps, parsed, names, at, out>>
inputs == <<input, pos, count, parsed>>

NoOutput == <<>>
NoName == ""
NoMapping == <<>>
NoMaps == <<>>

Init ==
    /\ ParserInit
    /\ maps = NoMaps
    /\ input \in {classfile_serialize(c) : c \in Classes} \union Defective
    /\ parsed = NoClass
    /\ names = <<>>
    /\ at = 0
    /\ out = NoOutput

\* status_of makes one error of every defect; the model keeps which it was.
Parse ==
    /\ classfile_parse
    /\ parsed' = IF stage' = "parsed" THEN cf' ELSE parsed
    /\ UNCHANGED <<maps, names, at, out>>

\* The class is destroyed on every way out.
Returns(s, result) ==
    /\ stage' = "returned"
    /\ status' = s
    /\ out' = result
    /\ cf' = NoClass
    /\ UNCHANGED <<inputs, names, at>>

-----------------------------------------------------------------------------
(* class_layout.c *)

ReadMethodLayout ==
    LET texts == [i \in DOMAIN cf.methods |->
                     <<constant_pool_utf8(cf.pool, cf.methods[i].name),
                       constant_pool_utf8(cf.pool, cf.methods[i].desc)>>]
    IN
    /\ stage = "parsed"
    /\ UNCHANGED maps
    /\ IF \E i \in DOMAIN texts : NoText \in {texts[i][1], texts[i][2]}
       THEN Returns("CLASS_FILE", NoOutput)
       ELSE Returns("OK", texts)

-----------------------------------------------------------------------------
(* The lookups of class_remap.c *)

\* The first mapping of the class; one without a name to map to is skipped.
lookup_class(c) ==
    LET k == SelectInSeq(maps.classes, LAMBDA m : m.from = c /\ m.to # NoName) IN
    IF k = 0 THEN NoName ELSE maps.classes[k].to

MapsType(type) == IsObject(type) /\ lookup_class(type[3]) # NoName
MapType(type) == IF MapsType(type) THEN Object(type[1], lookup_class(type[3])) ELSE type

DescriptorChanges(text) ==
    CASE text[1] \in {"field", "array"} -> MapsType(text[2])
      [] text[1] = "method" -> MapsType(text[3]) \/ \E i \in DOMAIN text[2] : MapsType(text[2][i])
      [] OTHER -> FALSE

remap_descriptor(text) ==
    CASE text[1] \in {"field", "array"} -> <<text[1], MapType(text[2])>>
      [] text[1] = "method" -> MethodDesc([i \in DOMAIN text[2] |-> MapType(text[2][i])], MapType(text[3]))
      [] OTHER -> text

\* An array class is named by its descriptor.
ClassNameChanges(text) ==
    IF text[1] = "array" THEN DescriptorChanges(text) ELSE lookup_class(text[2]) # NoName

remap_class_name(text) ==
    IF text[1] = "array" THEN remap_descriptor(text) ELSE Name(lookup_class(text[2]))

\* Mutant: a mapping without a descriptor fits no member.
MutantFindMember(table, owner, name, desc) ==
    LET k == SelectInSeq(table, LAMBDA m : m.owner = owner /\ m.name = name /\ m.descriptor = desc)
    IN IF owner = NoText \/ k = 0 THEN NoMapping ELSE table[k]

find_member(table, owner, name, desc) ==
    LET k == SelectInSeq(table, LAMBDA m : /\ m.owner = owner /\ m.name = name
                                           /\ m.descriptor \in {NoText, desc})
    IN IF owner = NoText \/ k = 0 THEN NoMapping ELSE table[k]

original_class_name(i) == IF i \in DOMAIN names THEN names[i] ELSE NoText

\* A member of this class may be known under its super class or an interface.
find_member_inherited(table, owner, name, desc) ==
    LET Find(o) == find_member(table, o, name, desc)
        above == <<Find(original_class_name(cf.super))>>
                     \o [i \in DOMAIN cf.interfaces |-> Find(original_class_name(cf.interfaces[i]))]
        k == SelectInSeq(above, LAMBDA m : m # NoMapping)
    IN
    IF Find(owner) # NoMapping THEN Find(owner)
    ELSE IF owner # original_class_name(cf.this) \/ k = 0 THEN NoMapping ELSE above[k]

-----------------------------------------------------------------------------
(* The passes of JNI2Hook_RemapClass *)

ClassText(c, i) == constant_pool_utf8(c.pool, c.pool[i].a)

\* The next round of a loop, on class c; "last" ends it.
NextRound(c, last, next) ==
    /\ cf' = c
    /\ stage' = IF at = last THEN next ELSE stage
    /\ at' = IF at = last THEN 1 ELSE at + 1
    /\ UNCHANGED <<inputs, names, status, out>>

snapshot_class_names ==
    LET classes == {i \in 1..Len(cf.pool) : cf.pool[i].tag = "Class"} IN
    /\ stage = "parsed"
    /\ maps' \in Mappings
    /\ IF \E i \in classes : ClassText(cf, i) = NoText
       THEN Returns("OUT_OF_MEMORY", NoOutput)
       ELSE /\ names' = [i \in classes |-> ClassText(cf, i)]
            /\ stage' = "references"
            /\ at' = 1
            /\ UNCHANGED <<inputs, cf, status, out>>

Runtime(mapping, field) == IF mapping = NoMapping THEN NoText ELSE mapping[field]

IsNameAndType(i) == HasConstant(cf.pool, i) /\ cf.pool[i].tag = "NameAndType"
NatName(i) == constant_pool_utf8(cf.pool, cf.pool[i].a)
NatDesc(i) == constant_pool_utf8(cf.pool, cf.pool[i].b)

NewName(mapping, name) ==
    IF Runtime(mapping, "runtime_name") # NoText THEN mapping.runtime_name ELSE name

NewDescriptor(mapping, desc) ==
    IF Runtime(mapping, "runtime_descriptor") # NoText THEN mapping.runtime_descriptor
    ELSE remap_descriptor(desc)

NewPartsDiffer(mapping, desc) ==
    \/ Runtime(mapping, "runtime_name") # NoText
    \/ Runtime(mapping, "runtime_descriptor") # NoText
    \/ DescriptorChanges(desc)

\* Mutant: the text of the shared entries is edited in place.
MutantRemapNameAndType(i, mapping) ==
    IF ~IsNameAndType(i) THEN [status |-> "OK", pool |-> cf.pool, index |-> i]
    ELSE [status |-> "OK", index |-> i,
          pool |-> [cf.pool EXCEPT ![cf.pool[i].a].text = NewName(mapping, @),
                                   ![cf.pool[i].b].text = NewDescriptor(mapping, @)]]

\* The NameAndType a reference gets in place of the one at index i.
remap_name_and_type(i, mapping) ==
    IF ~IsNameAndType(i) THEN [status |-> "OK", pool |-> cf.pool, index |-> i]
    ELSE IF NoText \in {NatName(i), NatDesc(i)}
    THEN [status |-> "OUT_OF_MEMORY", pool |-> cf.pool, index |-> i]
    ELSE IF ~NewPartsDiffer(mapping, NatDesc(i))
    THEN [status |-> "OK", pool |-> cf.pool, index |-> i]
    ELSE LET nat == classFile_intern_name_and_type(cf.pool, NewName(mapping, NatName(i)),
                                                   NewDescriptor(mapping, NatDesc(i)))
         IN  [status |-> IF nat.ok THEN "OK" ELSE "CLASS_FILE", pool |-> nat.pool, index |-> nat.index]

ReferenceMapping(e) ==
    IF e.tag \notin RefTags \/ ~IsNameAndType(e.b) \/ NoText \in {NatName(e.b), NatDesc(e.b)}
    THEN NoMapping
    ELSE find_member_inherited(IF e.tag = "Fieldref" THEN maps.fields ELSE maps.methods,
                               original_class_name(e.a), NatName(e.b), NatDesc(e.b))

\* remap_references, for the constant at "at".
remap_references ==
    LET e == cf.pool[at]
        mapping == ReferenceMapping(e)
        nat == remap_name_and_type(e.b, mapping)
        owner == IF Runtime(mapping, "runtime_owner") = NoText
                 THEN [ok |-> TRUE, pool |-> nat.pool, index |-> e.a]
                 ELSE classFile_intern_class(nat.pool, mapping.runtime_owner)
    IN
    /\ stage = "references"
    /\ UNCHANGED maps
    /\ IF e.tag \notin RefTags \union DynamicTags THEN NextRound(cf, Len(cf.pool), "own fields")
       ELSE IF nat.status # "OK" THEN Returns(nat.status, NoOutput)
       ELSE IF ~owner.ok THEN Returns("CLASS_FILE", NoOutput)
       ELSE NextRound([cf EXCEPT !.pool = [owner.pool EXCEPT ![at].a = owner.index,
                                                             ![at].b = nat.index]],
                      Len(owner.pool), "own fields")

Listed == IF stage = "own fields" THEN "fields" ELSE "methods"
AfterList == IF stage = "own fields" THEN "own methods" ELSE "classes"

\* Mutant: a method that overrides a renamed one keeps its name.
MutantMemberMapping(name, desc) ==
    find_member(IF Listed = "fields" THEN maps.fields ELSE maps.methods,
                original_class_name(cf.this), name, desc)

MemberMapping(name, desc) ==
    find_member_inherited(IF Listed = "fields" THEN maps.fields ELSE maps.methods,
                          original_class_name(cf.this), name, desc)

\* remap_own_members, for the member at "at".
remap_own_members ==
    LET member == cf[Listed][at]
        name == constant_pool_utf8(cf.pool, member.name)
        desc == constant_pool_utf8(cf.pool, member.desc)
        mapping == MemberMapping(name, desc)
        n == IF Runtime(mapping, "runtime_name") = NoText
             THEN [ok |-> TRUE, pool |-> cf.pool, index |-> member.name]
             ELSE classFile_intern_utf8(cf.pool, mapping.runtime_name)
        d == IF Runtime(mapping, "runtime_descriptor") = NoText /\ ~DescriptorChanges(desc)
             THEN [ok |-> TRUE, pool |-> n.pool, index |-> member.desc]
             ELSE classFile_intern_utf8(n.pool, NewDescriptor(mapping, desc))
    IN
    /\ stage \in {"own fields", "own methods"} /\ at <= Len(cf[Listed])
    /\ UNCHANGED maps
    /\ IF NoText \in {name, desc} THEN Returns("OUT_OF_MEMORY", NoOutput)
       ELSE IF ~n.ok \/ ~d.ok THEN Returns("CLASS_FILE", NoOutput)
       ELSE NextRound([cf EXCEPT !.pool = d.pool, ![Listed][at].name = n.index,
                                 ![Listed][at].desc = d.index],
                      Len(cf[Listed]), AfterList)

NoMembers ==
    /\ stage \in {"own fields", "own methods"} /\ cf[Listed] = <<>>
    /\ stage' = AfterList
    /\ UNCHANGED <<inputs, maps, cf, names, at, status, out>>

\* remap_class_entries, for the constant at "at"; classes that were interned
\* since the snapshot have no original name.
remap_class_entries ==
    LET name == original_class_name(at)
        text == classFile_intern_utf8(cf.pool, remap_class_name(name))
    IN
    /\ stage = "classes"
    /\ UNCHANGED maps
    /\ IF name = NoText \/ ~ClassNameChanges(name) THEN NextRound(cf, Len(cf.pool), "serialize")
       ELSE IF ~text.ok THEN Returns("CLASS_FILE", NoOutput)
       ELSE NextRound([cf EXCEPT !.pool = [text.pool EXCEPT ![at].a = text.index]],
                      Len(text.pool), "serialize")

Serialize ==
    /\ stage = "serialize"
    /\ UNCHANGED maps
    /\ Returns("OK", classfile_serialize(cf))

Returned == stage = "returned" /\ UNCHANGED vars

Next ==
    \/ Parse
    \/ ReadMethodLayout
    \/ snapshot_class_names
    \/ remap_references
    \/ remap_own_members
    \/ NoMembers
    \/ remap_class_entries
    \/ Serialize
    \/ Returned

Spec == Init /\ [][Next]_vars

-----------------------------------------------------------------------------
(* What the tables say of the class as it was parsed.                      *)

\* The classes whose mappings speak of a member: its owner, and for a member
\* of this class what the class extends and implements.
Lineage(owner) ==
    <<owner>> \o (IF owner = ClassText(parsed, parsed.this)
                  THEN [i \in 1..1 + Len(parsed.interfaces) |->
                            ClassText(parsed, (<<parsed.super>> \o parsed.interfaces)[i])]
                  ELSE <<>>)

\* The mapping of the nearest class, and of its mappings the first.
MappingOf(table, owner, name, desc) ==
    LET fits == {p \in (DOMAIN Lineage(owner)) \X (DOMAIN table) :
                    /\ table[p[2]].owner = Lineage(owner)[p[1]]
                    /\ table[p[2]].name = name
                    /\ table[p[2]].descriptor \in {NoText, desc}}
        nearest == CHOOSE p \in fits : \A q \in fits : p[1] < q[1] \/ (p[1] = q[1] /\ p[2] <= q[2])
    IN  IF fits = {} THEN NoMapping ELSE table[nearest[2]]

RunTimeClass(text) ==
    IF text[1] = "array" THEN remap_descriptor(text)
    ELSE IF lookup_class(text[2]) = NoName THEN text ELSE Name(lookup_class(text[2]))

\* The owner, name and descriptor a reference resolves to.
Reference(c, i) ==
    LET nat == c.pool[c.pool[i].b] IN
    [owner |-> ClassText(c, c.pool[i].a),
     name |-> constant_pool_utf8(c.pool, nat.a), desc |-> constant_pool_utf8(c.pool, nat.b)]

MappingOfReference(i) ==
    LET r == Reference(parsed, i) IN
    MappingOf(IF parsed.pool[i].tag = "Fieldref" THEN maps.fields ELSE maps.methods,
              r.owner, r.name, r.desc)

RunTimeReference(i) ==
    LET r == Reference(parsed, i)
        m == MappingOfReference(i)
    IN  [owner |-> IF Runtime(m, "runtime_owner") # NoText THEN m.runtime_owner ELSE RunTimeClass(r.owner),
         name |-> NewName(m, r.name), desc |-> NewDescriptor(m, r.desc)]

\* The owner a mapping moves the reference to is named by a Class constant of
\* the file, of a class that the class tables rename.
OwnerIsRenamed(i) ==
    LET owner == Runtime(MappingOfReference(i), "runtime_owner") IN
    /\ owner # NoText /\ RunTimeClass(owner) # owner
    /\ \E k \in DOMAIN parsed.pool : parsed.pool[k].tag = "Class" /\ ClassText(parsed, k) = owner

(***************************************************************************)
(* Every reference of the remapped class resolves to what the tables say   *)
(* of the owner, name and descriptor it was compiled with, whatever        *)
(* entries it shared with others and in whatever order the passes reached  *)
(* them (remap_references before remap_class_entries).  One case is left   *)
(* out: the owner of a reference that is moved to a runtime_owner which is *)
(* at the same time the compile-time name of a class of the file that is   *)
(* renamed; RuntimeOwnerIsFinal is about it.                               *)
(***************************************************************************)
ReferencesFollowTheTables ==
    stage = "serialize" =>
        \A i \in DOMAIN parsed.pool :
            /\ parsed.pool[i].tag \in RefTags =>
                   /\ Reference(cf, i).name = RunTimeReference(i).name
                   /\ Reference(cf, i).desc = RunTimeReference(i).desc
                   /\ ~OwnerIsRenamed(i) => Reference(cf, i).owner = RunTimeReference(i).owner
            /\ parsed.pool[i].tag \in DynamicTags =>
                   LET NatOf(c) == c.pool[c.pool[i].b] IN
                   /\ cf.pool[i].a = parsed.pool[i].a
                   /\ NatOf(cf).a = NatOf(parsed).a
                   /\ constant_pool_utf8(cf.pool, NatOf(cf).b)
                          = remap_descriptor(constant_pool_utf8(parsed.pool, NatOf(parsed).b))

(***************************************************************************)
(* The class, what it extends and implements, and its own members carry    *)
(* their names at run time; a method that overrides a renamed one is       *)
(* renamed with it (remap_own_members, remap_class_entries).               *)
(***************************************************************************)
DeclarationsFollowTheTables ==
    stage = "serialize" =>
        /\ \A i \in DOMAIN names : ClassText(cf, i) = RunTimeClass(ClassText(parsed, i))
        /\ \A list \in {"fields", "methods"} : \A i \in DOMAIN parsed[list] :
               LET name == constant_pool_utf8(parsed.pool, parsed[list][i].name)
                   desc == constant_pool_utf8(parsed.pool, parsed[list][i].desc)
                   m == MappingOf(maps[list], ClassText(parsed, parsed.this), name, desc)
               IN  /\ constant_pool_utf8(cf.pool, cf[list][i].name) = NewName(m, name)
                   /\ constant_pool_utf8(cf.pool, cf[list][i].desc) = NewDescriptor(m, desc)

(***************************************************************************)
(* Nothing but a reference or the name of a class is ever changed: a text, *)
(* a string constant, a NameAndType that others share, flags and           *)
(* attributes stay as they were, whichever pass has failed or succeeded.   *)
(***************************************************************************)
OthersKeepTheirText ==
    parsed # NoClass /\ cf # NoClass =>
        /\ \A i \in DOMAIN parsed.pool :
               parsed.pool[i].tag \notin RefTags \union DynamicTags \union {"Class"} =>
                   cf.pool[i] = parsed.pool[i]
        /\ \A f \in {"version", "flags", "this", "super", "interfaces", "attributes"} : cf[f] = parsed[f]
        /\ \A list \in {"fields", "methods"} :
               /\ Len(cf[list]) = Len(parsed[list])
               /\ \A i \in DOMAIN cf[list] : /\ cf[list][i].flags = parsed[list][i].flags
                                             /\ cf[list][i].attributes = parsed[list][i].attributes

-----------------------------------------------------------------------------
(* What the header says and the code does not do *)

(***************************************************************************)
(* jni2hook.h:201: "runtime_owner moves the reference to a different       *)
(* class", named "as it exists at runtime": the reference has that owner   *)
(* when all passes are done.  The code interns the owner as a Class, finds *)
(* the constant of the class that was compiled under this name, and        *)
(* remap_class_entries then renames that constant.                         *)
(***************************************************************************)
RuntimeOwnerIsFinal ==
    stage = "serialize" =>
        \A i \in DOMAIN parsed.pool :
            parsed.pool[i].tag \in RefTags /\ Runtime(MappingOfReference(i), "runtime_owner") # NoText =>
                Reference(cf, i).owner = MappingOfReference(i).runtime_owner

=============================================================================
