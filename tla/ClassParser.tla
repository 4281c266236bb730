----------------------------- MODULE ClassParser -----------------------------
(***************************************************************************)
(* classfile_parse (class_file_parser.c) on a byte cursor (byte_stream.c). *)
(*                                                                         *)
(* A step reads the header, one constant, the names of the class, one      *)
(* count, one member with its attributes, or the attributes of the class.  *)
(* An input is a class as the writer lays it out, or one with a defect in  *)
(* one place, so that a token is always read as what it was written as.    *)
(***************************************************************************)
EXTENDS ClassFile

CONSTANTS Classes,   \* class files the VM, or a compiler, hands over
          Defective  \* inputs that are no class file

VARIABLES
    input,           \* the tokens handed to classfile_parse
    pos,             \* the cursor: how many tokens have been read
    stage,           \* what is read next
    count,           \* constants of the pool, or members of the list; -1: not read yet
    cf,
    status

parserVars == <<input, pos, stage, count, cf, status>>

NoClass == <<>>
NewClass ==
    [version |-> 0, pool |-> <<>>, flags |-> {}, this |-> 0, super |-> 0,
     interfaces |-> <<>>, fields |-> <<>>, methods |-> <<>>, attributes |-> <<>>]

Defects == {"TRUNCATED", "MAGIC", "VERSION", "CONSTANT_INDEX", "CONSTANT_TAG", "TRAILING_BYTES"}

ParserInit ==
    /\ pos = 0
    /\ stage = "header"
    /\ count = -1
    /\ cf = NewClass
    /\ status = "OK"

-----------------------------------------------------------------------------
\* cursor_need, and the k-th token behind the cursor.
CursorHas(n) == pos + n <= Len(input)
Token(k) == input[pos + k][2]

\* The label failed: the class is destroyed.
ParseFails(s) ==
    /\ stage' = "returned"
    /\ status' = s
    /\ cf' = NoClass
    /\ UNCHANGED <<input, pos, count>>

\* The steps that read n tokens, whose first defect is d.
Reads(d, n, next, c) ==
    IF d # "OK" THEN ParseFails(d)
    ELSE /\ pos' = pos + n
         /\ stage' = next
         /\ cf' = c
         /\ UNCHANGED <<input, status>>

ReadHeader ==
    LET defect ==
            IF ~CursorHas(1) THEN "TRUNCATED"
            ELSE IF Token(1) # "CAFEBABE" THEN "MAGIC"
            ELSE IF ~CursorHas(2) THEN "TRUNCATED"
            ELSE IF Token(2) < 45 THEN "VERSION"
            ELSE IF ~CursorHas(3) THEN "TRUNCATED"
            ELSE IF Token(3) < 1 THEN "CONSTANT_INDEX" ELSE "OK"
    IN
    /\ stage = "header"
    /\ Reads(defect, 3, "pool", [cf EXCEPT !.version = Token(2)])
    /\ count' = IF defect = "OK" THEN Token(3) ELSE count

\* What follows the tag of a constant.
OperandTokens(tag) ==
    IF tag \in RefTags \union DynamicTags \union {"NameAndType", "MethodHandle"} THEN 2 ELSE 1

ConstantAt(tag) ==
    CASE tag \in DataTags -> Constant(tag, Token(2), 0, 0)
      [] OperandTokens(tag) = 2 -> Constant(tag, NoText, Token(2), Token(3))
      [] OTHER -> Constant(tag, NoText, Token(2), 0)

\* Mutant: a Long in the last slot is taken, and its second slot is not there.
MutantConstantDefect ==
    IF ~CursorHas(1) THEN "TRUNCATED"
    ELSE IF Token(1) \notin KnownTags THEN "CONSTANT_TAG"
    ELSE IF ~CursorHas(1 + OperandTokens(Token(1))) THEN "TRUNCATED" ELSE "OK"

ConstantDefect ==
    IF ~CursorHas(1) THEN "TRUNCATED"
    ELSE IF Token(1) \notin KnownTags THEN "CONSTANT_TAG"
    ELSE IF ~CursorHas(1 + OperandTokens(Token(1))) THEN "TRUNCATED"
    ELSE IF cp_info_slots(Token(1)) = 2 /\ Len(cf.pool) + 2 >= count THEN "CONSTANT_INDEX"
    ELSE "OK"

\* One round of the loop of constant_pool_read.
ReadConstant ==
    /\ stage = "pool" /\ Len(cf.pool) + 1 < count
    /\ Reads(ConstantDefect, 1 + OperandTokens(Token(1)), "pool",
             [cf EXCEPT !.pool = @ \o Slots(ConstantAt(Token(1)))])
    /\ UNCHANGED count

\* access_flags, this_class, super_class and read_interfaces.
ReadNames ==
    LET defect == IF ~CursorHas(4) \/ ~CursorHas(4 + Token(4)) THEN "TRUNCATED" ELSE "OK"
    IN
    /\ stage = "pool" /\ Len(cf.pool) + 1 >= count
    /\ Reads(defect, 4 + Token(4), "fields",
             [cf EXCEPT !.flags = Token(1), !.this = Token(2), !.super = Token(3),
                        !.interfaces = [i \in 1..Token(4) |-> Token(4 + i)]])
    /\ count' = IF defect = "OK" THEN -1 ELSE count

ReadCount ==
    LET defect == IF CursorHas(1) THEN "OK" ELSE "TRUNCATED" IN
    /\ stage \in {"fields", "methods"} /\ count = -1
    /\ Reads(defect, 1, stage, cf)
    /\ count' = IF defect = "OK" THEN Token(1) ELSE count

\* read_attributes, with its count at token k.
AttributesAt(k) == [i \in 1..Token(k) |-> Attribute(Token(k + 2 * i - 1), Token(k + 2 * i))]
HasAttributesAt(k) == CursorHas(k) /\ CursorHas(k + 2 * Token(k))

\* One round of the loop of read_members.
ReadMember ==
    LET defect == IF ~CursorHas(3) \/ ~HasAttributesAt(4) THEN "TRUNCATED" ELSE "OK"
        member == [flags |-> Token(1), name |-> Token(2), desc |-> Token(3),
                   attributes |-> AttributesAt(4)]
    IN
    /\ stage \in {"fields", "methods"} /\ count > Len(cf[stage])
    /\ Reads(defect, 4 + 2 * Token(4), stage, [cf EXCEPT ![stage] = Append(@, member)])
    /\ UNCHANGED count

EndOfMembers ==
    /\ stage \in {"fields", "methods"} /\ count = Len(cf[stage])
    /\ stage' = IF stage = "fields" THEN "methods" ELSE "attributes"
    /\ count' = -1
    /\ UNCHANGED <<input, pos, cf, status>>

\* The attributes of the class, behind which the input has to end.
ReadAttributes ==
    LET defect ==
            IF ~HasAttributesAt(1) THEN "TRUNCATED"
            ELSE IF CursorHas(2 + 2 * Token(1)) THEN "TRAILING_BYTES" ELSE "OK"
    IN
    /\ stage = "attributes"
    /\ Reads(defect, 1 + 2 * Token(1), "parsed", [cf EXCEPT !.attributes = AttributesAt(1)])
    /\ UNCHANGED count

classfile_parse ==
    \/ ReadHeader
    \/ ReadConstant
    \/ ReadNames
    \/ ReadCount
    \/ ReadMember
    \/ EndOfMembers
    \/ ReadAttributes

-----------------------------------------------------------------------------
(***************************************************************************)
(* classfile_parse takes exactly what classfile_serialize writes, and gets *)
(* the class back that was written: a truncated class, one with bytes      *)
(* behind its end, an unknown tag or a Long in the last slot are refused.  *)
(***************************************************************************)
ParserInvertsWriter ==
    /\ stage = "parsed" => cf \in Classes /\ classfile_serialize(cf) = input
    /\ status \in Defects => input \in Defective

=============================================================================
