------------------------- MODULE ClassTransformProofs -------------------------
(***************************************************************************)
(* No rewrite of class_transform.c moves a constant, one that fails leaves *)
(* the class as it was, and however they follow one another every body     *)
(* stays with its method or its copy: for every class and every call.      *)
(***************************************************************************)
EXTENDS ClassTransform, SequenceTheorems, FiniteSetTheorems, TLAPS

-----------------------------------------------------------------------------
(* Lists *)

\* A set of numbers that is not empty has a least member.
LEMMA LeastNumber ==
    ASSUME NEW T \in SUBSET Nat, T # {}
    PROVE  \E x \in T : \A y \in T : x <= y
  <1> DEFINE R == OpToRel(<, Nat)
  <1>1. IsWellFoundedOn(R, Nat)
    BY NatLessThanWellFounded
  <1>2. \A x, y \in Nat : y < x => <<y, x>> \in R
    BY DEF OpToRel
  <1> HIDE DEF R
  <1>3. PICK x \in T : \A y \in T : ~(<<y, x>> \in R)
    BY <1>1, WFMin
  <1>4. \A y \in T : ~(y < x)
    BY <1>2, <1>3
  <1> QED BY <1>4

\* A list is a sequence of its members.
LEMMA ListIsSeq ==
    ASSUME NEW s, NEW S, IsList(s), \A i \in 1..Len(s) : s[i] \in S
    PROVE  s \in Seq(S)
  <1>1. PICK n \in Nat : n = Len(s)
    BY DEF IsList
  <1>2. s = [i \in 1..n |-> s[i]]
    BY <1>1 DEF IsList
  <1>3. \A i \in 1..n : s[i] \in S
    BY <1>1
  <1>4. [i \in 1..n |-> s[i]] \in [1..n -> S]
    BY <1>3
  <1>5. s \in [1..n -> S]
    BY <1>2, <1>4
  <1> QED BY <1>5

LEMMA SeqIsList ==
    ASSUME NEW S, NEW s \in Seq(S)
    PROVE  IsList(s)
  BY DEF IsList

\* The lists the rewrites make of lists.
LEMMA ListOps ==
    ASSUME NEW s, NEW t, NEW x, IsList(s), IsList(t)
    PROVE  /\ IsList(s \o t) /\ Len(s \o t) = Len(s) + Len(t)
           /\ \A i \in 1..Len(s) : (s \o t)[i] = s[i]
           /\ IsList(Append(s, x)) /\ Len(Append(s, x)) = Len(s) + 1
           /\ \A i \in 1..Len(s) : Append(s, x)[i] = s[i]
  <1> DEFINE S == {s[i] : i \in 1..Len(s)} \union {t[i] : i \in 1..Len(t)} \union {x}
  <1>1. \A i \in 1..Len(s) : s[i] \in S
    OBVIOUS
  <1>2. \A i \in 1..Len(t) : t[i] \in S
    OBVIOUS
  <1>3. x \in S
    OBVIOUS
  <1> HIDE DEF S
  <1>4. s \in Seq(S) /\ t \in Seq(S)
    BY <1>1, <1>2, ListIsSeq
  <1>5. /\ s \o t \in Seq(S) /\ Len(s \o t) = Len(s) + Len(t)
        /\ \A i \in 1..Len(s) : (s \o t)[i] = s[i]
    BY <1>4
  <1>6. /\ Append(s, x) \in Seq(S) /\ Len(Append(s, x)) = Len(s) + 1
        /\ \A i \in 1..Len(s) : Append(s, x)[i] = s[i]
    BY <1>3, <1>4
  <1> QED BY <1>5, <1>6, SeqIsList

LEMMA Joined ==
    ASSUME NEW S, NEW s \in Seq(S), NEW t \in Seq(S), NEW n \in Nat, n = Len(s), NEW k \in Nat, k = Len(t)
    PROVE  /\ s \o t \in Seq(S) /\ Len(s \o t) = n + k
           /\ \A i \in 1..n : (s \o t)[i] = s[i]
           /\ \A i \in 1..k : (s \o t)[n + i] = t[i]
  <1>1. s \o t \in Seq(S) /\ Len(s \o t) = n + k
    OBVIOUS
  <1>2. \A i \in 1..n : (s \o t)[i] = s[i]
    OBVIOUS
  <1>3. ASSUME NEW i \in 1..k
        PROVE  (s \o t)[n + i] = t[i]
    <2>1. n + i \in 1..(n + k) /\ ~(n + i <= n) /\ (n + i) - n = i
      OBVIOUS
    <2>2. (s \o t)[n + i] = t[(n + i) - n]
      BY <2>1
    <2> QED BY <2>1, <2>2
  <1> QED BY <1>1, <1>2, <1>3

LEMMA ListExcept ==
    ASSUME NEW s, NEW i, NEW x, IsList(s)
    PROVE  IsList([s EXCEPT ![i] = x]) /\ Len([s EXCEPT ![i] = x]) = Len(s)
  <1>1. PICK n \in Nat : n = Len(s)
    BY DEF IsList
  <1> DEFINE r == [s EXCEPT ![i] = x]
             S == {s[k] : k \in 1..n} \union {x}
  <1>2. s \in [1..n -> S]
    <2>1. s = [k \in 1..n |-> s[k]]
      BY <1>1 DEF IsList
    <2> QED BY <2>1
  <1> HIDE DEF S
  <1>3. r \in [1..n -> S]
    <2>1. x \in S
      BY DEF S
    <2> QED BY <1>2, <2>1
  <1> HIDE DEF r
  <1>4. r \in Seq(S) /\ Len(r) = n
    BY <1>3
  <1>5. IsList(r)
    BY <1>4, SeqIsList
  <1> QED BY <1>1, <1>4, <1>5 DEF r

LEMMA ListRemoveAt ==
    ASSUME NEW s, IsList(s), NEW k \in 1..Len(s)
    PROVE  IsList(RemoveAt(s, k))
  <1> DEFINE S == {s[i] : i \in 1..Len(s)}
  <1>1. \A i \in 1..Len(s) : s[i] \in S
    OBVIOUS
  <1> HIDE DEF S
  <1>2. s \in Seq(S) /\ Len(s) \in Nat
    BY <1>1, ListIsSeq DEF IsList
  <1>3. SubSeq(s, 1, k - 1) \in Seq(S)
    BY <1>2
  <1>4. SubSeq(s, k + 1, Len(s)) \in Seq(S)
    BY <1>2
  <1>5. RemoveAt(s, k) \in Seq(S)
    BY <1>3, <1>4 DEF RemoveAt
  <1> QED BY <1>5, SeqIsList

\* member_list_remove undoes member_list_append.
LEMMA RemoveAppended ==
    ASSUME NEW s, NEW x, IsList(s)
    PROVE  RemoveAt(Append(s, x), Len(Append(s, x))) = s
  <1> DEFINE S == {s[i] : i \in 1..Len(s)} \union {x}
             t == Append(s, x)
             n == Len(s)
  <1>1. \A i \in 1..n : s[i] \in S
    OBVIOUS
  <1>2. x \in S
    OBVIOUS
  <1> HIDE DEF S
  <1>3. s \in Seq(S) /\ n \in Nat
    BY <1>1, ListIsSeq DEF IsList
  <1>4. /\ t \in Seq(S) /\ Len(t) = n + 1
        /\ \A i \in 1..n : t[i] = s[i]
    BY <1>2, <1>3
  <1> HIDE DEF t
  <1>5. /\ SubSeq(t, 1, n) \in Seq(S) /\ Len(SubSeq(t, 1, n)) = n
        /\ \A i \in 1..n : SubSeq(t, 1, n)[i] = t[i]
    BY <1>3, <1>4
  <1>6. SubSeq(t, 1, n) = s
    BY <1>3, <1>4, <1>5, SeqEqual
  <1>7. SubSeq(t, n + 2, n + 1) = <<>>
    BY <1>3, <1>4
  <1>8. RemoveAt(t, Len(t)) = SubSeq(t, 1, n) \o SubSeq(t, n + 2, n + 1)
    <2>1. Len(t) - 1 = n /\ Len(t) + 1 = n + 2
      BY <1>3, <1>4
    <2> QED BY <1>4, <2>1 DEF RemoveAt
  <1>9. s \o <<>> = s
    BY <1>3
  <1> QED BY <1>6, <1>7, <1>8, <1>9 DEF t

LEMMA AppendReplaced ==
    ASSUME NEW s, NEW x, NEW y, IsList(s)
    PROVE  [Append(s, x) EXCEPT ![Len(Append(s, x))] = y] = Append(s, y)
  <1> DEFINE S == {s[i] : i \in 1..Len(s)} \union {x, y}
  <1>1. \A i \in 1..Len(s) : s[i] \in S
    OBVIOUS
  <1>2. x \in S /\ y \in S
    OBVIOUS
  <1> HIDE DEF S
  <1>3. s \in Seq(S) /\ Len(s) \in Nat
    BY <1>1, ListIsSeq DEF IsList
  <1> DEFINE t == [Append(s, x) EXCEPT ![Len(Append(s, x))] = y]
  <1>4. /\ Append(s, x) \in Seq(S) /\ Len(Append(s, x)) = Len(s) + 1
        /\ Append(s, y) \in Seq(S) /\ Len(Append(s, y)) = Len(s) + 1
    BY <1>2, <1>3
  <1>5. t \in Seq(S) /\ Len(t) = Len(s) + 1
    BY <1>2, <1>3, <1>4
  <1>6. \A i \in 1..(Len(s) + 1) : t[i] = Append(s, y)[i]
    <2> SUFFICES ASSUME NEW i \in 1..(Len(s) + 1)
                 PROVE  t[i] = Append(s, y)[i]
      OBVIOUS
    <2>1. DOMAIN Append(s, x) = 1..(Len(s) + 1)
      BY <1>4
    <2>2. CASE i = Len(s) + 1
      <3>1. t[i] = y
        BY <1>4, <2>1, <2>2
      <3>2. Append(s, y)[Len(s) + 1] = y
        BY <1>2, <1>3
      <3> QED BY <2>2, <3>1, <3>2
    <2>3. CASE i # Len(s) + 1
      <3>1. i \in 1..Len(s)
        BY <1>3, <2>3
      <3>2. t[i] = Append(s, x)[i]
        BY <1>4, <2>1, <2>3
      <3>3. Append(s, x)[i] = s[i] /\ Append(s, y)[i] = s[i]
        BY <1>2, <1>3, <3>1
      <3> QED BY <3>2, <3>3
    <2> QED BY <2>2, <2>3
  <1> HIDE DEF t
  <1> QED BY <1>4, <1>5, <1>6, SeqEqual DEF t

-----------------------------------------------------------------------------
(* The constant pool grows at its end *)

\* What interning does to a constant pool.
Grows(p, q) ==
    /\ IsList(p) /\ IsList(q)
    /\ Len(p) <= Len(q)
    /\ \A i \in 1..Len(p) : q[i] = p[i]

LEMMA GrowsReflexive ==
    ASSUME NEW p, IsList(p)
    PROVE  Grows(p, p)
  BY DEF Grows, IsList

LEMMA GrowsTransitive ==
    ASSUME NEW p, NEW q, NEW r, Grows(p, q), Grows(q, r)
    PROVE  Grows(p, r)
  <1>1. Len(p) \in Nat /\ Len(q) \in Nat /\ Len(r) \in Nat
    BY DEF Grows, IsList
  <1>2. Len(p) <= Len(r)
    BY <1>1 DEF Grows
  <1>3. ASSUME NEW i \in 1..Len(p)
        PROVE  r[i] = p[i]
    <2>1. i \in 1..Len(q)
      BY <1>1 DEF Grows
    <2> QED BY <2>1 DEF Grows
  <1> QED BY <1>2, <1>3 DEF Grows

\* constant_pool_append, or nothing.
LEMMA InternGrows ==
    ASSUME NEW pool, NEW entry, IsList(pool)
    PROVE  Grows(pool, Intern(pool, entry).pool)
  <1>1. IsList(Slots(entry))
    <2> DEFINE S == {entry, Empty}
    <2>1. <<entry>> \in Seq(S) /\ <<Empty>> \in Seq(S) /\ <<>> \in Seq(S)
      OBVIOUS
    <2> HIDE DEF S
    <2>2. <<entry>> \o <<Empty>> \in Seq(S) /\ <<entry>> \o <<>> \in Seq(S)
      BY <2>1
    <2>3. Slots(entry) \in Seq(S)
      BY <2>2 DEF Slots
    <2> QED BY <2>3, SeqIsList
  <1>2. Grows(pool, pool \o Slots(entry))
    <2>1. Len(pool) \in Nat /\ Len(Slots(entry)) \in Nat
      BY <1>1 DEF IsList
    <2>2. /\ IsList(pool \o Slots(entry))
          /\ Len(pool \o Slots(entry)) = Len(pool) + Len(Slots(entry))
          /\ \A i \in 1..Len(pool) : (pool \o Slots(entry))[i] = pool[i]
      BY <1>1, ListOps
    <2>3. Len(pool) <= Len(pool) + Len(Slots(entry))
      BY <2>1
    <2> QED BY <2>2, <2>3 DEF Grows
  <1>3. Grows(pool, pool)
    BY GrowsReflexive
  <1>4. Grows(pool, constant_pool_append(pool, entry).pool)
    BY <1>2, <1>3 DEF constant_pool_append
  <1> QED BY <1>3, <1>4 DEF Intern

LEMMA InternUtf8Grows ==
    ASSUME NEW pool, NEW text, IsList(pool)
    PROVE  Grows(pool, classFile_intern_utf8(pool, text).pool)
  BY InternGrows DEF classFile_intern_utf8

LEMMA InternClassGrows ==
    ASSUME NEW pool, NEW text, IsList(pool)
    PROVE  Grows(pool, classFile_intern_class(pool, text).pool)
  <1> DEFINE n == classFile_intern_utf8(pool, text)
             r == Intern(n.pool, ClassConstant(n.index))
  <1>1. Grows(pool, n.pool)
    BY InternUtf8Grows
  <1> HIDE DEF n
  <1>2. Grows(n.pool, r.pool)
    BY <1>1, InternGrows DEF Grows
  <1>3. classFile_intern_class(pool, text) = IF n.ok THEN r ELSE n
    BY DEF classFile_intern_class, IfOk, n
  <1> HIDE DEF r
  <1>4. Grows(pool, r.pool)
    BY <1>1, <1>2, GrowsTransitive
  <1> QED BY <1>1, <1>3, <1>4

LEMMA InternNameAndTypeGrows ==
    ASSUME NEW pool, NEW name, NEW desc, IsList(pool)
    PROVE  Grows(pool, classFile_intern_name_and_type(pool, name, desc).pool)
  <1> DEFINE n == classFile_intern_utf8(pool, name)
             d == classFile_intern_utf8(n.pool, desc)
             r == Intern(d.pool, NameAndType(n.index, d.index))
  <1>1. classFile_intern_name_and_type(pool, name, desc) =
            IF n.ok THEN IF d.ok THEN r ELSE d ELSE n
    BY DEF classFile_intern_name_and_type, IfOk
  <1>2. Grows(pool, n.pool)
    BY InternUtf8Grows
  <1> HIDE DEF n
  <1>3. Grows(n.pool, d.pool)
    BY <1>2, InternUtf8Grows DEF Grows
  <1> HIDE DEF d
  <1>4. Grows(d.pool, r.pool)
    BY <1>3, InternGrows DEF Grows
  <1> HIDE DEF r
  <1>5. Grows(pool, d.pool)
    BY <1>2, <1>3, GrowsTransitive
  <1>6. Grows(pool, r.pool)
    BY <1>4, <1>5, GrowsTransitive
  <1> QED BY <1>1, <1>2, <1>5, <1>6

LEMMA InternMethodrefGrows ==
    ASSUME NEW pool, NEW class, NEW name, NEW desc, IsList(pool)
    PROVE  Grows(pool, classFile_intern_methodref(pool, class, name, desc).pool)
  <1> DEFINE n == classFile_intern_name_and_type(pool, name, desc)
             r == Intern(n.pool, Constant("Methodref", NoText, class, n.index))
  <1>1. classFile_intern_methodref(pool, class, name, desc) = IF n.ok THEN r ELSE n
    BY DEF classFile_intern_methodref, IfOk
  <1>2. Grows(pool, n.pool)
    BY InternNameAndTypeGrows
  <1> HIDE DEF n
  <1>3. Grows(n.pool, r.pool)
    BY <1>2, InternGrows DEF Grows
  <1> HIDE DEF r
  <1>4. Grows(pool, r.pool)
    BY <1>2, <1>3, GrowsTransitive
  <1> QED BY <1>1, <1>2, <1>4

-----------------------------------------------------------------------------
(* The entry frame and the value *)

IsFrame(f) ==
    /\ f = [ok |-> f.ok, pool |-> f.pool, locals |-> f.locals]
    /\ IsList(f.pool)

LEMMA EntryOfGrows ==
    ASSUME NEW f, NEW type, IsFrame(f)
    PROVE  IsFrame(EntryOf(f, type)) /\ Grows(f.pool, EntryOf(f, type).pool)
  <1> DEFINE class == classFile_intern_class(f.pool, ClassOfType(type))
             object == [ok |-> class.ok, pool |-> class.pool,
                        locals |-> Append(f.locals, <<"Object", class.index>>)]
             local == Append(f.locals, <<VerificationType(type), 0>>)
             other == [f EXCEPT !.locals = local]
  <1>1. Grows(f.pool, f.pool)
    BY GrowsReflexive DEF IsFrame
  <1>2. Grows(f.pool, class.pool)
    BY InternClassGrows DEF IsFrame
  <1>3. EntryOf(f, type) = IF ~f.ok THEN f ELSE IF type[1] > 0 \/ IsObject(type) THEN object ELSE other
    BY DEF EntryOf
  <1> HIDE DEF class, local
  <1>4. IsFrame(object) /\ Grows(f.pool, object.pool)
    BY <1>2 DEF IsFrame, Grows
  <1>5. IsFrame(other) /\ Grows(f.pool, other.pool)
    <2>1. other = [ok |-> f.ok, pool |-> f.pool, locals |-> local]
      BY DEF IsFrame
    <2> HIDE DEF other
    <2> QED BY <1>1, <2>1 DEF IsFrame
  <1> HIDE DEF object, other
  <1> QED BY <1>1, <1>3, <1>4, <1>5

\* The frames of the parameters before the n-th, one after the other.
FramesOf(g, start, types, n) ==
    g = [i \in 0..n |-> IF i = 0 THEN start ELSE EntryOf(g[i - 1], types[i])]

LEMMA FramesExist ==
    ASSUME NEW start, NEW types, NEW n \in Nat
    PROVE  \E g : FramesOf(g, start, types, n)
  <1> DEFINE T == {m \in Nat : ~ \E g : FramesOf(g, start, types, m)}
  <1> SUFFICES ASSUME T # {} PROVE FALSE
    OBVIOUS
  <1>1. PICK m \in T : \A k \in T : m <= k
    BY LeastNumber
  <1>2. m # 0
    <2> DEFINE g == [i \in 0..0 |-> start]
    <2>1. g = [i \in 0..0 |-> IF i = 0 THEN start ELSE EntryOf(g[i - 1], types[i])]
      OBVIOUS
    <2>2. FramesOf(g, start, types, 0)
      BY <2>1 DEF FramesOf
    <2> QED BY <2>2
  <1>3. m \in Nat /\ m - 1 \in Nat /\ ~(m <= m - 1)
    BY <1>2
  <1>4. m - 1 \notin T
    BY <1>1, <1>3
  <1>5. PICK g : FramesOf(g, start, types, m - 1)
    BY <1>3, <1>4
  <1> DEFINE h == [i \in 0..m |-> IF i = m THEN EntryOf(g[m - 1], types[m]) ELSE g[i]]
             H(i) == IF i = 0 THEN start ELSE EntryOf(h[i - 1], types[i])
  <1>6. \A i \in 0..(m - 1) : h[i] = g[i] /\ i # m
    BY <1>3
  <1>7. h[m] = EntryOf(g[m - 1], types[m])
    BY <1>3
  <1>8. h = [i \in 0..m |-> h[i]]
    OBVIOUS
  <1> HIDE DEF h
  <1>9. ASSUME NEW i \in 0..m
        PROVE  h[i] = H(i)
    <2>1. CASE i = m
      <3>1. m - 1 \in 0..(m - 1)
        BY <1>3
      <3> QED BY <1>2, <1>6, <1>7, <2>1, <3>1
    <2>2. CASE i = 0
      <3>1. 0 \in 0..(m - 1)
        BY <1>3
      <3>2. g[0] = start
        BY <1>5, <3>1 DEF FramesOf
      <3> QED BY <1>6, <2>2, <3>1, <3>2
    <2>3. CASE i # m /\ i # 0
      <3>1. i \in 0..(m - 1) /\ i - 1 \in 0..(m - 1)
        BY <1>3, <2>3
      <3>2. g[i] = EntryOf(g[i - 1], types[i])
        BY <1>5, <2>3, <3>1 DEF FramesOf
      <3> QED BY <1>6, <2>3, <3>1, <3>2
    <2> QED BY <2>1, <2>2, <2>3
  <1>10. h = [i \in 0..m |-> H(i)]
    BY <1>8, <1>9
  <1>11. FramesOf(h, start, types, m)
    BY <1>10 DEF FramesOf
  <1> QED BY <1>11

\* Parameter by parameter, the classes of the frame join the constant pool.
LEMMA FramesGrow ==
    ASSUME NEW g, NEW start, NEW types, NEW n \in Nat, FramesOf(g, start, types, n), IsFrame(start)
    PROVE  IsFrame(g[n]) /\ Grows(start.pool, g[n].pool)
  <1> DEFINE P(k) == IsFrame(g[k]) /\ Grows(start.pool, g[k].pool)
             T == {k \in 0..n : ~P(k)}
  <1> SUFFICES ASSUME T # {} PROVE FALSE
    OBVIOUS
  <1>1. T \in SUBSET Nat
    OBVIOUS
  <1>2. PICK m \in T : \A k \in T : m <= k
    BY <1>1, LeastNumber
  <1>3. ~P(m) /\ m \in 0..n
    OBVIOUS
  <1>4. m # 0
    <2>1. g[0] = start
      BY DEF FramesOf
    <2>2. P(0)
      BY <2>1, GrowsReflexive DEF IsFrame
    <2> QED BY <1>3, <2>2
  <1>5. m - 1 \in 0..n /\ ~(m <= m - 1)
    BY <1>3, <1>4
  <1>6. P(m - 1)
    BY <1>2, <1>5
  <1>7. g[m] = EntryOf(g[m - 1], types[m])
    BY <1>3, <1>4 DEF FramesOf
  <1>8. IsFrame(g[m]) /\ Grows(g[m - 1].pool, g[m].pool)
    BY <1>6, <1>7, EntryOfGrows
  <1>9. P(m)
    BY <1>6, <1>8, GrowsTransitive
  <1> QED BY <1>3, <1>9

LEMMA EntryFrameGrows ==
    ASSUME NEW c, NEW pool, NEW desc, NEW static, IsList(pool), Len(desc[2]) \in Nat
    PROVE  Grows(pool, build_entry_frame(c, pool, desc, static).pool)
  <1> DEFINE locals == IF static THEN <<>> ELSE <<<<"Object", c.this>>>>
             start == [ok |-> TRUE, pool |-> pool, locals |-> locals]
             n == Len(desc[2])
             frame == CHOOSE g : FramesOf(g, start, desc[2], n)
  <1>1. build_entry_frame(c, pool, desc, static) = frame[n]
    BY DEF build_entry_frame, FramesOf
  <1>2. IsFrame(start) /\ start.pool = pool
    BY DEF IsFrame
  <1> HIDE DEF start
  <1>3. FramesOf(frame, start, desc[2], n)
    BY FramesExist
  <1> HIDE DEF frame
  <1>4. Grows(pool, frame[n].pool)
    BY <1>2, <1>3, FramesGrow
  <1> QED BY <1>1, <1>4

LEMMA ValueNodesGrow ==
    ASSUME NEW pool, NEW own, NEW desc, NEW value_callee, NEW argument, IsList(pool)
    PROVE  Grows(pool, ValueNodes(pool, own, desc, value_callee, argument).pool)
  <1> DEFINE returns == desc[3]
             isReference == Letter(returns) = "L" \/ returns[1] > 0
             long == IsObject(returns) /\ returns[3] \in LongNames
             Value(ok, p, nodes) == [ok |-> ok, pool |-> p, nodes |-> nodes]
             returned == MethodDesc(<<IntType>>, IF isReference THEN JavaObject ELSE returns)
             ref == classFile_intern_methodref(pool, own, value_callee, returned)
             call == <<<<"sipush", argument>>, <<"invokestatic", ref.index>>>>
             cast == classFile_intern_class(ref.pool, ClassOfType(returns))
             casted == Value(cast.ok, cast.pool, Append(call, <<"checkcast", cast.index>>))
  <1>1. ValueNodes(pool, own, desc, value_callee, argument) =
            IF returns = VoidType THEN Value(TRUE, pool, <<>>)
            ELSE IF value_callee = NoText THEN Value(TRUE, pool, <<<<default_opcode_for(returns), 0>>>>)
            ELSE IF ~ValueDescriptorFits(returns) THEN Value(FALSE, pool, <<>>)
            ELSE IF isReference /\ ref.ok /\ long THEN Value(FALSE, ref.pool, <<>>)
            ELSE IF isReference /\ ref.ok THEN casted ELSE Value(ref.ok, ref.pool, call)
    BY DEF ValueNodes
  <1>2. Grows(pool, pool)
    BY GrowsReflexive
  <1>3. Grows(pool, ref.pool)
    BY InternMethodrefGrows
  <1> HIDE DEF ref, isReference, long
  <1>4. Grows(ref.pool, cast.pool)
    BY <1>3, InternClassGrows DEF Grows
  <1> HIDE DEF cast
  <1>5. Grows(pool, cast.pool)
    BY <1>3, <1>4, GrowsTransitive
  <1> QED BY <1>1, <1>2, <1>3, <1>5

-----------------------------------------------------------------------------
(* Classes and results *)

\* What every rewrite gives back.
GoodResult(c, r) ==
    /\ IsClassFile(r.cf)
    /\ Grows(c.pool, r.cf.pool)
    /\ r.status # "OK" => WithPool(r.cf, c.pool) = c

LEMMA WithPoolClass ==
    ASSUME NEW c, NEW q, IsClassFile(c), IsList(q)
    PROVE  /\ IsClassFile(WithPool(c, q)) /\ WithPool(c, q).pool = q
           /\ WithPool(c, q).methods = c.methods
           /\ WithPool(WithPool(c, q), c.pool) = c
  <1>1. WithPool(c, q) =
            [version |-> c.version, flags |-> c.flags, this |-> c.this, super |-> c.super,
             interfaces |-> c.interfaces, fields |-> c.fields, pool |-> q,
             methods |-> c.methods, attributes |-> c.attributes]
    BY DEF IsClassFile, WithPool
  <1> DEFINE d == WithPool(c, q)
  <1> HIDE DEF d
  <1>2. d = [version |-> c.version, flags |-> c.flags, this |-> c.this, super |-> c.super,
             interfaces |-> c.interfaces, fields |-> c.fields, pool |-> q,
             methods |-> c.methods, attributes |-> c.attributes]
    BY <1>1 DEF d
  <1>3. d.pool = q /\ d.methods = c.methods
    BY <1>2
  <1>4. IsClassFile(d)
    BY <1>2 DEF IsClassFile
  <1>5. WithPool(d, c.pool) = c
    BY <1>2 DEF IsClassFile, WithPool
  <1> QED BY <1>3, <1>4, <1>5 DEF d

LEMMA WithMethodsClass ==
    ASSUME NEW c, NEW list, IsClassFile(c), IsList(list)
    PROVE  /\ IsClassFile([c EXCEPT !.methods = list])
           /\ [c EXCEPT !.methods = list].pool = c.pool
           /\ [c EXCEPT !.methods = list].methods = list
           /\ [[c EXCEPT !.methods = list] EXCEPT !.methods = c.methods] = c
  <1> DEFINE d == [c EXCEPT !.methods = list]
  <1>1. d = [version |-> c.version, flags |-> c.flags, this |-> c.this, super |-> c.super,
             interfaces |-> c.interfaces, fields |-> c.fields, pool |-> c.pool,
             methods |-> list, attributes |-> c.attributes]
    BY DEF IsClassFile
  <1> HIDE DEF d
  <1>2. d.pool = c.pool /\ d.methods = list
    BY <1>1
  <1>3. IsClassFile(d)
    BY <1>1 DEF IsClassFile
  <1>4. [d EXCEPT !.methods = c.methods] = c
    BY <1>1 DEF IsClassFile
  <1> QED BY <1>2, <1>3, <1>4 DEF d

\* A call that is refused, and one that fails after it interned something.
LEMMA RefusedResult ==
    ASSUME NEW c, NEW s, IsClassFile(c)
    PROVE  GoodResult(c, Result(s, c))
  <1>1. IsList(c.pool)
    BY DEF IsClassFile
  <1>2. Grows(c.pool, c.pool)
    BY <1>1, GrowsReflexive
  <1>3. WithPool(c, c.pool) = c
    BY DEF IsClassFile, WithPool
  <1> QED BY <1>2, <1>3 DEF GoodResult, Result

LEMMA FailedResult ==
    ASSUME NEW c, NEW s, NEW q, IsClassFile(c), Grows(c.pool, q)
    PROVE  GoodResult(c, Result(s, WithPool(c, q)))
  <1>1. IsList(q)
    BY DEF Grows
  <1>2. /\ IsClassFile(WithPool(c, q)) /\ WithPool(c, q).pool = q
        /\ WithPool(WithPool(c, q), c.pool) = c
    BY <1>1, WithPoolClass
  <1> QED BY <1>2 DEF GoodResult, Result

LEMMA DoneResult ==
    ASSUME NEW c, NEW d, IsClassFile(d), Grows(c.pool, d.pool)
    PROVE  GoodResult(c, Result("OK", d))
  BY DEF GoodResult, Result

LEMMA SetCodeClass ==
    ASSUME NEW c, NEW i, NEW code, IsClassFile(c)
    PROVE  IsClassFile(SetCode(c, i, code)) /\ SetCode(c, i, code).pool = c.pool
  <1> DEFINE k == attribute_list_find(c, c.methods[i].attributes, Name("Code"))
             m == [c.methods[i] EXCEPT !.attributes[k].info = code]
             list == [c.methods EXCEPT ![i] = m]
  <1>1. SetCode(c, i, code) = [c EXCEPT !.methods = list]
    <2>1. SetCode(c, i, code) = [c EXCEPT !.methods[i].attributes[k].info = code]
      BY DEF SetCode
    <2> QED BY <2>1 DEF IsClassFile
  <1> HIDE DEF m
  <1>2. IsList(list)
    BY ListExcept DEF IsClassFile
  <1> HIDE DEF list
  <1>3. IsClassFile([c EXCEPT !.methods = list]) /\ [c EXCEPT !.methods = list].pool = c.pool
    BY <1>2, WithMethodsClass
  <1> QED BY ONLY <1>1, <1>3

\* member_list_find gives a place in the list, or none.
LEMMA FoundMethod ==
    ASSUME NEW c, NEW name, NEW desc, IsClassFile(c), classFile_find_method(c, name, desc) # 0
    PROVE  classFile_find_method(c, name, desc) \in 1..Len(c.methods)
  <1> DEFINE T == {i \in 1..Len(c.methods) : IsNamed(c, c.methods[i], name, desc)}
  <1>1. classFile_find_method(c, name, desc) = IF T # {} THEN Min(T) ELSE 0
    BY DEF classFile_find_method, SelectInSeq
  <1>2. T # {}
    BY <1>1
  <1>3. T \in SUBSET Nat
    OBVIOUS
  <1>4. \E x \in T : \A y \in T : x <= y
    BY <1>2, <1>3, LeastNumber
  <1>5. Min(T) \in T
    BY <1>4 DEF Min
  <1> QED BY <1>1, <1>2, <1>5

LEMMA InsertAndStoreClass ==
    ASSUME NEW c, NEW i, NEW code, NEW at, NEW nodes, NEW extra, NEW fault, IsClassFile(c)
    PROVE  LET r == InsertAndStore(c, i, code, at, nodes, extra, fault) IN
           IsClassFile(r.cf) /\ r.cf.pool = c.pool /\ (r.status # "OK" => r.cf = c)
  <1> DEFINE d == SetCode(c, i, code_editor_insert(code, at, nodes, extra))
             refusal == InsertRefusal(code, at, extra)
  <1>1. IsClassFile(d) /\ d.pool = c.pool
    BY SetCodeClass
  <1>2. InsertAndStore(c, i, code, at, nodes, extra, fault) =
            IF refusal # "OK" THEN Result(refusal, c)
            ELSE IF fault = "store" THEN Result("CLASSFILE", c) ELSE Result("OK", d)
    BY DEF InsertAndStore
  <1> HIDE DEF d, refusal
  <1> QED BY <1>1, <1>2 DEF Result

-----------------------------------------------------------------------------
(* The rewrites *)

LEMMA MakeNativeResult ==
    ASSUME NEW c, NEW name, NEW desc, NEW copy, NEW fault, IsClassFile(c)
    PROVE  GoodResult(c, class_transform_make_native(c, name, desc, copy, fault))
  <1> DEFINE i == classFile_find_method(c, name, desc)
             refusal == Refusal(c, i, {Name("<init>"), Name("<clinit>")})
             n == classFile_intern_utf8(c.pool, copy)
             m == c.methods[i]
             native == [m EXCEPT !.flags = @ \union {"NATIVE"},
                                 !.attributes = attribute_list_remove_named(c, @, Name("Code"))]
             moving == [m EXCEPT !.name = n.index, !.flags = copy_flags(@)]
             d == WithPool(c, n.pool)
             list == Append([d.methods EXCEPT ![i] = native], moving)
             done == [d EXCEPT !.methods = list]
  <1>1. class_transform_make_native(c, name, desc, copy, fault) =
            IF "INTERFACE" \in c.flags THEN Result("INTERFACE", c)
            ELSE IF classFile_find_method(c, copy, desc) # 0 THEN Result("NAME_IN_USE", c)
            ELSE IF refusal # "OK" THEN Result(refusal, c)
            ELSE IF ~n.ok \/ fault \in {"copy", "append"} THEN Result("CLASSFILE", d)
            ELSE Result("OK", done)
    <2>1. done = [d EXCEPT !.methods = Append([@ EXCEPT ![i] = native], moving)]
      OBVIOUS
    <2> HIDE DEF done
    <2> QED BY <2>1 DEF class_transform_make_native
  <1>2. \A s : GoodResult(c, Result(s, c))
    BY RefusedResult
  <1>3. Grows(c.pool, n.pool)
    BY InternUtf8Grows DEF IsClassFile
  <1> HIDE DEF i, refusal, n, native, moving
  <1>4. GoodResult(c, Result("CLASSFILE", d))
    BY <1>3, FailedResult
  <1>5. IsClassFile(d) /\ d.pool = n.pool
    BY <1>3, WithPoolClass DEF Grows
  <1> HIDE DEF d
  <1>6. IsList(list)
    <2>1. IsList([d.methods EXCEPT ![i] = native])
      BY <1>5, ListExcept DEF IsClassFile
    <2> QED BY <2>1, ListOps
  <1> HIDE DEF list
  <1>7. IsClassFile(done) /\ done.pool = n.pool
    BY <1>5, <1>6, WithMethodsClass
  <1> HIDE DEF done
  <1>8. GoodResult(c, Result("OK", done))
    BY <1>3, <1>7, DoneResult
  <1> QED BY <1>1, <1>2, <1>4, <1>8

Held(m, x) == [m EXCEPT !.attributes = Append(@, x)]
Appended(c, i, x) == [c EXCEPT !.methods[i] = Held(c.methods[i], x)]
Undone(c, i) == [c EXCEPT !.methods[i].attributes = RemoveAt(@, Len(@))]

\* The attribute that was appended for the code is removed again.
LEMMA AppendUndone ==
    ASSUME NEW c, IsClass(c), NEW i \in 1..Len(c.methods), NEW x
    PROVE  /\ IsClassFile(Appended(c, i, x)) /\ Appended(c, i, x).pool = c.pool
           /\ Undone(Appended(c, i, x), i) = c
  <1> DEFINE m == c.methods[i]
             longer == Append(m.attributes, x)
             held == Held(m, x)
             appended == Appended(c, i, x)
             list == [c.methods EXCEPT ![i] = held]
  <1>1. /\ m = [flags |-> m.flags, name |-> m.name, desc |-> m.desc, attributes |-> m.attributes]
        /\ IsList(m.attributes)
    BY DEF IsClass, IsMethod
  <1>2. IsClassFile(c) /\ IsList(c.methods)
    BY DEF IsClass, IsClassFile
  <1>3. RemoveAt(longer, Len(longer)) = m.attributes
    BY <1>1, RemoveAppended
  <1>4. held = [flags |-> m.flags, name |-> m.name, desc |-> m.desc, attributes |-> longer]
    <2>1. held = [m EXCEPT !.attributes = longer]
      BY DEF Held
    <2> HIDE DEF m, longer, held
    <2> QED BY ONLY <1>1, <2>1
  <1> HIDE DEF longer, held
  <1>5. IsList(list)
    BY <1>2, ListExcept
  <1>6. appended = [c EXCEPT !.methods = list]
    <2>1. appended = [c EXCEPT !.methods[i] = held]
      BY DEF Appended, held
    <2> HIDE DEF appended
    <2> QED BY <1>2, <2>1 DEF IsClassFile
  <1> HIDE DEF appended
  <1>7. list[i] = held
    <2>1. i \in DOMAIN c.methods
      BY <1>2 DEF IsList
    <2> QED BY <2>1
  <1>8. [list EXCEPT ![i] = m] = c.methods
    BY <1>2 DEF IsList
  <1> HIDE DEF list
  <1>9. /\ IsClassFile(appended) /\ appended.pool = c.pool /\ appended.methods = list
        /\ [appended EXCEPT !.methods = c.methods] = c
    <2>1. /\ IsClassFile([c EXCEPT !.methods = list]) /\ [c EXCEPT !.methods = list].pool = c.pool
          /\ [c EXCEPT !.methods = list].methods = list
          /\ [[c EXCEPT !.methods = list] EXCEPT !.methods = c.methods] = c
      BY ONLY <1>2, <1>5, WithMethodsClass
    <2> QED BY ONLY <1>6, <2>1
  <1>10. [held EXCEPT !.attributes = m.attributes] = m
    <2> HIDE DEF m
    <2> QED BY ONLY <1>1, <1>4
  <1> DEFINE undone == [appended EXCEPT !.methods[i].attributes = RemoveAt(@, Len(@))]
  <1>11. undone = [appended EXCEPT !.methods = [list EXCEPT ![i] = [held EXCEPT !.attributes = RemoveAt(@, Len(@))]]]
    <2>1. undone = [appended EXCEPT !.methods =
                       [appended.methods EXCEPT ![i] =
                           [appended.methods[i] EXCEPT !.attributes =
                               RemoveAt(appended.methods[i].attributes, Len(appended.methods[i].attributes))]]]
      BY <1>9 DEF IsClassFile
    <2> QED BY ONLY <1>7, <1>9, <2>1
  <1>12. [held EXCEPT !.attributes = RemoveAt(@, Len(@))] = m
    <2>1. held.attributes = longer
      BY <1>4
    <2> QED BY <1>3, <1>10, <2>1
  <1>13. undone = c
    BY ONLY <1>8, <1>9, <1>11, <1>12
  <1>14. Undone(appended, i) = c
    BY <1>13 DEF Undone
  <1> QED BY <1>9, <1>14 DEF appended

LEMMA RestoreResult ==
    ASSUME NEW c, NEW name, NEW desc, NEW copy, NEW fault, IsClass(c)
    PROVE  GoodResult(c, class_transform_restore(c, name, desc, copy, fault))
  <1> DEFINE k == classFile_find_method(c, copy, desc)
             i == classFile_find_method(c, name, desc)
             held == [c.methods[i] EXCEPT !.attributes = Append(@, Attribute(0, <<>>))]
             appended == [c EXCEPT !.methods[i] = held]
             undone == [appended EXCEPT !.methods[i].attributes = RemoveAt(@, Len(@))]
             source == appended.methods[k]
             code == source.attributes[attribute_list_find(appended, source.attributes, Name("Code"))]
             restored == [held EXCEPT !.flags = @ \ {"NATIVE"}, !.attributes = [@ EXCEPT ![Len(@)] = code]]
             list == RemoveAt([appended.methods EXCEPT ![i] = restored], k)
             done == [appended EXCEPT !.methods = list]
             missing == k = 0 \/ i = 0
             empty == ~HasCode(c, c.methods[k])
             gone == ~HasCode(appended, source)
  <1>1. class_transform_restore(c, name, desc, copy, fault) =
            IF missing THEN Result("METHOD_NOT_FOUND", c)
            ELSE IF empty THEN Result("NO_CODE", c)
            ELSE IF fault = "append" THEN Result("CLASSFILE", c)
            ELSE IF gone THEN Result("NO_CODE", undone)
            ELSE IF fault = "copy" THEN Result("CLASSFILE", undone)
            ELSE Result("OK", done)
    <2>1. done = [appended EXCEPT !.methods = RemoveAt([@ EXCEPT ![i] = restored], k)]
      OBVIOUS
    <2> HIDE DEF done
    <2> QED BY <2>1 DEF class_transform_restore
  <1>2. IsClassFile(c)
    BY DEF IsClass
  <1>3. \A s : GoodResult(c, Result(s, c))
    BY <1>2, RefusedResult
  <1>4. ~missing => k \in 1..Len(c.methods) /\ i \in 1..Len(c.methods)
    BY <1>2, FoundMethod
  <1> HIDE DEF k, i
  <1>5. ~missing => /\ IsClassFile(appended) /\ appended.pool = c.pool
                    /\ appended.methods = [c.methods EXCEPT ![i] = held] /\ undone = c
    <2> SUFFICES ASSUME ~missing
                 PROVE  /\ IsClassFile(appended) /\ appended.pool = c.pool
                        /\ appended.methods = [c.methods EXCEPT ![i] = held] /\ undone = c
      OBVIOUS
    <2> DEFINE x == Attribute(0, <<>>)
    <2>1. held = Held(c.methods[i], x)
      BY DEF Held
    <2>2. appended = Appended(c, i, x)
      BY DEF Appended, Held
    <2>3. i \in 1..Len(c.methods)
      BY <1>4
    <2>4. IsClass(c)
      OBVIOUS
    <2> HIDE DEF held, appended, missing, x
    <2>5. undone = Undone(Appended(c, i, x), i)
      BY ONLY <2>2 DEF undone, Undone
    <2> HIDE DEF undone
    <2>6. IsClassFile(appended) /\ appended.pool = c.pool
      BY ONLY <2>2, <2>3, <2>4, AppendUndone
    <2>7. undone = c
      BY ONLY <2>3, <2>4, <2>5, AppendUndone
    <2>8. appended.methods = [c.methods EXCEPT ![i] = held]
      BY <1>2 DEF appended, IsClassFile
    <2> QED BY ONLY <2>6, <2>7, <2>8
  <1> HIDE DEF restored, held, appended, undone, missing, empty, gone
  <1>6. ~missing => IsList(list)
    <2> DEFINE changed == [appended.methods EXCEPT ![i] = restored]
    <2> SUFFICES ASSUME ~missing
                 PROVE  IsList(list)
      OBVIOUS
    <2>1. Len(appended.methods) = Len(c.methods)
      BY <1>2, <1>5, ListExcept DEF IsClassFile
    <2>2. IsList(changed) /\ Len(changed) = Len(appended.methods)
      BY <1>5, ListExcept DEF IsClassFile
    <2> HIDE DEF changed
    <2>3. IsList(RemoveAt(changed, k))
      BY <1>4, <2>1, <2>2, ListRemoveAt
    <2> QED BY <2>3 DEF changed
  <1> HIDE DEF list
  <1>7. ~missing => IsClassFile(done) /\ done.pool = c.pool
    BY <1>5, <1>6, WithMethodsClass
  <1> HIDE DEF done
  <1>8. Grows(c.pool, c.pool)
    BY <1>2, GrowsReflexive DEF IsClassFile
  <1>9. ~missing => GoodResult(c, Result("OK", done))
    BY <1>7, <1>8, DoneResult
  <1> QED BY <1>1, <1>3, <1>5, <1>9

LEMMA StaticCallResult ==
    ASSUME NEW c, NEW name, NEW desc, NEW p, NEW owner, NEW callee, NEW argument, NEW forward,
           NEW fault, IsClassFile(c)
    PROVE  GoodResult(c, class_transform_insert_static_call(c, name, desc, p, owner, callee,
                             argument, forward, fault))
  <1> DEFINE i == classFile_find_method(c, name, desc)
             refusal == Refusal(c, i, {Name("<clinit>")})
             code == CodeOf(c, c.methods[i])
             described == describe_parameters(desc, "STATIC" \in c.methods[i].flags)
             own == classFile_intern_class(c.pool, owner)
             parameters == IF forward THEN described ELSE <<>>
             ref == classFile_intern_methodref(own.pool, own.index, callee,
                        build_callee_descriptor(parameters, VoidType))
             late == InitRefusal(c, i, code)
             d == WithPool(c, ref.pool)
             inserted == InsertAndStore(d, i, code, SafeOffset(c, i, code, p),
                             CallNodes(argument, parameters, ref.index), Pushed(parameters), fault)
             far == argument \notin -32768..32767
             failed == ~own.ok \/ fault = "load"
             many == Len(described) > MaxParameters
             wide == ~CalleeDescriptorFits(parameters)
             full == ~ref.ok
  <1>1. class_transform_insert_static_call(c, name, desc, p, owner, callee, argument, forward, fault) =
            IF far THEN Result("BAD_OFFSET", c)
            ELSE IF refusal # "OK" THEN Result(refusal, c)
            ELSE IF failed THEN Result("CLASSFILE", WithPool(c, own.pool))
            ELSE IF late # "OK" THEN Result(late, WithPool(c, own.pool))
            ELSE IF many THEN Result("METHOD_NOT_FOUND", WithPool(c, own.pool))
            ELSE IF wide THEN Result("METHOD_NOT_FOUND", WithPool(c, own.pool))
            ELSE IF full THEN Result("CLASSFILE", d) ELSE inserted
    BY DEF class_transform_insert_static_call
  <1>2. \A s : GoodResult(c, Result(s, c))
    BY RefusedResult
  <1>3. Grows(c.pool, own.pool)
    BY InternClassGrows DEF IsClassFile
  <1> HIDE DEF i, refusal, code, described, own, parameters, late, far, failed, many, wide, full
  <1>4. Grows(own.pool, ref.pool)
    BY <1>3, InternMethodrefGrows DEF Grows
  <1> HIDE DEF ref
  <1>5. Grows(c.pool, ref.pool)
    BY <1>3, <1>4, GrowsTransitive
  <1>6. \A s : GoodResult(c, Result(s, WithPool(c, own.pool)))
    BY <1>3, FailedResult
  <1>7. GoodResult(c, Result("CLASSFILE", d))
    BY <1>5, FailedResult
  <1>8. IsClassFile(d) /\ d.pool = ref.pool /\ WithPool(d, c.pool) = c
    BY <1>5, WithPoolClass DEF Grows
  <1> HIDE DEF d
  <1>9. /\ IsClassFile(inserted.cf) /\ inserted.cf.pool = d.pool
        /\ inserted.status # "OK" => inserted.cf = d
    BY <1>8, InsertAndStoreClass
  <1> HIDE DEF inserted
  <1>10. GoodResult(c, inserted)
    BY <1>5, <1>8, <1>9 DEF GoodResult
  <1>11. GoodResult(c, Result("BAD_OFFSET", c)) /\ GoodResult(c, Result(refusal, c))
    BY <1>2
  <1>12. /\ GoodResult(c, Result("CLASSFILE", WithPool(c, own.pool)))
         /\ GoodResult(c, Result(late, WithPool(c, own.pool)))
         /\ GoodResult(c, Result("METHOD_NOT_FOUND", WithPool(c, own.pool)))
    BY <1>6
  <1> QED BY ONLY <1>1, <1>7, <1>10, <1>11, <1>12

LEMMA GuardedCallResult ==
    ASSUME NEW c, NEW name, NEW desc, NEW owner, NEW callee, NEW value_callee, NEW argument,
           NEW fault, IsClassFile(c), Len(desc[2]) \in Nat
    PROVE  GoodResult(c, class_transform_insert_guarded_call(c, name, desc, owner, callee,
                             value_callee, argument, fault))
  <1> DEFINE i == classFile_find_method(c, name, desc)
             refusal == Refusal(c, i, {Name("<init>"), Name("<clinit>")})
             static == "STATIC" \in c.methods[i].flags
             code == CodeOf(c, c.methods[i])
             parameters == describe_parameters(desc, static)
             own == classFile_intern_class(c.pool, owner)
             ref == classFile_intern_methodref(own.pool, own.index, callee,
                        build_callee_descriptor(parameters, Primitive(0, "Z")))
             value == ValueNodes(ref.pool, own.index, desc, value_callee, argument)
             nodes == CallNodes(argument, parameters, ref.index) \o <<<<"ifeq", 0>>>>
                          \o value.nodes \o <<<<return_opcode_for(desc[3]), 0>>>>
             pushed == Max({Pushed(parameters), IF desc[3] = VoidType THEN 0 ELSE 2})
             frame == build_entry_frame(c, value.pool, desc, static)
             table == IF code.frames # <<>> THEN frame
                      ELSE classFile_intern_utf8(frame.pool, Name("StackMapTable"))
             guarded == Guard(code_editor_insert(code, 0, nodes, pushed), Len(parameters) + 3,
                              Len(nodes), frame.locals)
             d == WithPool(c, table.pool)
             done == SetCode(d, i, guarded)
             far == argument \notin -32768..32767
             unowned == ~own.ok \/ fault = "load"
             many == Len(parameters) > MaxParameters \/ ~CalleeDescriptorFits(parameters)
             uncalled == ~ref.ok
             unvalued == ~value.ok
             over == Len(parameters) + Len(value.nodes) + 4 > MaxNodes
             deep == InsertRefusal(code, 0, pushed) # "OK"
             unframed == ~frame.ok \/ fault = "append"
             unstored == ~table.ok \/ fault = "store"
             Failed(s, q) == Result(s, WithPool(c, q))
  <1>1. class_transform_insert_guarded_call(c, name, desc, owner, callee, value_callee, argument, fault) =
            IF far THEN Result("BAD_OFFSET", c)
            ELSE IF refusal # "OK" THEN Result(refusal, c)
            ELSE IF unowned THEN Failed("CLASSFILE", own.pool)
            ELSE IF many THEN Failed("METHOD_NOT_FOUND", own.pool)
            ELSE IF uncalled THEN Failed("CLASSFILE", ref.pool)
            ELSE IF unvalued THEN Failed("CLASSFILE", value.pool)
            ELSE IF over THEN Failed("OVERRUN", value.pool)
            ELSE IF deep THEN Failed("CLASSFILE", value.pool)
            ELSE IF unframed THEN Failed("CLASSFILE", frame.pool)
            ELSE IF unstored THEN Failed("CLASSFILE", table.pool)
            ELSE Result("OK", done)
    BY DEF class_transform_insert_guarded_call
  <1>2. Grows(c.pool, own.pool)
    BY InternClassGrows DEF IsClassFile
  <1> HIDE DEF i, refusal, static, code, parameters, own, nodes, pushed, guarded, far, unowned,
               many, uncalled, unvalued, over, deep, unframed, unstored
  <1>3. Grows(own.pool, ref.pool)
    BY <1>2, InternMethodrefGrows DEF Grows
  <1> HIDE DEF ref
  <1>4. Grows(ref.pool, value.pool)
    BY <1>3, ValueNodesGrow DEF Grows
  <1> HIDE DEF value
  <1>5. Grows(value.pool, frame.pool)
    BY <1>4, EntryFrameGrows DEF Grows
  <1> HIDE DEF frame
  <1>6. Grows(frame.pool, table.pool)
    <2>1. Grows(frame.pool, classFile_intern_utf8(frame.pool, Name("StackMapTable")).pool)
      BY <1>5, InternUtf8Grows DEF Grows
    <2>2. Grows(frame.pool, frame.pool)
      BY <1>5, GrowsReflexive DEF Grows
    <2> QED BY <2>1, <2>2
  <1> HIDE DEF table
  <1>7. Grows(c.pool, ref.pool)
    BY <1>2, <1>3, GrowsTransitive
  <1>8. Grows(c.pool, value.pool)
    BY <1>4, <1>7, GrowsTransitive
  <1>9. Grows(c.pool, frame.pool)
    BY <1>5, <1>8, GrowsTransitive
  <1>10. Grows(c.pool, table.pool)
    BY <1>6, <1>9, GrowsTransitive
  <1>11. GoodResult(c, Result("BAD_OFFSET", c)) /\ GoodResult(c, Result(refusal, c))
    BY RefusedResult
  <1>12. /\ GoodResult(c, Failed("CLASSFILE", own.pool))
         /\ GoodResult(c, Failed("METHOD_NOT_FOUND", own.pool))
         /\ GoodResult(c, Failed("CLASSFILE", ref.pool))
    BY <1>2, <1>7, FailedResult
  <1>13. /\ GoodResult(c, Failed("CLASSFILE", value.pool))
         /\ GoodResult(c, Failed("OVERRUN", value.pool))
         /\ GoodResult(c, Failed("CLASSFILE", frame.pool))
         /\ GoodResult(c, Failed("CLASSFILE", table.pool))
    BY <1>8, <1>9, <1>10, FailedResult
  <1>14. IsClassFile(d) /\ d.pool = table.pool
    BY <1>10, WithPoolClass DEF Grows
  <1> HIDE DEF d
  <1>15. IsClassFile(done) /\ done.pool = table.pool
    BY <1>14, SetCodeClass
  <1> HIDE DEF done, Failed
  <1>16. GoodResult(c, Result("OK", done))
    BY <1>10, <1>15, DoneResult
  <1> QED BY ONLY <1>1, <1>11, <1>12, <1>13, <1>16

\* A hook whose call cannot be written is taken out again.
LEMMA InsertCallResult ==
    ASSUME NEW c, NEW name, NEW desc, NEW p, NEW hook, NEW fault, IsClassFile(c)
    PROVE  GoodResult(c, class_transform_insert_call(c, name, desc, p, hook, fault))
  <1> DEFINE i == classFile_find_method(c, name, desc)
             refusal == Refusal(c, i, {Name("<clinit>")})
             static == "STATIC" \in c.methods[i].flags
             code == CodeOf(c, c.methods[i])
             n == classFile_intern_utf8(c.pool, hook)
             t == classFile_intern_utf8(n.pool, NoArguments)
             ref == classFile_intern_methodref(t.pool, c.this, hook, NoArguments)
             member == [name |-> n.index, desc |-> t.index, attributes |-> <<>>,
                        flags |-> {"PRIVATE", "FINAL", "NATIVE"}
                                      \union (IF static THEN {"STATIC"} ELSE {})]
             nodes == IF static THEN <<<<"invokestatic", ref.index>>>>
                      ELSE <<<<"aload_0", 0>>, <<"invokespecial", ref.index>>>>
             d == WithPool(c, ref.pool)
             list == Append(d.methods, member)
             declared == [d EXCEPT !.methods = Append(@, member)]
             late == InitRefusal(c, i, code)
             inserted ==
                 IF fault = "load" THEN Result("CLASSFILE", declared)
                 ELSE IF late # "OK" THEN Result(late, declared)
                 ELSE InsertAndStore(declared, i, code, SafeOffset(c, i, code, p), nodes, 1, fault)
             finished == IF inserted.status = "OK" THEN inserted
                         ELSE Result(inserted.status, Undeclare(inserted.cf, Len(inserted.cf.methods)))
             interface == "INTERFACE" \in c.flags
             used == classFile_find_method(c, hook, NoArguments) # 0
             unnamed == ~n.ok
             untyped == ~t.ok
             uncalled == ~ref.ok \/ fault = "append"
             Failed(q) == Result("CLASSFILE", WithPool(c, q))
  <1>1. class_transform_insert_call(c, name, desc, p, hook, fault) =
            IF interface THEN Result("INTERFACE", c)
            ELSE IF used THEN Result("NAME_IN_USE", c)
            ELSE IF refusal # "OK" THEN Result(refusal, c)
            ELSE IF unnamed THEN Failed(n.pool)
            ELSE IF untyped THEN Failed(t.pool)
            ELSE IF uncalled THEN Failed(ref.pool)
            ELSE finished
    BY ONLY ZenonT(30) DEF class_transform_insert_call
  <1>2. Grows(c.pool, n.pool)
    BY InternUtf8Grows DEF IsClassFile
  <1> HIDE DEF i, refusal, code, n, member, nodes, late, interface, used, unnamed, untyped, uncalled
  <1>3. Grows(n.pool, t.pool)
    BY <1>2, InternUtf8Grows DEF Grows
  <1> HIDE DEF t
  <1>4. Grows(t.pool, ref.pool)
    BY <1>3, InternMethodrefGrows DEF Grows
  <1> HIDE DEF ref
  <1>5. Grows(c.pool, t.pool)
    BY <1>2, <1>3, GrowsTransitive
  <1>6. Grows(c.pool, ref.pool)
    BY <1>4, <1>5, GrowsTransitive
  <1>7. /\ GoodResult(c, Result("INTERFACE", c)) /\ GoodResult(c, Result("NAME_IN_USE", c))
        /\ GoodResult(c, Result(refusal, c))
    BY RefusedResult
  <1>8. /\ GoodResult(c, Failed(n.pool)) /\ GoodResult(c, Failed(t.pool))
        /\ GoodResult(c, Failed(ref.pool))
    BY <1>2, <1>5, <1>6, FailedResult
  <1> HIDE DEF Failed
  <1>9. IsClassFile(d) /\ d.pool = ref.pool /\ WithPool(d, c.pool) = c
    BY <1>6, WithPoolClass DEF Grows
  <1> HIDE DEF d
  <1>10. IsList(d.methods)
    BY <1>9 DEF IsClassFile
  <1>11. IsList(list) /\ RemoveAt(list, Len(list)) = d.methods
    BY <1>10, ListOps, RemoveAppended
  <1> HIDE DEF list
  <1>12. /\ IsClassFile(declared) /\ declared.pool = d.pool /\ declared.methods = list
         /\ [declared EXCEPT !.methods = d.methods] = d
    <2>1. declared = [d EXCEPT !.methods = list]
      BY DEF list
    <2> HIDE DEF declared
    <2> QED BY <1>9, <1>11, <2>1, WithMethodsClass
  <1> HIDE DEF declared
  <1>13. Undeclare(declared, Len(declared.methods)) = d
    <2>1. Undeclare(declared, Len(declared.methods)) =
              [declared EXCEPT !.methods = RemoveAt(declared.methods, Len(declared.methods))]
      BY DEF Undeclare
    <2> QED BY <1>11, <1>12, <2>1
  <1>14. /\ IsClassFile(inserted.cf) /\ inserted.cf.pool = declared.pool
         /\ inserted.status # "OK" => inserted.cf = declared
    <2> DEFINE stored == InsertAndStore(declared, i, code, SafeOffset(c, i, code, p), nodes, 1, fault)
    <2>1. /\ IsClassFile(stored.cf) /\ stored.cf.pool = declared.pool
          /\ stored.status # "OK" => stored.cf = declared
      BY <1>12, InsertAndStoreClass
    <2> HIDE DEF stored
    <2>2. inserted = IF fault = "load" THEN Result("CLASSFILE", declared)
                     ELSE IF late # "OK" THEN Result(late, declared) ELSE stored
      BY DEF stored
    <2> HIDE DEF inserted
    <2> QED BY <1>12, <2>1, <2>2 DEF Result
  <1> HIDE DEF inserted
  <1>15. GoodResult(c, finished)
    <2>1. CASE inserted.status = "OK"
      BY <1>6, <1>9, <1>12, <1>14, <2>1 DEF GoodResult
    <2>2. CASE inserted.status # "OK"
      <3>1. finished = Result(inserted.status, d)
        BY <1>13, <1>14, <2>2
      <3> HIDE DEF finished
      <3> QED BY <1>6, <1>9, <3>1 DEF GoodResult, Result
    <2> QED BY <2>1, <2>2
  <1> HIDE DEF finished
  <1> QED BY ONLY <1>1, <1>7, <1>8, <1>15

-----------------------------------------------------------------------------
(* Every step *)

LEMMA EditIsGood ==
    ASSUME IsClass(cf), Next
    PROVE  GoodResult(cf, [status |-> status', cf |-> cf'])
  <1>0. IsClassFile(cf)
    BY DEF IsClass
  <1>1. CASE MakeNative
    <2>1. PICK call, fault : Edit(class_transform_make_native(cf, call.name, call.desc, call.copy, fault))
      BY <1>1 DEF MakeNative
    <2> DEFINE r == class_transform_make_native(cf, call.name, call.desc, call.copy, fault)
    <2>2. GoodResult(cf, r)
      BY <1>0, MakeNativeResult
    <2>3. cf' = r.cf /\ status' = r.status
      BY <2>1 DEF Edit
    <2> HIDE DEF r
    <2> QED BY <2>2, <2>3 DEF GoodResult
  <1>2. CASE Restore
    <2>1. PICK call, fault : Edit(class_transform_restore(cf, call.name, call.desc, call.copy, fault))
      BY <1>2 DEF Restore
    <2> DEFINE r == class_transform_restore(cf, call.name, call.desc, call.copy, fault)
    <2>2. GoodResult(cf, r)
      BY RestoreResult
    <2>3. cf' = r.cf /\ status' = r.status
      BY <2>1 DEF Edit
    <2> HIDE DEF r
    <2> QED BY <2>2, <2>3 DEF GoodResult
  <1>3. CASE InsertStaticCall
    <2>1. PICK call, fault :
              Edit(class_transform_insert_static_call(cf, call.name, call.desc, call.at, call.owner,
                       call.callee, call.argument, call.forward, fault))
      BY <1>3 DEF InsertStaticCall
    <2> DEFINE r == class_transform_insert_static_call(cf, call.name, call.desc, call.at, call.owner,
                        call.callee, call.argument, call.forward, fault)
    <2>2. GoodResult(cf, r)
      BY <1>0, StaticCallResult
    <2>3. cf' = r.cf /\ status' = r.status
      BY <2>1 DEF Edit
    <2> HIDE DEF r
    <2> QED BY <2>2, <2>3 DEF GoodResult
  <1>4. CASE InsertGuardedCall
    <2>1. PICK call \in Calls.guarded, fault \in Fault :
              Edit(class_transform_insert_guarded_call(cf, call.name, call.desc, call.owner,
                       call.callee, call.value, call.argument, fault))
      BY <1>4 DEF InsertGuardedCall
    <2> DEFINE r == class_transform_insert_guarded_call(cf, call.name, call.desc, call.owner,
                        call.callee, call.value, call.argument, fault)
    <2>2. Len(call.desc[2]) \in Nat
      BY <2>1, ClassTransformAssumption DEF HasTypes, IsList
    <2>3. GoodResult(cf, r)
      BY <1>0, <2>2, GuardedCallResult
    <2>4. cf' = r.cf /\ status' = r.status
      BY <2>1 DEF Edit
    <2> HIDE DEF r
    <2> QED BY <2>3, <2>4 DEF GoodResult
  <1>5. CASE InsertCall
    <2>1. PICK call, fault :
              Edit(class_transform_insert_call(cf, call.name, call.desc, call.at, call.hook, fault))
      BY <1>5 DEF InsertCall
    <2> DEFINE r == class_transform_insert_call(cf, call.name, call.desc, call.at, call.hook, fault)
    <2>2. GoodResult(cf, r)
      BY <1>0, InsertCallResult
    <2>3. cf' = r.cf /\ status' = r.status
      BY <2>1 DEF Edit
    <2> HIDE DEF r
    <2> QED BY <2>2, <2>3 DEF GoodResult
  <1> QED BY <1>1, <1>2, <1>3, <1>4, <1>5 DEF Next

-----------------------------------------------------------------------------
(* Texts, attributes and methods under a pool that grows *)

LEMMA TextKept ==
    ASSUME NEW p, NEW q, Grows(p, q), NEW i \in 1..Len(p)
    PROVE  constant_pool_utf8(q, i) = constant_pool_utf8(p, i) /\ i \in 1..Len(q)
  <1>1. Len(p) \in Nat /\ Len(q) \in Nat /\ Len(p) <= Len(q) /\ q[i] = p[i]
    BY DEF Grows, IsList
  <1>2. i \in 1..Len(q)
    BY <1>1
  <1> QED BY <1>1, <1>2 DEF constant_pool_utf8, HasConstant

\* The least member of a set of places, if it has one.
LEMMA LeastPlace ==
    ASSUME NEW n \in Nat, NEW T \in SUBSET (1..n), T # {}
    PROVE  Min(T) \in T
  <1>1. T \in SUBSET Nat
    OBVIOUS
  <1>2. \E x \in T : \A y \in T : x <= y
    BY <1>1, LeastNumber
  <1> QED BY <1>2 DEF Min

\* What was interned is in the pool, at the index that was handed out.
LEMMA InternedText ==
    ASSUME NEW pool, NEW text, IsList(pool), classFile_intern_utf8(pool, text).ok
    PROVE  LET r == classFile_intern_utf8(pool, text) IN
           r.index \in 1..Len(r.pool) /\ constant_pool_utf8(r.pool, r.index) = text
  <1> DEFINE entry == Utf8(text)
             r == classFile_intern_utf8(pool, text)
             n == Len(pool)
             T == {i \in 1..n : pool[i] = entry}
  <1>1. entry # Empty /\ entry.tag = "Utf8" /\ entry.text = text
    BY DEF Utf8, Empty, Constant
  <1>2. n \in Nat
    BY DEF IsList
  <1> HIDE DEF entry
  <1>3. r.index \in 1..Len(r.pool) /\ r.pool[r.index] = entry
    <2>1. CASE T # {}
      <3>1. r = [ok |-> TRUE, pool |-> pool, index |-> Min(T)]
        BY <2>1 DEF classFile_intern_utf8, Intern, SelectInSeq, entry
      <3>2. Min(T) \in T
        BY <1>2, <2>1, LeastPlace
      <3> HIDE DEF r
      <3> QED BY <3>1, <3>2
    <2>2. CASE T = {}
      <3> DEFINE longer == pool \o Slots(entry)
      <3>1. r = constant_pool_append(pool, entry)
        BY <2>2 DEF classFile_intern_utf8, Intern, entry
      <3>2. r.pool = longer /\ r.index = n + 1
        BY <3>1 DEF constant_pool_append
      <3>3. Len(longer) = n + 1 /\ longer[n + 1] = entry
        <4> DEFINE S == {pool[i] : i \in 1..n} \union {entry, Empty}
        <4>1. /\ \A i \in 1..n : pool[i] \in S
              /\ entry \in S
          OBVIOUS
        <4>2. Slots(entry) = <<entry>> \o <<>>
          BY <1>1 DEF Slots, cp_info_slots
        <4> HIDE DEF S
        <4>3. pool \in Seq(S) /\ <<entry>> \in Seq(S)
          BY <4>1, ListIsSeq
        <4>4. Slots(entry) = <<entry>>
          BY <4>2, <4>3
        <4> QED BY <1>2, <4>3, <4>4
      <3> QED BY <1>2, <3>2, <3>3
    <2> QED BY <2>1, <2>2
  <1> HIDE DEF r
  <1>4. constant_pool_utf8(r.pool, r.index) = text
    BY <1>1, <1>3 DEF constant_pool_utf8, HasConstant
  <1> QED BY <1>3, <1>4 DEF r

\* The place of the only Code attribute.
LEMMA CodeFound ==
    ASSUME NEW c, NEW list, IsList(list), NEW k \in 1..Len(list), IsCode(c, list[k]),
           \A i \in 1..Len(list) : IsCode(c, list[i]) => i = k
    PROVE  attribute_list_find(c, list, Name("Code")) = k
  <1> DEFINE T == {i \in 1..Len(list) : constant_pool_utf8(c.pool, list[i].name) = Name("Code")}
  <1>1. attribute_list_find(c, list, Name("Code")) = IF T # {} THEN Min(T) ELSE 0
    BY DEF attribute_list_find, SelectInSeq
  <1>2. k \in T /\ \A i \in T : i = k
    BY DEF IsCode
  <1>3. Len(list) \in Nat
    BY DEF IsList
  <1>4. Min(T) \in T
    BY <1>2, <1>3, LeastPlace
  <1> HIDE DEF T
  <1> QED BY <1>1, <1>2, <1>4

LEMMA CodeMissing ==
    ASSUME NEW c, NEW list, \A i \in 1..Len(list) : ~IsCode(c, list[i])
    PROVE  attribute_list_find(c, list, Name("Code")) = 0
  <1> DEFINE T == {i \in 1..Len(list) : constant_pool_utf8(c.pool, list[i].name) = Name("Code")}
  <1>1. attribute_list_find(c, list, Name("Code")) = IF T # {} THEN Min(T) ELSE 0
    BY DEF attribute_list_find, SelectInSeq
  <1>2. T = {}
    BY DEF IsCode
  <1> QED BY <1>1, <1>2

\* The code of a method, by its attribute.
LEMMA CodePlace ==
    ASSUME NEW c, NEW m, IsMethod(c, m), HasCode(c, m)
    PROVE  LET k == attribute_list_find(c, m.attributes, Name("Code")) IN
           k \in 1..Len(m.attributes) /\ IsCode(c, m.attributes[k]) /\ CodeOf(c, m) = m.attributes[k].info
  <1> DEFINE list == m.attributes
             k == attribute_list_find(c, list, Name("Code"))
  <1>1. k # 0
    BY DEF HasCode
  <1>2. PICK i \in 1..Len(list) : IsCode(c, list[i])
    BY <1>1, CodeMissing
  <1>3. IsList(list) /\ \A j \in 1..Len(list) : IsCode(c, list[j]) => j = i
    BY <1>2 DEF IsMethod
  <1>4. k = i
    BY <1>2, <1>3, CodeFound
  <1> HIDE DEF k
  <1> QED BY <1>2, <1>4 DEF CodeOf, k

LEMMA NoCodePlace ==
    ASSUME NEW c, NEW m, IsMethod(c, m), ~HasCode(c, m)
    PROVE  \A i \in 1..Len(m.attributes) : ~IsCode(c, m.attributes[i])
  <1> DEFINE list == m.attributes
  <1> SUFFICES ASSUME NEW i \in 1..Len(list), IsCode(c, list[i])
               PROVE  FALSE
    OBVIOUS
  <1>1. IsList(list) /\ \A j \in 1..Len(list) : IsCode(c, list[j]) => j = i
    BY DEF IsMethod
  <1>2. attribute_list_find(c, list, Name("Code")) = i
    BY <1>1, CodeFound
  <1>3. i # 0
    BY <1>1 DEF IsList
  <1> QED BY <1>2, <1>3 DEF HasCode

\* A method means the same in a class whose pool has grown.
LEMMA MethodKept ==
    ASSUME NEW c, NEW d, NEW m, Grows(c.pool, d.pool), IsMethod(c, m)
    PROVE  /\ IsMethod(d, m)
           /\ constant_pool_utf8(d.pool, m.name) = constant_pool_utf8(c.pool, m.name)
           /\ constant_pool_utf8(d.pool, m.desc) = constant_pool_utf8(c.pool, m.desc)
           /\ HasCode(d, m) <=> HasCode(c, m)
           /\ CodeOf(d, m) = CodeOf(c, m)
  <1> DEFINE list == m.attributes
             name == Name("Code")
             C == {i \in 1..Len(list) : constant_pool_utf8(c.pool, list[i].name) = name}
             D == {i \in 1..Len(list) : constant_pool_utf8(d.pool, list[i].name) = name}
  <1>1. /\ m.name \in 1..Len(d.pool) /\ m.desc \in 1..Len(d.pool)
        /\ constant_pool_utf8(d.pool, m.name) = constant_pool_utf8(c.pool, m.name)
        /\ constant_pool_utf8(d.pool, m.desc) = constant_pool_utf8(c.pool, m.desc)
    BY TextKept DEF IsMethod
  <1>2. ASSUME NEW i \in 1..Len(list)
        PROVE  /\ list[i].name \in 1..Len(d.pool)
               /\ constant_pool_utf8(d.pool, list[i].name) = constant_pool_utf8(c.pool, list[i].name)
    <2>1. list[i].name \in 1..Len(c.pool)
      BY DEF IsMethod
    <2> QED BY <2>1, TextKept
  <1>3. \A i \in 1..Len(list) : IsCode(d, list[i]) <=> IsCode(c, list[i])
    BY <1>2 DEF IsCode
  <1>4. attribute_list_find(d, list, name) = attribute_list_find(c, list, name)
    <2>1. C = D
      BY <1>2
    <2>2. attribute_list_find(c, list, name) = IF C # {} THEN Min(C) ELSE 0
      BY DEF attribute_list_find, SelectInSeq
    <2>3. attribute_list_find(d, list, name) = IF D # {} THEN Min(D) ELSE 0
      BY DEF attribute_list_find, SelectInSeq
    <2> HIDE DEF C, D
    <2> QED BY <2>1, <2>2, <2>3
  <1>5. HasCode(d, m) <=> HasCode(c, m)
    BY <1>4 DEF HasCode
  <1>6. CodeOf(d, m) = CodeOf(c, m)
    BY <1>4 DEF CodeOf
  <1>7. IsMethod(d, m)
    BY <1>1, <1>2, <1>3, <1>5 DEF IsMethod
  <1> QED BY <1>1, <1>5, <1>6, <1>7

-----------------------------------------------------------------------------
(* What an insertion leaves of a body *)

LEMMA SameSize ==
    ASSUME NEW A, NEW B, NEW f \in [A -> B], IsFiniteSet(A),
           \A x, y \in A : f[x] = f[y] => x = y,
           \A y \in B : \E x \in A : f[x] = y
    PROVE  Cardinality(B) = Cardinality(A)
  <1>1. f \in Bijection(A, B)
    BY DEF Bijection, Injection, Surjection, IsInjective
  <1>2. ExistsBijection(A, B)
    BY <1>1 DEF ExistsBijection
  <1> QED BY <1>2, FS_Bijection

\* Jumps may have new targets.
SameNode(x, y) == x[1] = y[1] /\ (IsOriginalNode(x) => Untargeted(y) = Untargeted(x))

\* The same instructions, the ones behind place p moved by n.
Shifted(a, b, p, n) ==
    /\ IsList(a.nodes) /\ IsList(b.nodes)
    /\ p \in 0..Len(a.nodes) /\ n \in Nat
    /\ Len(b.nodes) = Len(a.nodes) + n
    /\ \A i \in 1..p : SameNode(a.nodes[i], b.nodes[i])
    /\ \A i \in (p + 1)..Len(a.nodes) : SameNode(a.nodes[i], b.nodes[i + n])
    /\ \A i \in (p + 1)..(p + n) : ~IsOriginalNode(b.nodes[i])

LEMMA CoreShifted ==
    ASSUME NEW a, NEW b, NEW p, NEW n, Shifted(a, b, p, n)
    PROVE  Core(b) = Core(a)
  <1> DEFINE Sh(i) == IF i <= p THEN i ELSE i + n
             K == Kept(a)
             L == Kept(b)
             A(i) == {j \in K : j <= i}
             B(i) == {j \in L : j <= i}
  <1>1. PICK len \in Nat : len = Len(a.nodes) /\ p \in 0..len /\ n \in Nat /\ Len(b.nodes) = len + n
    BY DEF Shifted, IsList
  <1>2. K \subseteq 1..len /\ L \subseteq 1..(len + n)
    BY <1>1 DEF Kept
  <1>3. ASSUME NEW i \in K
        PROVE  Sh(i) \in L /\ Untargeted(b.nodes[Sh(i)]) = Untargeted(a.nodes[i])
    <2>1. i \in 1..len /\ IsOriginalNode(a.nodes[i])
      BY <1>1 DEF Kept
    <2>2. b.nodes[Sh(i)][1] = a.nodes[i][1] /\ Untargeted(b.nodes[Sh(i)]) = Untargeted(a.nodes[i])
      <3>1. CASE i <= p
        <4>1. i \in 1..p
          BY <1>1, <2>1, <3>1
        <4> QED BY <2>1, <3>1, <4>1 DEF Shifted, SameNode
      <3>2. CASE ~(i <= p)
        <4>1. i \in (p + 1)..Len(a.nodes)
          BY <1>1, <2>1, <3>2
        <4> QED BY <2>1, <3>2, <4>1 DEF Shifted, SameNode
      <3> QED BY <3>1, <3>2
    <2>3. Sh(i) \in 1..(len + n)
      BY <1>1, <2>1
    <2> HIDE DEF Sh
    <2>4. IsOriginalNode(b.nodes[Sh(i)])
      BY <2>1, <2>2 DEF IsOriginalNode
    <2> QED BY <1>1, <2>2, <2>3, <2>4 DEF Kept
  <1>4. ASSUME NEW j \in L
        PROVE  \E i \in K : j = Sh(i)
    <2>1. j \in 1..(len + n) /\ IsOriginalNode(b.nodes[j])
      BY <1>1 DEF Kept
    <2>2. j \notin (p + 1)..(p + n)
      BY <2>1 DEF Shifted
    <2>3. CASE j <= p
      <3>1. j \in 1..p /\ j \in 1..len /\ Sh(j) = j
        BY <1>1, <2>1, <2>3
      <3>2. b.nodes[j][1] = a.nodes[j][1]
        BY <3>1 DEF Shifted, SameNode
      <3>3. j \in K
        BY <1>1, <2>1, <3>1, <3>2 DEF Kept, IsOriginalNode
      <3> QED BY <3>1, <3>3
    <2>4. CASE ~(j <= p)
      <3>1. PICK i \in (p + 1)..len : j = i + n
        <4>1. j - n \in (p + 1)..len /\ j = (j - n) + n
          BY <1>1, <2>1, <2>2, <2>4
        <4> QED BY <4>1
      <3>2. i \in 1..len /\ Sh(i) = j
        BY <1>1, <3>1
      <3>3. b.nodes[i + n][1] = a.nodes[i][1]
        BY <1>1, <3>1 DEF Shifted, SameNode
      <3>4. i \in K
        BY <1>1, <2>1, <3>1, <3>2, <3>3 DEF Kept, IsOriginalNode
      <3> QED BY <3>2, <3>4
    <2> QED BY <2>3, <2>4
  <1>5. /\ \A i, j \in K : i <= j <=> Sh(i) <= Sh(j)
        /\ \A i, j \in K : Sh(i) = Sh(j) => i = j
    BY <1>1, <1>2
  <1> HIDE DEF Sh, K, L
  <1>6. ASSUME NEW i \in K
        PROVE  Cardinality(B(Sh(i))) = Cardinality(A(i))
    <2> DEFINE f == [j \in A(i) |-> Sh(j)]
    <2>1. IsFiniteSet(A(i))
      <3>1. A(i) \subseteq 1..len
        BY <1>2
      <3>2. IsFiniteSet(1..len)
        BY FS_Interval
      <3> QED BY <3>1, <3>2, FS_Subset
    <2>2. f \in [A(i) -> B(Sh(i))]
      BY <1>3, <1>5
    <2>3. \A x, y \in A(i) : f[x] = f[y] => x = y
      BY <1>5
    <2>4. \A y \in B(Sh(i)) : \E x \in A(i) : f[x] = y
      <3> SUFFICES ASSUME NEW y \in B(Sh(i))
                   PROVE  \E x \in A(i) : f[x] = y
        OBVIOUS
      <3>1. PICK x \in K : y = Sh(x)
        BY <1>4
      <3>2. x \in A(i)
        BY <1>5, <3>1
      <3> QED BY <3>1, <3>2
    <2> HIDE DEF f, A, B
    <2> QED BY <2>1, <2>2, <2>3, <2>4, SameSize
  <1> HIDE DEF A, B
  <1>7. Core(a) = {<<Cardinality(A(i)), Untargeted(a.nodes[i])>> : i \in K}
    BY DEF Core, A, K
  <1>8. Core(b) = {<<Cardinality(B(j)), Untargeted(b.nodes[j])>> : j \in L}
    BY DEF Core, B, L
  <1>9. {<<Cardinality(A(i)), Untargeted(a.nodes[i])>> : i \in K}
            = {<<Cardinality(B(j)), Untargeted(b.nodes[j])>> : j \in L}
    <2>1. ASSUME NEW i \in K
          PROVE  \E j \in L : <<Cardinality(A(i)), Untargeted(a.nodes[i])>>
                                  = <<Cardinality(B(j)), Untargeted(b.nodes[j])>>
      BY <1>3, <1>6
    <2>2. ASSUME NEW j \in L
          PROVE  \E i \in K : <<Cardinality(B(j)), Untargeted(b.nodes[j])>>
                                  = <<Cardinality(A(i)), Untargeted(a.nodes[i])>>
      <3>1. PICK i \in K : j = Sh(i)
        BY <1>4
      <3> QED BY <1>3, <1>6, <3>1
    <2> QED BY <2>1, <2>2
  <1> QED BY <1>7, <1>8, <1>9

\* code_editor_insert puts its nodes between the ones of the body.
LEMMA InsertShifts ==
    ASSUME NEW code, NEW p, NEW nodes, NEW extra, IsBody(code), p \in 0..Len(code.nodes),
           IsList(nodes), \A i \in 1..Len(nodes) : ~IsOriginalNode(nodes[i])
    PROVE  LET r == code_editor_insert(code, p, nodes, extra) IN
           /\ IsBody(r) /\ Shifted(code, r, p, Len(nodes))
           /\ \A i \in 1..Len(nodes) : r.nodes[p + i][1] = nodes[i][1]
  <1> DEFINE old == code.nodes
             len == Len(old)
             n == Len(nodes)
             front == SubSeq(old, 1, p)
             back == SubSeq(old, p + 1, len)
             all == front \o nodes \o back
             Moved(x) == IF x[1] \in {"ifeq", "goto"} THEN <<x[1], shift_after(x[2], p, n)>> ELSE x
             frames == [i \in DOMAIN code.frames |->
                           [code.frames[i] EXCEPT !.at = shift_after(@, p, n)]]
             list == [i \in DOMAIN all |-> Moved(all[i])]
             r == code_editor_insert(code, p, nodes, extra)
             S == {old[i] : i \in 1..len} \union {nodes[i] : i \in 1..n}
  <1>1. r = [nodes |-> list, stack |-> code.stack + extra, frames |-> frames]
    BY DEF code_editor_insert
  <1>2. len \in Nat /\ n \in Nat /\ p \in 0..len /\ IsList(old)
    BY DEF IsBody, IsList
  <1>3. /\ \A i \in 1..len : old[i] \in S
        /\ \A i \in 1..n : nodes[i] \in S
    OBVIOUS
  <1> HIDE DEF S
  <1>4. old \in Seq(S) /\ nodes \in Seq(S)
    BY <1>2, <1>3, ListIsSeq
  <1> HIDE DEF old
  <1>5. /\ front \in Seq(S) /\ Len(front) = p
        /\ \A i \in 1..p : front[i] = old[i]
    BY <1>2, <1>4
  <1>6. /\ back \in Seq(S) /\ Len(back) = len - p
        /\ \A i \in 1..(len - p) : back[i] = old[p + i]
    BY <1>2, <1>4
  <1> HIDE DEF front, back
  <1> DEFINE head == front \o nodes
  <1>7. /\ head \in Seq(S) /\ Len(head) = p + n
        /\ \A i \in 1..p : head[i] = front[i]
        /\ \A i \in 1..n : head[p + i] = nodes[i]
    BY <1>2, <1>4, <1>5, Joined
  <1> HIDE DEF head
  <1>8. all = head \o back
    BY DEF head
  <1> HIDE DEF all
  <1>9. /\ all \in Seq(S) /\ Len(all) = (p + n) + (len - p)
        /\ \A i \in 1..(p + n) : all[i] = head[i]
        /\ \A i \in 1..(len - p) : all[(p + n) + i] = back[i]
    <2>1. p + n \in Nat /\ len - p \in Nat
      BY <1>2
    <2> DEFINE h == p + n
               k == len - p
    <2> HIDE DEF h, k
    <2>2. /\ head \o back \in Seq(S) /\ Len(head \o back) = h + k
          /\ \A i \in 1..h : (head \o back)[i] = head[i]
          /\ \A i \in 1..k : (head \o back)[h + i] = back[i]
      <3>1. h \in Nat /\ h = Len(head) /\ k \in Nat /\ k = Len(back)
        BY <1>6, <1>7, <2>1 DEF h, k
      <3>2. head \in Seq(S) /\ back \in Seq(S)
        BY <1>6, <1>7
      <3> QED BY ONLY <3>1, <3>2, Joined
    <2> QED BY <1>8, <2>2 DEF h, k
  <1>23. Len(all) = len + n
    BY <1>2, <1>9
  <1>10. \A i \in 1..p : all[i] = old[i]
    <2>1. \A i \in 1..p : i \in 1..(p + n)
      BY <1>2
    <2> QED BY <1>5, <1>7, <1>9, <2>1
  <1>11. \A i \in 1..n : all[p + i] = nodes[i]
    <2>1. \A i \in 1..n : p + i \in 1..(p + n)
      BY <1>2
    <2> QED BY <1>7, <1>9, <2>1
  <1>12. \A i \in (p + 1)..len : all[i + n] = old[i]
    <2> SUFFICES ASSUME NEW i \in (p + 1)..len
                 PROVE  all[i + n] = old[i]
      OBVIOUS
    <2>1. i - p \in 1..(len - p) /\ i + n = (p + n) + (i - p) /\ p + (i - p) = i
      BY <1>2
    <2>2. all[(p + n) + (i - p)] = back[i - p] /\ back[i - p] = old[p + (i - p)]
      BY <1>6, <1>9, <2>1
    <2> QED BY <2>1, <2>2
  <1>13. list = [i \in 1..(len + n) |-> Moved(all[i])]
    BY <1>9, <1>23
  <1>14. IsList(list) /\ Len(list) = len + n
    <2>1. list \in Seq({Moved(all[i]) : i \in 1..(len + n)}) /\ Len(list) = len + n
      BY <1>2, <1>13
    <2> QED BY <2>1, SeqIsList
  <1>15. \A i \in 1..(len + n) : list[i] = Moved(all[i])
    BY <1>13
  <1>16. r.nodes = list /\ IsBody(r)
    <2> HIDE DEF list, frames, r
    <2> QED BY <1>1, <1>14 DEF IsBody
  <1> HIDE DEF list, frames, r
  <1>17. ASSUME NEW x
         PROVE  SameNode(x, Moved(x)) /\ Moved(x)[1] = x[1]
    BY DEF SameNode, Untargeted, IsOriginalNode
  <1> HIDE DEF Moved
  <1>18. \A i \in 1..p : SameNode(old[i], list[i])
    <2>1. \A i \in 1..p : i \in 1..(len + n)
      BY <1>2
    <2> QED BY <1>10, <1>15, <1>17, <2>1
  <1>19. \A i \in (p + 1)..len : SameNode(old[i], list[i + n])
    <2>1. \A i \in (p + 1)..len : i + n \in 1..(len + n)
      BY <1>2
    <2> QED BY <1>12, <1>15, <1>17, <2>1
  <1>20. \A i \in 1..n : list[p + i][1] = nodes[i][1]
    <2>1. \A i \in 1..n : p + i \in 1..(len + n)
      BY <1>2
    <2> QED BY <1>11, <1>15, <1>17, <2>1
  <1>21. \A i \in (p + 1)..(p + n) : ~IsOriginalNode(list[i])
    <2> SUFFICES ASSUME NEW i \in (p + 1)..(p + n)
                 PROVE  ~IsOriginalNode(list[i])
      OBVIOUS
    <2>1. i - p \in 1..n /\ p + (i - p) = i
      BY <1>2
    <2>2. list[i][1] = nodes[i - p][1]
      BY <1>20, <2>1
    <2>3. ~IsOriginalNode(nodes[i - p])
      BY <2>1
    <2> QED BY <2>2, <2>3 DEF IsOriginalNode
  <1>22. Shifted(code, r, p, n)
    BY <1>2, <1>14, <1>16, <1>18, <1>19, <1>21 DEF Shifted, old
  <1> QED BY <1>16, <1>20, <1>22 DEF r

LEMMA InsertKeepsCore ==
    ASSUME NEW code, NEW p, NEW nodes, NEW extra, IsBody(code), p \in 0..Len(code.nodes),
           IsList(nodes), \A i \in 1..Len(nodes) : ~IsOriginalNode(nodes[i])
    PROVE  LET r == code_editor_insert(code, p, nodes, extra) IN
           IsBody(r) /\ Core(r) = Core(code)
  <1> DEFINE r == code_editor_insert(code, p, nodes, extra)
  <1>1. IsBody(r) /\ Shifted(code, r, p, Len(nodes))
    BY InsertShifts
  <1> HIDE DEF r
  <1>2. Core(r) = Core(code)
    BY <1>1, CoreShifted
  <1> QED BY <1>1, <1>2 DEF r

\* The branch of a guard gets its target.
LEMMA GuardKeepsCore ==
    ASSUME NEW code, NEW branch, NEW n, NEW locals, IsBody(code), branch \in 1..Len(code.nodes),
           code.nodes[branch][1] = "ifeq"
    PROVE  LET r == Guard(code, branch, n, locals) IN
           IsBody(r) /\ Core(r) = Core(code)
  <1> DEFINE r == Guard(code, branch, n, locals)
             list == [code.nodes EXCEPT ![branch] = <<"ifeq", n>>]
             frames == insert_frame(code.frames, [at |-> n, locals |-> locals])
             len == Len(code.nodes)
  <1>1. r = [nodes |-> list, stack |-> code.stack, frames |-> frames]
    <2> HIDE DEF frames
    <2>1. r = [code EXCEPT !.nodes[branch] = <<"ifeq", n>>, !.frames = frames]
      BY DEF Guard, frames
    <2>2. [code EXCEPT !.nodes[branch] = <<"ifeq", n>>, !.frames = frames]
              = [code EXCEPT !.nodes = list, !.frames = frames]
      BY DEF IsBody
    <2> HIDE DEF list
    <2>3. code = [nodes |-> code.nodes, stack |-> code.stack, frames |-> code.frames]
      BY DEF IsBody
    <2> DEFINE d == [code EXCEPT !.nodes = list]
    <2>4. d = [nodes |-> list, stack |-> code.stack, frames |-> code.frames]
      BY ONLY <2>3
    <2> HIDE DEF d
    <2>5. [d EXCEPT !.frames = frames] = [nodes |-> list, stack |-> code.stack, frames |-> frames]
      BY ONLY <2>4
    <2>6. [code EXCEPT !.nodes = list, !.frames = frames] = [d EXCEPT !.frames = frames]
      BY ONLY DEF d
    <2> QED BY ONLY <2>1, <2>2, <2>5, <2>6
  <1>2. len \in Nat /\ IsList(code.nodes)
    BY DEF IsBody, IsList
  <1>3. IsList(list) /\ Len(list) = len
    BY <1>2, ListExcept
  <1>4. DOMAIN code.nodes = 1..len
    BY <1>2 DEF IsList
  <1>5. \A i \in 1..len : list[i] = IF i = branch THEN <<"ifeq", n>> ELSE code.nodes[i]
    BY <1>4
  <1> HIDE DEF list, frames, r
  <1>6. r.nodes = list /\ IsBody(r)
    BY <1>1, <1>3 DEF IsBody
  <1>7. ASSUME NEW i \in 1..len
        PROVE  SameNode(code.nodes[i], list[i])
    BY <1>5 DEF SameNode, IsOriginalNode
  <1>8. Shifted(code, r, len, 0)
    <2>1. len \in 0..len /\ 0 \in Nat /\ len = len + 0 /\ (len + 1)..len = {} /\ (len + 1)..(len + 0) = {}
      BY <1>2
    <2> QED BY <1>2, <1>3, <1>6, <1>7, <2>1 DEF Shifted
  <1>9. Core(r) = Core(code)
    BY <1>8, CoreShifted
  <1> QED BY <1>6, <1>9 DEF r

\* No inserted instruction is taken for one of the body.
Foreign(nodes) == IsList(nodes) /\ \A i \in 1..Len(nodes) : ~IsOriginalNode(nodes[i])

LEMMA ForeignJoined ==
    ASSUME NEW s, NEW t, Foreign(s), Foreign(t)
    PROVE  /\ Foreign(s \o t)
           /\ Len(s \o t) = Len(s) + Len(t)
           /\ \A i \in 1..Len(s) : (s \o t)[i] = s[i]
           /\ \A i \in 1..Len(t) : (s \o t)[Len(s) + i] = t[i]
  <1> DEFINE S == {s[i] : i \in 1..Len(s)} \union {t[i] : i \in 1..Len(t)}
  <1>1. PICK n \in Nat, k \in Nat : n = Len(s) /\ k = Len(t)
    BY DEF Foreign, IsList
  <1>2. /\ \A i \in 1..Len(s) : s[i] \in S
        /\ \A i \in 1..Len(t) : t[i] \in S
    OBVIOUS
  <1>3. \A x \in S : ~IsOriginalNode(x)
    BY DEF Foreign
  <1> HIDE DEF S
  <1>4. s \in Seq(S) /\ t \in Seq(S)
    BY <1>2, ListIsSeq DEF Foreign
  <1>5. /\ s \o t \in Seq(S) /\ Len(s \o t) = n + k
        /\ \A i \in 1..n : (s \o t)[i] = s[i]
        /\ \A i \in 1..k : (s \o t)[n + i] = t[i]
    BY ONLY <1>1, <1>4, Joined
  <1>6. IsList(s \o t)
    BY <1>5, SeqIsList
  <1>7. \A i \in 1..Len(s \o t) : (s \o t)[i] \in S
    BY <1>5
  <1> QED BY <1>1, <1>3, <1>5, <1>6, <1>7 DEF Foreign

LEMMA ForeignNode ==
    ASSUME NEW node, ~IsOriginalNode(node)
    PROVE  Foreign(<<node>>) /\ Len(<<node>>) = 1 /\ <<node>>[1] = node
  <1>1. <<node>> \in Seq({node}) /\ Len(<<node>>) = 1 /\ <<node>>[1] = node
    OBVIOUS
  <1>2. IsList(<<node>>)
    BY <1>1, SeqIsList
  <1> QED BY <1>1, <1>2 DEF Foreign

LEMMA ForeignPair ==
    ASSUME NEW x, NEW y, ~IsOriginalNode(x), ~IsOriginalNode(y)
    PROVE  Foreign(<<x, y>>)
  <1> DEFINE s == <<x, y>>
  <1>1. s \in Seq({x, y})
    OBVIOUS
  <1> HIDE DEF s
  <1>2. IsList(s) /\ \A i \in 1..Len(s) : s[i] \in {x, y}
    BY <1>1, SeqIsList
  <1> QED BY <1>2 DEF Foreign, s

LEMMA ForeignAppended ==
    ASSUME NEW s, NEW node, Foreign(s), ~IsOriginalNode(node)
    PROVE  Foreign(Append(s, node))
  <1> DEFINE S == {s[i] : i \in 1..Len(s)} \union {node}
             r == Append(s, node)
  <1>1. (\A i \in 1..Len(s) : s[i] \in S) /\ node \in S
    OBVIOUS
  <1>2. \A x \in S : ~IsOriginalNode(x)
    BY DEF Foreign
  <1> HIDE DEF S
  <1>3. s \in Seq(S)
    BY <1>1, ListIsSeq DEF Foreign
  <1>4. r \in Seq(S)
    BY <1>1, <1>3
  <1> HIDE DEF r
  <1>5. IsList(r) /\ \A i \in 1..Len(r) : r[i] \in S
    BY <1>4, SeqIsList
  <1> QED BY <1>2, <1>5 DEF Foreign, r

LEMMA ForeignNone == Foreign(<<>>) /\ Len(<<>>) = 0
  <1>1. <<>> \in Seq({}) /\ Len(<<>>) = 0
    OBVIOUS
  <1>2. IsList(<<>>)
    BY <1>1, SeqIsList
  <1> QED BY <1>1, <1>2 DEF Foreign

Loads(parameters) ==
    /\ IsList(parameters)
    /\ \A i \in 1..Len(parameters) :
           parameters[i].opcode \in {"iload", "lload", "fload", "dload", "aload"}

LEMMA ParametersLoad ==
    ASSUME NEW desc, NEW static, HasTypes(desc)
    PROVE  Loads(describe_parameters(desc, static))
  <1> DEFINE own == IF static THEN <<>> ELSE <<JavaObject>>
             types == own \o desc[2]
             T == {JavaObject} \union {desc[2][i] : i \in 1..Len(desc[2])}
             r == describe_parameters(desc, static)
  <1>1. \A type \in T : Letter(type) \in {"B", "C", "S", "Z", "I", "J", "F", "D", "L"}
    <2>1. Letter(JavaObject) = "L"
      BY DEF Letter, IsObject, JavaObject, Object
    <2> QED BY <2>1 DEF HasTypes
  <1>2. \A type \in T : LoadOpcode(Letter(type)) \in {"iload", "lload", "fload", "dload", "aload"}
    BY <1>1 DEF LoadOpcode
  <1>3. own \in Seq(T) /\ desc[2] \in Seq(T)
    <2>1. JavaObject \in T /\ \A i \in 1..Len(desc[2]) : desc[2][i] \in T
      OBVIOUS
    <2> HIDE DEF T
    <2> QED BY <2>1, ListIsSeq DEF HasTypes
  <1> HIDE DEF T, own
  <1>4. types \in Seq(T)
    BY <1>3
  <1>5. PICK slot : r = [i \in DOMAIN types |->
            [opcode |-> LoadOpcode(Letter(types[i])), slot |-> slot[i],
             forwarded |-> IF types[i][1] > 0 \/ IsObject(types[i]) THEN JavaObject ELSE types[i]]]
    BY DEF describe_parameters, ParameterTypes, own
  <1> HIDE DEF types, r
  <1>6. PICK n \in Nat : DOMAIN types = 1..n /\ \A i \in 1..n : types[i] \in T
    BY <1>4
  <1>7. r = [i \in 1..n |-> r[i]]
    BY <1>5, <1>6
  <1>8. \A i \in 1..n : r[i].opcode \in {"iload", "lload", "fload", "dload", "aload"}
    BY <1>2, <1>5, <1>6
  <1>9. IsList(r) /\ Len(r) = n
    <2>1. r \in Seq({r[i] : i \in 1..n}) /\ Len(r) = n
      BY <1>7
    <2> QED BY <2>1, SeqIsList
  <1> QED BY <1>8, <1>9 DEF Loads, r

\* The instructions that call a hook.
LEMMA CallIsForeign ==
    ASSUME NEW argument, NEW parameters, NEW ref, Loads(parameters)
    PROVE  /\ Foreign(CallNodes(argument, parameters, ref))
           /\ Len(CallNodes(argument, parameters, ref)) = Len(parameters) + 2
  <1> DEFINE loads == [i \in DOMAIN parameters |-> <<parameters[i].opcode, parameters[i].slot>>]
             push == <<"sipush", argument>>
             invoke == <<"invokestatic", ref>>
  <1>1. PICK n \in Nat : n = Len(parameters) /\ DOMAIN parameters = 1..n
    BY DEF Loads, IsList
  <1>2. \A i \in 1..n : loads[i][1] \in {"iload", "lload", "fload", "dload", "aload"}
    BY <1>1 DEF Loads
  <1>3. loads \in Seq({loads[i] : i \in 1..n}) /\ Len(loads) = n
    BY <1>1
  <1> HIDE DEF loads
  <1>4. Foreign(loads)
    BY <1>2, <1>3, SeqIsList DEF Foreign, IsOriginalNode
  <1>5. ~IsOriginalNode(push) /\ ~IsOriginalNode(invoke)
    BY DEF IsOriginalNode
  <1>6. CallNodes(argument, parameters, ref) = <<push>> \o loads \o <<invoke>>
    BY DEF CallNodes, loads
  <1> HIDE DEF push, invoke
  <1>7. Foreign(<<push>>) /\ Len(<<push>>) = 1 /\ Foreign(<<invoke>>) /\ Len(<<invoke>>) = 1
    BY <1>5, ForeignNode
  <1>8. Foreign(<<push>> \o loads) /\ Len(<<push>> \o loads) = 1 + n
    BY <1>3, <1>4, <1>7, ForeignJoined
  <1> DEFINE head == <<push>> \o loads
  <1> HIDE DEF head
  <1>9. Foreign(head \o <<invoke>>) /\ Len(head \o <<invoke>>) = (1 + n) + 1
    BY <1>7, <1>8, ForeignJoined DEF head
  <1>10. CallNodes(argument, parameters, ref) = head \o <<invoke>>
    BY <1>6 DEF head
  <1>11. (1 + n) + 1 = Len(parameters) + 2
    BY <1>1
  <1> QED BY ONLY <1>9, <1>10, <1>11

LEMMA ValueIsForeign ==
    ASSUME NEW pool, NEW own, NEW desc, NEW value_callee, NEW argument
    PROVE  Foreign(ValueNodes(pool, own, desc, value_callee, argument).nodes)
  <1> DEFINE returns == desc[3]
             isReference == Letter(returns) = "L" \/ returns[1] > 0
             long == IsObject(returns) /\ returns[3] \in LongNames
             Value(ok, p, nodes) == [ok |-> ok, pool |-> p, nodes |-> nodes]
             returned == MethodDesc(<<IntType>>, IF isReference THEN JavaObject ELSE returns)
             ref == classFile_intern_methodref(pool, own, value_callee, returned)
             call == <<<<"sipush", argument>>, <<"invokestatic", ref.index>>>>
             cast == classFile_intern_class(ref.pool, ClassOfType(returns))
             longer == Append(call, <<"checkcast", cast.index>>)
             default == <<<<default_opcode_for(returns), 0>>>>
             casted == Value(cast.ok, cast.pool, longer)
  <1>1. ValueNodes(pool, own, desc, value_callee, argument) =
            IF returns = VoidType THEN Value(TRUE, pool, <<>>)
            ELSE IF value_callee = NoText THEN Value(TRUE, pool, default)
            ELSE IF ~ValueDescriptorFits(returns) THEN Value(FALSE, pool, <<>>)
            ELSE IF isReference /\ ref.ok /\ long THEN Value(FALSE, ref.pool, <<>>)
            ELSE IF isReference /\ ref.ok THEN casted ELSE Value(ref.ok, ref.pool, call)
    BY DEF ValueNodes
  <1>2. Foreign(<<>>)
    BY ForeignNone
  <1>3. Foreign(default)
    <2>1. ~IsOriginalNode(<<default_opcode_for(returns), 0>>)
      BY DEF IsOriginalNode, default_opcode_for
    <2> QED BY <2>1, ForeignNode
  <1> HIDE DEF ref, cast, isReference, long, default
  <1>4. Foreign(call)
    <2>1. ~IsOriginalNode(<<"sipush", argument>>) /\ ~IsOriginalNode(<<"invokestatic", ref.index>>)
      BY DEF IsOriginalNode
    <2> QED BY <2>1, ForeignPair
  <1> HIDE DEF call
  <1>5. Foreign(longer)
    <2>1. ~IsOriginalNode(<<"checkcast", cast.index>>)
      BY DEF IsOriginalNode
    <2> QED BY <1>4, <2>1, ForeignAppended
  <1> HIDE DEF longer
  <1> QED BY <1>1, <1>2, <1>3, <1>4, <1>5

-----------------------------------------------------------------------------
(* Classes whose methods are added, replaced and removed *)

HasMethod(c, name, desc) == \E m \in Range(c.methods) : IsNamed(c, m, name, desc)

HasNative(c, name, desc) ==
    \E m \in Range(c.methods) : IsNamed(c, m, name, desc) /\ "NATIVE" \in m.flags /\ "ABSTRACT" \notin m.flags

\* What c has under a name and a descriptor, d has as well.
KeepsMethod(c, d, name, desc) ==
    /\ HasMethod(c, name, desc) => HasMethod(d, name, desc)
    /\ HasNative(c, name, desc) => HasNative(d, name, desc)
    /\ \A core : HasBody(c, name, desc, core) => HasBody(d, name, desc, core)

Keeps(c, d) == \A name, desc : KeepsMethod(c, d, name, desc)

KeepsOthers(c, d, m) ==
    \A name, desc : ~IsNamed(c, m, name, desc) => KeepsMethod(c, d, name, desc)

\* A method of c as a method of d.
SameMethod(c, m, d, e) ==
    /\ constant_pool_utf8(d.pool, e.name) = constant_pool_utf8(c.pool, m.name)
    /\ constant_pool_utf8(d.pool, e.desc) = constant_pool_utf8(c.pool, m.desc)
    /\ e.flags = m.flags
    /\ HasCode(c, m) => HasCode(d, e) /\ Core(CodeOf(d, e)) = Core(CodeOf(c, m))

LEMMA Ranged ==
    ASSUME NEW s, IsList(s)
    PROVE  /\ \A i \in 1..Len(s) : s[i] \in Range(s)
           /\ \A x \in Range(s) : \E i \in 1..Len(s) : x = s[i]
  <1>1. DOMAIN s = 1..Len(s)
    BY DEF IsList
  <1> QED BY <1>1 DEF Range

LEMMA RowKept ==
    ASSUME NEW c, NEW d, NEW m, NEW e \in Range(d.methods), SameMethod(c, m, d, e), NEW name, NEW desc,
           IsNamed(c, m, name, desc)
    PROVE  /\ HasMethod(d, name, desc)
           /\ "NATIVE" \in m.flags /\ "ABSTRACT" \notin m.flags => HasNative(d, name, desc)
           /\ HasCode(c, m) => HasBody(d, name, desc, Core(CodeOf(c, m)))
  <1>1. IsNamed(d, e, name, desc)
    BY DEF SameMethod, IsNamed
  <1>2. HasMethod(d, name, desc)
    BY <1>1 DEF HasMethod
  <1>3. "NATIVE" \in m.flags /\ "ABSTRACT" \notin m.flags => HasNative(d, name, desc)
    BY <1>1 DEF HasNative, SameMethod
  <1>4. HasCode(c, m) => HasBody(d, name, desc, Core(CodeOf(c, m)))
    BY <1>1 DEF HasBody, SameMethod
  <1> QED BY <1>2, <1>3, <1>4

LEMMA RowsKept ==
    ASSUME NEW c, NEW d, NEW name, NEW desc,
           \A m \in Range(c.methods) :
               IsNamed(c, m, name, desc) => \E e \in Range(d.methods) : SameMethod(c, m, d, e)
    PROVE  KeepsMethod(c, d, name, desc)
  <1>1. ASSUME HasMethod(c, name, desc)
        PROVE  HasMethod(d, name, desc)
    <2>1. PICK m \in Range(c.methods) : IsNamed(c, m, name, desc)
      BY <1>1 DEF HasMethod
    <2>2. PICK e \in Range(d.methods) : SameMethod(c, m, d, e)
      BY <2>1
    <2> QED BY <2>1, <2>2, RowKept
  <1>2. ASSUME HasNative(c, name, desc)
        PROVE  HasNative(d, name, desc)
    <2>1. PICK m \in Range(c.methods) :
              IsNamed(c, m, name, desc) /\ "NATIVE" \in m.flags /\ "ABSTRACT" \notin m.flags
      BY <1>2 DEF HasNative
    <2>2. PICK e \in Range(d.methods) : SameMethod(c, m, d, e)
      BY <2>1
    <2> QED BY <2>1, <2>2, RowKept
  <1>3. ASSUME NEW core, HasBody(c, name, desc, core)
        PROVE  HasBody(d, name, desc, core)
    <2>1. PICK m \in Range(c.methods) :
              IsNamed(c, m, name, desc) /\ HasCode(c, m) /\ Core(CodeOf(c, m)) = core
      BY <1>3 DEF HasBody
    <2>2. PICK e \in Range(d.methods) : SameMethod(c, m, d, e)
      BY <2>1
    <2>3. HasBody(d, name, desc, Core(CodeOf(c, m)))
      BY <2>1, <2>2, RowKept
    <2> QED BY <2>1, <2>3
  <1> QED BY <1>1, <1>2, <1>3 DEF KeepsMethod

LEMMA KeepsTransitive ==
    ASSUME NEW c, NEW d, NEW e, Keeps(c, d), Keeps(d, e)
    PROVE  Keeps(c, e)
  BY DEF Keeps, KeepsMethod

\* The code of a method depends on the pool alone.
LEMMA SamePool ==
    ASSUME NEW c, NEW d, d.pool = c.pool, NEW m
    PROVE  /\ IsMethod(d, m) <=> IsMethod(c, m)
           /\ HasCode(d, m) <=> HasCode(c, m)
           /\ CodeOf(d, m) = CodeOf(c, m)
           /\ SameMethod(c, m, d, m)
           /\ \A name, desc : IsNamed(d, m, name, desc) <=> IsNamed(c, m, name, desc)
  <1>1. \A a : IsCode(d, a) <=> IsCode(c, a)
    BY DEF IsCode
  <1>2. attribute_list_find(d, m.attributes, Name("Code")) = attribute_list_find(c, m.attributes, Name("Code"))
    BY DEF attribute_list_find, SelectInSeq
  <1>3. (HasCode(d, m) <=> HasCode(c, m)) /\ CodeOf(d, m) = CodeOf(c, m)
    BY <1>2 DEF HasCode, CodeOf
  <1>4. IsMethod(d, m) <=> IsMethod(c, m)
    BY <1>1, <1>3 DEF IsMethod
  <1>5. SameMethod(c, m, d, m)
    BY <1>3 DEF SameMethod
  <1>6. \A name, desc : IsNamed(d, m, name, desc) <=> IsNamed(c, m, name, desc)
    BY DEF IsNamed
  <1> QED BY <1>3, <1>4, <1>5, <1>6

\* No two methods of a class have the same name and descriptor.
LEMMA OneMethod ==
    ASSUME NEW c, IsClass(c), NEW m \in Range(c.methods), NEW e \in Range(c.methods), NEW name, NEW desc,
           IsNamed(c, m, name, desc), IsNamed(c, e, name, desc)
    PROVE  m = e
  <1>1. IsList(c.methods)
    BY DEF IsClass, IsClassFile
  <1>2. PICK i \in 1..Len(c.methods) : m = c.methods[i]
    BY <1>1, Ranged
  <1>3. PICK j \in 1..Len(c.methods) : e = c.methods[j]
    BY <1>1, Ranged
  <1>4. i = j
    BY <1>2, <1>3 DEF IsClass, IsNamed
  <1> QED BY <1>2, <1>3, <1>4

\* A constant pool that grows takes nothing away.
LEMMA PoolGrown ==
    ASSUME NEW c, NEW q, IsClass(c), Grows(c.pool, q)
    PROVE  /\ IsClass(WithPool(c, q)) /\ Keeps(c, WithPool(c, q))
           /\ WithPool(c, q).methods = c.methods /\ WithPool(c, q).pool = q
  <1> DEFINE d == WithPool(c, q)
             n == Len(c.methods)
  <1>1. IsClassFile(c) /\ IsList(q)
    BY DEF IsClass, Grows
  <1>2. IsClassFile(d) /\ d.pool = q /\ d.methods = c.methods
    BY <1>1, WithPoolClass
  <1> HIDE DEF d
  <1>3. Grows(c.pool, d.pool)
    BY <1>2
  <1>4. ASSUME NEW i \in 1..n
        PROVE  IsMethod(c, c.methods[i])
    BY DEF IsClass
  <1>5. ASSUME NEW m, IsMethod(c, m)
        PROVE  IsMethod(d, m) /\ SameMethod(c, m, d, m)
               /\ \A name, desc : IsNamed(d, m, name, desc) <=> IsNamed(c, m, name, desc)
    BY <1>3, <1>5, MethodKept DEF SameMethod, IsNamed
  <1>6. IsClass(d)
    <2>1. \A i \in 1..n : IsMethod(d, c.methods[i])
      BY <1>4, <1>5
    <2>2. ASSUME NEW i \in 1..n, NEW j \in 1..n,
                 IsNamed(d, c.methods[i], constant_pool_utf8(d.pool, c.methods[j].name),
                         constant_pool_utf8(d.pool, c.methods[j].desc))
          PROVE  i = j
      <3>1. IsMethod(c, c.methods[i]) /\ IsMethod(c, c.methods[j])
        BY <1>4
      <3>2. SameMethod(c, c.methods[j], d, c.methods[j])
        BY <1>5, <3>1
      <3>3. IsNamed(c, c.methods[i], constant_pool_utf8(c.pool, c.methods[j].name),
                    constant_pool_utf8(c.pool, c.methods[j].desc))
        BY <1>5, <2>2, <3>1, <3>2 DEF SameMethod
      <3> QED BY <3>3 DEF IsClass
    <2> QED BY <1>2, <2>1, <2>2 DEF IsClass
  <1>7. Keeps(c, d)
    <2> SUFFICES ASSUME NEW name, NEW desc
                 PROVE  KeepsMethod(c, d, name, desc)
      BY DEF Keeps
    <2>1. ASSUME NEW m \in Range(c.methods)
          PROVE  m \in Range(d.methods) /\ SameMethod(c, m, d, m)
      <3>1. IsList(c.methods)
        BY <1>1 DEF IsClassFile
      <3>2. IsMethod(c, m)
        BY <1>4, <3>1, Ranged
      <3> QED BY <1>2, <1>5, <3>2
    <2> QED BY <2>1, RowsKept
  <1> QED BY <1>2, <1>6, <1>7 DEF d

LEMMA AppendedLast ==
    ASSUME NEW s, NEW x, IsList(s)
    PROVE  Append(s, x)[Len(s) + 1] = x
  <1> DEFINE S == {s[i] : i \in 1..Len(s)} \union {x}
  <1>1. (\A i \in 1..Len(s) : s[i] \in S) /\ x \in S
    OBVIOUS
  <1> HIDE DEF S
  <1>2. s \in Seq(S)
    BY <1>1, ListIsSeq
  <1> QED BY <1>1, <1>2

LEMMA MethodReplaced ==
    ASSUME NEW c, IsClass(c), NEW i \in 1..Len(c.methods), NEW m, IsMethod(c, m),
           m.name = c.methods[i].name, m.desc = c.methods[i].desc
    PROVE  LET d == [c EXCEPT !.methods = [c.methods EXCEPT ![i] = m]] IN
           /\ IsClass(d) /\ d.pool = c.pool /\ d.methods = [c.methods EXCEPT ![i] = m]
           /\ m \in Range(d.methods) /\ KeepsOthers(c, d, m)
  <1> DEFINE list == [c.methods EXCEPT ![i] = m]
             n == Len(c.methods)
             d == [c EXCEPT !.methods = list]
  <1>1. IsClassFile(c) /\ IsList(c.methods)
    BY DEF IsClass, IsClassFile
  <1>2. IsList(list) /\ Len(list) = n
    BY <1>1, ListExcept
  <1>3. \A j \in 1..n : list[j] = IF j = i THEN m ELSE c.methods[j]
    BY <1>1 DEF IsList
  <1> HIDE DEF list
  <1>4. IsClassFile(d) /\ d.pool = c.pool /\ d.methods = list
    BY <1>1, <1>2, WithMethodsClass
  <1> HIDE DEF d
  <1>5. \A j \in 1..n : /\ IsMethod(d, list[j])
                        /\ list[j].name = c.methods[j].name /\ list[j].desc = c.methods[j].desc
    <2> SUFFICES ASSUME NEW j \in 1..n
                 PROVE  /\ IsMethod(d, list[j])
                        /\ list[j].name = c.methods[j].name /\ list[j].desc = c.methods[j].desc
      OBVIOUS
    <2>1. IsMethod(c, c.methods[j])
      BY DEF IsClass
    <2>2. IsMethod(c, list[j]) /\ list[j].name = c.methods[j].name /\ list[j].desc = c.methods[j].desc
      BY <1>3, <2>1
    <2> QED BY <1>4, <2>2, SamePool
  <1>6. IsClass(d)
    <2>1. ASSUME NEW j \in 1..n, NEW k \in 1..n,
                 IsNamed(d, list[j], constant_pool_utf8(d.pool, list[k].name),
                         constant_pool_utf8(d.pool, list[k].desc))
          PROVE  j = k
      <3>1. IsNamed(c, c.methods[j], constant_pool_utf8(c.pool, c.methods[k].name),
                    constant_pool_utf8(c.pool, c.methods[k].desc))
        BY <1>4, <1>5, <2>1 DEF IsNamed
      <3> QED BY <3>1 DEF IsClass
    <2> QED BY <1>2, <1>4, <1>5, <2>1 DEF IsClass
  <1>7. m \in Range(d.methods)
    BY <1>2, <1>3, <1>4, Ranged
  <1>8. KeepsOthers(c, d, m)
    <2> SUFFICES ASSUME NEW name, NEW desc, ~IsNamed(c, m, name, desc)
                 PROVE  KeepsMethod(c, d, name, desc)
      BY DEF KeepsOthers
    <2>1. ASSUME NEW e \in Range(c.methods), IsNamed(c, e, name, desc)
          PROVE  e \in Range(d.methods) /\ SameMethod(c, e, d, e)
      <3>1. PICK j \in 1..n : e = c.methods[j]
        BY <1>1, Ranged
      <3>2. j # i
        BY <2>1, <3>1 DEF IsNamed
      <3>3. e = list[j]
        BY <1>3, <3>1, <3>2
      <3> QED BY <1>2, <1>4, <3>3, Ranged, SamePool
    <2> QED BY <2>1, RowsKept
  <1> QED BY <1>4, <1>6, <1>7, <1>8 DEF d, list

LEMMA MethodAdded ==
    ASSUME NEW c, IsClass(c), NEW m, IsMethod(c, m),
           ~HasMethod(c, constant_pool_utf8(c.pool, m.name), constant_pool_utf8(c.pool, m.desc))
    PROVE  LET d == [c EXCEPT !.methods = Append(c.methods, m)] IN
           /\ IsClass(d) /\ d.pool = c.pool /\ d.methods = Append(c.methods, m)
           /\ m \in Range(d.methods) /\ Keeps(c, d)
  <1> DEFINE list == Append(c.methods, m)
             n == Len(c.methods)
             d == [c EXCEPT !.methods = list]
  <1>1. IsClassFile(c) /\ IsList(c.methods) /\ n \in Nat
    BY DEF IsClass, IsClassFile, IsList
  <1>2. IsList(list) /\ Len(list) = n + 1 /\ \A j \in 1..n : list[j] = c.methods[j]
    BY <1>1, ListOps
  <1>3. list[n + 1] = m
    BY <1>1, AppendedLast
  <1> HIDE DEF list
  <1>4. IsClassFile(d) /\ d.pool = c.pool /\ d.methods = list
    BY <1>1, <1>2, WithMethodsClass
  <1> HIDE DEF d
  <1>5. \A j \in 1..(n + 1) : j = n + 1 \/ j \in 1..n
    BY <1>1
  <1>6. \A j \in 1..(n + 1) : IsMethod(d, list[j])
    <2>1. \A j \in 1..n : IsMethod(c, c.methods[j])
      BY DEF IsClass
    <2>2. \A j \in 1..(n + 1) : IsMethod(c, list[j])
      BY <1>2, <1>3, <1>5, <2>1
    <2> QED BY <1>4, <2>2, SamePool
  <1>7. IsClass(d)
    <2>1. ASSUME NEW j \in 1..n, NEW k \in 1..n,
                 constant_pool_utf8(c.pool, c.methods[j].name) = constant_pool_utf8(c.pool, c.methods[k].name),
                 constant_pool_utf8(c.pool, c.methods[j].desc) = constant_pool_utf8(c.pool, c.methods[k].desc)
          PROVE  j = k
      BY <2>1 DEF IsClass, IsNamed
    <2>2. ASSUME NEW j \in 1..n,
                 constant_pool_utf8(c.pool, c.methods[j].name) = constant_pool_utf8(c.pool, m.name),
                 constant_pool_utf8(c.pool, c.methods[j].desc) = constant_pool_utf8(c.pool, m.desc)
          PROVE  FALSE
      <3>1. c.methods[j] \in Range(c.methods)
        BY <1>1, Ranged
      <3> QED BY <2>2, <3>1 DEF HasMethod, IsNamed
    <2>3. ASSUME NEW j \in 1..(n + 1), NEW k \in 1..(n + 1),
                 constant_pool_utf8(c.pool, list[j].name) = constant_pool_utf8(c.pool, list[k].name),
                 constant_pool_utf8(c.pool, list[j].desc) = constant_pool_utf8(c.pool, list[k].desc)
          PROVE  j = k
      <3>1. CASE j \in 1..n /\ k \in 1..n
        BY <1>2, <2>1, <2>3, <3>1
      <3>2. CASE j \in 1..n /\ k = n + 1
        BY <1>2, <1>3, <2>2, <2>3, <3>2
      <3>3. CASE j = n + 1 /\ k \in 1..n
        BY <1>2, <1>3, <2>2, <2>3, <3>3
      <3>4. CASE j = n + 1 /\ k = n + 1
        BY <3>4
      <3> QED BY <1>5, <3>1, <3>2, <3>3, <3>4
    <2>4. \A j, k \in 1..Len(d.methods) :
              IsNamed(d, d.methods[j], constant_pool_utf8(d.pool, d.methods[k].name),
                      constant_pool_utf8(d.pool, d.methods[k].desc)) => j = k
      BY <1>2, <1>4, <2>3 DEF IsNamed
    <2> QED BY <1>2, <1>4, <1>6, <2>4 DEF IsClass
  <1>8. m \in Range(d.methods)
    <2>1. n + 1 \in 1..(n + 1)
      BY <1>1
    <2> QED BY <1>2, <1>3, <1>4, <2>1, Ranged
  <1>9. Keeps(c, d)
    <2> SUFFICES ASSUME NEW name, NEW desc
                 PROVE  KeepsMethod(c, d, name, desc)
      BY DEF Keeps
    <2>1. ASSUME NEW e \in Range(c.methods)
          PROVE  e \in Range(d.methods) /\ SameMethod(c, e, d, e)
      <3>1. PICK j \in 1..n : e = c.methods[j]
        BY <1>1, Ranged
      <3>2. j \in 1..(n + 1)
        BY <1>1
      <3> QED BY <1>2, <1>4, <3>1, <3>2, Ranged, SamePool
    <2> QED BY <2>1, RowsKept
  <1> QED BY <1>4, <1>7, <1>8, <1>9 DEF d, list

LEMMA Removed ==
    ASSUME NEW s, IsList(s), NEW k \in 1..Len(s)
    PROVE  /\ IsList(RemoveAt(s, k)) /\ Len(RemoveAt(s, k)) = Len(s) - 1
           /\ \A i \in 1..(k - 1) : RemoveAt(s, k)[i] = s[i]
           /\ \A i \in (k + 1)..Len(s) : RemoveAt(s, k)[i - 1] = s[i]
  <1> DEFINE S == {s[i] : i \in 1..Len(s)}
             n == Len(s)
             a == SubSeq(s, 1, k - 1)
             b == SubSeq(s, k + 1, n)
  <1>1. \A i \in 1..Len(s) : s[i] \in S
    OBVIOUS
  <1> HIDE DEF S
  <1>2. s \in Seq(S) /\ n \in Nat
    BY <1>1, ListIsSeq DEF IsList
  <1>3. /\ a \in Seq(S) /\ Len(a) = k - 1
        /\ \A i \in 1..(k - 1) : a[i] = s[i]
    BY <1>2
  <1>4. /\ b \in Seq(S) /\ Len(b) = n - k
        /\ \A i \in 1..(n - k) : b[i] = s[k + i]
    BY <1>2
  <1>5. RemoveAt(s, k) = a \o b
    BY DEF RemoveAt
  <1> HIDE DEF a, b
  <1> DEFINE h == k - 1
             l == n - k
  <1>6. h \in Nat /\ h = Len(a) /\ l \in Nat /\ l = Len(b)
    BY <1>2, <1>3, <1>4
  <1>7. /\ a \o b \in Seq(S) /\ Len(a \o b) = h + l
        /\ \A i \in 1..h : (a \o b)[i] = a[i]
        /\ \A i \in 1..l : (a \o b)[h + i] = b[i]
    <2> HIDE DEF h, l
    <2>1. a \in Seq(S) /\ b \in Seq(S)
      BY <1>3, <1>4
    <2> QED BY ONLY <1>6, <2>1, Joined
  <1>8. h + l = n - 1
    BY <1>2
  <1>9. IsList(RemoveAt(s, k)) /\ Len(RemoveAt(s, k)) = n - 1
    BY <1>5, <1>7, <1>8, SeqIsList
  <1>10. \A i \in 1..(k - 1) : RemoveAt(s, k)[i] = s[i]
    BY <1>3, <1>5, <1>7
  <1>11. ASSUME NEW i \in (k + 1)..n
         PROVE  RemoveAt(s, k)[i - 1] = s[i]
    <2>1. i - k \in 1..l /\ h + (i - k) = i - 1 /\ k + (i - k) = i
      BY <1>2
    <2>2. (a \o b)[h + (i - k)] = b[i - k] /\ b[i - k] = s[k + (i - k)]
      BY <1>4, <1>7, <2>1
    <2> QED BY <1>5, <2>1, <2>2
  <1> QED BY <1>9, <1>10, <1>11

LEMMA MethodRemoved ==
    ASSUME NEW c, IsClass(c), NEW k \in 1..Len(c.methods)
    PROVE  LET d == [c EXCEPT !.methods = RemoveAt(c.methods, k)] IN
           IsClass(d) /\ d.pool = c.pool /\ KeepsOthers(c, d, c.methods[k])
  <1> DEFINE list == RemoveAt(c.methods, k)
             n == Len(c.methods)
             d == [c EXCEPT !.methods = list]
             Of(j) == IF j < k THEN j ELSE j + 1
  <1>1. IsClassFile(c) /\ IsList(c.methods) /\ n \in Nat
    BY DEF IsClass, IsClassFile, IsList
  <1>2. /\ IsList(list) /\ Len(list) = n - 1
        /\ \A j \in 1..(k - 1) : list[j] = c.methods[j]
        /\ \A j \in (k + 1)..n : list[j - 1] = c.methods[j]
    BY <1>1, Removed
  <1> HIDE DEF list
  <1>3. IsClassFile(d) /\ d.pool = c.pool /\ d.methods = list
    BY <1>1, <1>2, WithMethodsClass
  <1> HIDE DEF d
  <1>4. ASSUME NEW j \in 1..(n - 1)
        PROVE  Of(j) \in 1..n /\ list[j] = c.methods[Of(j)]
    <2>1. CASE j < k
      <3>1. j \in 1..(k - 1) /\ j \in 1..n
        BY <1>1, <2>1
      <3> QED BY <1>2, <2>1, <3>1
    <2>2. CASE ~(j < k)
      <3>1. j + 1 \in (k + 1)..n /\ (j + 1) - 1 = j /\ j + 1 \in 1..n
        BY <1>1, <2>2
      <3> QED BY <1>2, <2>2, <3>1
    <2> QED BY <2>1, <2>2
  <1>5. \A i, j \in 1..(n - 1) : Of(i) = Of(j) => i = j
    BY <1>1
  <1> HIDE DEF Of
  <1>6. IsClass(d)
    <2>1. \A j \in 1..(n - 1) : IsMethod(d, list[j])
      <3>1. \A j \in 1..(n - 1) : IsMethod(c, list[j])
        BY <1>4 DEF IsClass
      <3> QED BY <1>3, <3>1, SamePool
    <2>2. ASSUME NEW i \in 1..(n - 1), NEW j \in 1..(n - 1),
                 IsNamed(d, list[i], constant_pool_utf8(d.pool, list[j].name),
                         constant_pool_utf8(d.pool, list[j].desc))
          PROVE  i = j
      <3>1. IsNamed(c, c.methods[Of(i)], constant_pool_utf8(c.pool, c.methods[Of(j)].name),
                    constant_pool_utf8(c.pool, c.methods[Of(j)].desc))
        BY <1>3, <1>4, <2>2 DEF IsNamed
      <3>2. Of(i) = Of(j)
        BY <1>4, <3>1 DEF IsClass
      <3> QED BY <1>5, <3>2
    <2> QED BY <1>2, <1>3, <2>1, <2>2 DEF IsClass
  <1>7. KeepsOthers(c, d, c.methods[k])
    <2> SUFFICES ASSUME NEW name, NEW desc, ~IsNamed(c, c.methods[k], name, desc)
                 PROVE  KeepsMethod(c, d, name, desc)
      BY DEF KeepsOthers
    <2>1. ASSUME NEW e \in Range(c.methods), IsNamed(c, e, name, desc)
          PROVE  e \in Range(d.methods) /\ SameMethod(c, e, d, e)
      <3>1. PICK j \in 1..n : e = c.methods[j]
        BY <1>1, Ranged
      <3>2. j # k
        BY <2>1, <3>1
      <3>3. \E i \in 1..(n - 1) : e = list[i]
        <4>1. CASE j < k
          <5>1. j \in 1..(k - 1) /\ j \in 1..(n - 1)
            BY <1>1, <4>1
          <5> QED BY <1>2, <3>1, <5>1
        <4>2. CASE ~(j < k)
          <5>1. j \in (k + 1)..n /\ j - 1 \in 1..(n - 1)
            BY <1>1, <3>2, <4>2
          <5> QED BY <1>2, <3>1, <5>1
        <4> QED BY <4>1, <4>2
      <3> QED BY <1>2, <1>3, <3>3, Ranged, SamePool
    <2> QED BY <2>1, RowsKept
  <1> QED BY <1>3, <1>6, <1>7 DEF d, list

\* The body of a method is replaced by one with the same instructions of its own.
LEMMA SetCodeKeeps ==
    ASSUME NEW c, IsClass(c), NEW i \in 1..Len(c.methods), HasCode(c, c.methods[i]),
           NEW code, IsBody(code), Core(code) = Core(CodeOf(c, c.methods[i]))
    PROVE  IsClass(SetCode(c, i, code)) /\ Keeps(c, SetCode(c, i, code))
  <1> DEFINE m == c.methods[i]
             k == attribute_list_find(c, m.attributes, Name("Code"))
             a == m.attributes[k]
             b == [name |-> a.name, info |-> code]
             list == [m.attributes EXCEPT ![k] = b]
             e == [flags |-> m.flags, name |-> m.name, desc |-> m.desc, attributes |-> list]
             n == Len(m.attributes)
             d == [c EXCEPT !.methods = [c.methods EXCEPT ![i] = e]]
  <1>1. IsMethod(c, m)
    BY DEF IsClass
  <1>2. k \in 1..n /\ IsCode(c, a)
    BY <1>1, CodePlace
  <1>3. /\ IsList(m.attributes) /\ \A j \in 1..n : IsCode(c, m.attributes[j]) => j = k
        /\ a = [name |-> a.name, info |-> a.info] /\ a.name \in 1..Len(c.pool)
    BY <1>1, <1>2 DEF IsMethod
  <1>4. SetCode(c, i, code) = d
    <2>1. SetCode(c, i, code) = [c EXCEPT !.methods[i].attributes[k].info = code]
      BY DEF SetCode
    <2> DEFINE f == [m EXCEPT !.attributes[k].info = code]
    <2>2. [c EXCEPT !.methods[i].attributes[k].info = code] = [c EXCEPT !.methods = [c.methods EXCEPT ![i] = f]]
      BY <1>1 DEF IsClass, IsClassFile
    <2>3. f = e
      <3>1. f = [m EXCEPT !.attributes = [m.attributes EXCEPT ![k].info = code]]
        BY <1>1 DEF IsMethod
      <3>2. [m.attributes EXCEPT ![k].info = code] = [m.attributes EXCEPT ![k] = [a EXCEPT !.info = code]]
        BY <1>2, <1>3
      <3>3. [a EXCEPT !.info = code] = b
        BY <1>3
      <3>4. m = [flags |-> m.flags, name |-> m.name, desc |-> m.desc, attributes |-> m.attributes]
        BY <1>1 DEF IsMethod
      <3>5. [m EXCEPT !.attributes = list] = e
        <4> HIDE DEF list
        <4> QED BY ONLY <3>4 DEF e
      <3> QED BY ONLY <3>1, <3>2, <3>3, <3>5 DEF list
    <2> HIDE DEF f
    <2> QED BY ONLY <2>1, <2>2, <2>3 DEF d
  <1>5. IsList(list) /\ Len(list) = n
    BY <1>3, ListExcept
  <1>6. \A j \in 1..n : list[j] = IF j = k THEN b ELSE m.attributes[j]
    BY <1>3 DEF IsList
  <1>7. e.name = m.name /\ e.desc = m.desc /\ e.flags = m.flags /\ e.attributes = list
    OBVIOUS
  <1>8. IsCode(c, b) /\ b.info = code /\ b.name = a.name
    BY <1>2 DEF IsCode
  <1> HIDE DEF list, e, b
  <1>9. \A j \in 1..n : IsCode(c, list[j]) <=> j = k
    BY <1>2, <1>3, <1>6, <1>8
  <1>10. attribute_list_find(c, list, Name("Code")) = k
    BY <1>2, <1>5, <1>9, CodeFound
  <1>11. HasCode(c, e) /\ CodeOf(c, e) = code
    <2>1. k # 0
      BY <1>2 DEF HasCode
    <2> QED BY <1>2, <1>6, <1>7, <1>8, <1>10, <2>1 DEF HasCode, CodeOf
  <1>12. IsMethod(c, e)
    <2>1. e = [flags |-> e.flags, name |-> e.name, desc |-> e.desc, attributes |-> e.attributes]
      BY DEF e
    <2>2. e.name \in 1..Len(c.pool) /\ e.desc \in 1..Len(c.pool)
      BY <1>1, <1>7 DEF IsMethod
    <2>3. ASSUME NEW j \in 1..n
          PROVE  list[j] = [name |-> list[j].name, info |-> list[j].info] /\ list[j].name \in 1..Len(c.pool)
      <3>1. b = [name |-> b.name, info |-> b.info] /\ b.name \in 1..Len(c.pool)
        BY <1>3 DEF b
      <3>2. m.attributes[j] = [name |-> m.attributes[j].name, info |-> m.attributes[j].info]
            /\ m.attributes[j].name \in 1..Len(c.pool)
        BY <1>1 DEF IsMethod
      <3> QED BY <1>6, <3>1, <3>2
    <2>4. \A j \in 1..n : IsCode(c, list[j]) => IsBody(list[j].info)
      BY <1>6, <1>8, <1>9
    <2>5. HasCode(c, e) <=> e.flags \intersect {"NATIVE", "ABSTRACT"} = {}
      BY <1>1, <1>7, <1>11 DEF IsMethod
    <2> QED BY <1>5, <1>7, <1>9, <2>1, <2>2, <2>3, <2>4, <2>5 DEF IsMethod
  <1> HIDE DEF d
  <1>13. IsClass(d) /\ d.pool = c.pool /\ e \in Range(d.methods) /\ KeepsOthers(c, d, e)
    BY <1>7, <1>12, MethodReplaced DEF d
  <1>14. SameMethod(c, m, d, e)
    <2>1. HasCode(d, e) /\ CodeOf(d, e) = code
      BY <1>11, <1>13, SamePool
    <2> QED BY <1>7, <1>13, <2>1 DEF SameMethod
  <1>15. Keeps(c, d)
    <2> SUFFICES ASSUME NEW name, NEW desc
                 PROVE  KeepsMethod(c, d, name, desc)
      BY DEF Keeps
    <2>1. CASE ~IsNamed(c, e, name, desc)
      BY <1>13, <2>1 DEF KeepsOthers
    <2>2. CASE IsNamed(c, e, name, desc)
      <3>1. IsNamed(c, m, name, desc)
        BY <1>7, <2>2 DEF IsNamed
      <3>2. m \in Range(c.methods)
        BY Ranged DEF IsClass, IsClassFile
      <3>3. \A x \in Range(c.methods) : IsNamed(c, x, name, desc) => x = m
        BY <3>1, <3>2, OneMethod
      <3> QED BY <1>13, <1>14, <3>3, RowsKept
    <2> QED BY <2>1, <2>2
  <1> QED BY <1>4, <1>13, <1>15

\* member_list_find: the method of a name and descriptor, if there is one.
LEMMA FoundNamed ==
    ASSUME NEW c, NEW name, NEW desc, IsClassFile(c)
    PROVE  LET i == classFile_find_method(c, name, desc) IN
           /\ i # 0 => /\ i \in 1..Len(c.methods) /\ c.methods[i] \in Range(c.methods)
                       /\ IsNamed(c, c.methods[i], name, desc)
           /\ i = 0 => ~HasMethod(c, name, desc)
  <1> DEFINE T == {i \in 1..Len(c.methods) : IsNamed(c, c.methods[i], name, desc)}
             f == classFile_find_method(c, name, desc)
  <1>1. f = IF T # {} THEN Min(T) ELSE 0
    BY DEF classFile_find_method, SelectInSeq
  <1>2. IsList(c.methods) /\ Len(c.methods) \in Nat
    BY DEF IsClassFile, IsList
  <1>3. T # {} => Min(T) \in T
    BY <1>2, LeastPlace
  <1>4. \A i \in T : i # 0 /\ i \in 1..Len(c.methods) /\ IsNamed(c, c.methods[i], name, desc)
    BY <1>2
  <1>5. T = {} => ~HasMethod(c, name, desc)
    BY <1>2, Ranged DEF HasMethod
  <1> HIDE DEF T, f
  <1>6. f # 0 => f \in T
    BY <1>1, <1>3
  <1>7. f = 0 => T = {}
    BY <1>1, <1>3, <1>4
  <1>8. f # 0 => /\ f \in 1..Len(c.methods) /\ c.methods[f] \in Range(c.methods)
                 /\ IsNamed(c, c.methods[f], name, desc)
    BY <1>2, <1>4, <1>6, Ranged
  <1> QED BY <1>5, <1>7, <1>8 DEF f

LEMMA NotRefused ==
    ASSUME NEW c, NEW i, NEW initializers, Refusal(c, i, initializers) = "OK"
    PROVE  /\ i # 0 /\ HasCode(c, c.methods[i])
           /\ "NATIVE" \notin c.methods[i].flags /\ "ABSTRACT" \notin c.methods[i].flags
  BY DEF Refusal

LEMMA BodyOfMethod ==
    ASSUME NEW c, IsClass(c), NEW i \in 1..Len(c.methods), HasCode(c, c.methods[i])
    PROVE  IsBody(CodeOf(c, c.methods[i]))
  <1> DEFINE m == c.methods[i]
             k == attribute_list_find(c, m.attributes, Name("Code"))
  <1>1. IsMethod(c, m)
    BY DEF IsClass
  <1>2. k \in 1..Len(m.attributes) /\ IsCode(c, m.attributes[k]) /\ CodeOf(c, m) = m.attributes[k].info
    BY <1>1, CodePlace
  <1> HIDE DEF k, m
  <1>3. IsBody(m.attributes[k].info)
    BY <1>1, <1>2 DEF IsMethod
  <1> QED BY <1>2, <1>3 DEF m

LEMMA InsertAndStoreKeeps ==
    ASSUME NEW c, NEW i, NEW at, NEW nodes, NEW extra, NEW fault, IsClass(c),
           i \in 1..Len(c.methods), HasCode(c, c.methods[i]), Foreign(nodes)
    PROVE  LET r == InsertAndStore(c, i, CodeOf(c, c.methods[i]), at, nodes, extra, fault) IN
           r.status = "OK" => IsClass(r.cf) /\ Keeps(c, r.cf)
  <1> DEFINE code == CodeOf(c, c.methods[i])
             b == code_editor_insert(code, at, nodes, extra)
             d == SetCode(c, i, b)
             refusal == InsertRefusal(code, at, extra)
             r == InsertAndStore(c, i, code, at, nodes, extra, fault)
  <1>1. r = IF refusal # "OK" THEN Result(refusal, c)
            ELSE IF fault = "store" THEN Result("CLASSFILE", c) ELSE Result("OK", d)
    BY DEF InsertAndStore
  <1> SUFFICES ASSUME r.status = "OK"
               PROVE  IsClass(r.cf) /\ Keeps(c, r.cf)
    OBVIOUS
  <1>2. IsBody(code)
    BY BodyOfMethod
  <1> HIDE DEF code, b, d, refusal, r
  <1>3. refusal = "OK" /\ r = Result("OK", d)
    BY <1>1 DEF Result
  <1>4. at \in 0..Len(code.nodes)
    BY <1>3 DEF refusal, InsertRefusal
  <1>5. IsBody(b) /\ Core(b) = Core(code)
    BY <1>2, <1>4, InsertKeepsCore DEF Foreign, b
  <1>6. IsClass(d) /\ Keeps(c, d)
    BY <1>5, SetCodeKeeps DEF d, code
  <1>7. r.cf = d
    BY <1>3 DEF Result
  <1> QED BY <1>6, <1>7

-----------------------------------------------------------------------------
(* What a call that succeeds keeps *)

KeptResult(c, r) == r.status = "OK" => IsClass(r.cf) /\ Keeps(c, r.cf)

\* The method a rewrite works on, in the class whose pool has grown.
LEMMA Rewritable ==
    ASSUME NEW c, IsClass(c), NEW q, Grows(c.pool, q), NEW name, NEW desc, NEW initializers,
           Refusal(c, classFile_find_method(c, name, desc), initializers) = "OK"
    PROVE  LET i == classFile_find_method(c, name, desc)
               d == WithPool(c, q)
           IN
           /\ i \in 1..Len(c.methods) /\ HasCode(c, c.methods[i]) /\ IsNamed(c, c.methods[i], name, desc)
           /\ c.methods[i] \in Range(c.methods)
           /\ "NATIVE" \notin c.methods[i].flags /\ "ABSTRACT" \notin c.methods[i].flags
           /\ IsClass(d) /\ Keeps(c, d) /\ d.methods = c.methods /\ d.pool = q
           /\ HasCode(d, d.methods[i]) /\ CodeOf(d, d.methods[i]) = CodeOf(c, c.methods[i])
  <1> DEFINE i == classFile_find_method(c, name, desc)
             m == c.methods[i]
             d == WithPool(c, q)
  <1>1. /\ i # 0 /\ HasCode(c, m)
        /\ "NATIVE" \notin m.flags /\ "ABSTRACT" \notin m.flags
    BY NotRefused
  <1>2. i \in 1..Len(c.methods) /\ IsNamed(c, m, name, desc) /\ m \in Range(c.methods)
    BY <1>1, FoundNamed DEF IsClass
  <1>3. IsClass(d) /\ Keeps(c, d) /\ d.methods = c.methods /\ d.pool = q
    BY PoolGrown
  <1> HIDE DEF i, d
  <1>4. IsMethod(c, m)
    BY <1>2 DEF IsClass
  <1>5. HasCode(d, m) /\ CodeOf(d, m) = CodeOf(c, m)
    BY <1>1, <1>3, <1>4, MethodKept
  <1> QED BY <1>1, <1>2, <1>3, <1>5 DEF i, d

LEMMA StaticCallKeeps ==
    ASSUME NEW c, NEW name, NEW desc, NEW p, NEW owner, NEW callee, NEW argument, NEW forward,
           NEW fault, IsClass(c), HasTypes(desc)
    PROVE  KeptResult(c, class_transform_insert_static_call(c, name, desc, p, owner, callee,
                             argument, forward, fault))
  <1> DEFINE i == classFile_find_method(c, name, desc)
             refusal == Refusal(c, i, {Name("<clinit>")})
             code == CodeOf(c, c.methods[i])
             described == describe_parameters(desc, "STATIC" \in c.methods[i].flags)
             own == classFile_intern_class(c.pool, owner)
             parameters == IF forward THEN described ELSE <<>>
             ref == classFile_intern_methodref(own.pool, own.index, callee,
                        build_callee_descriptor(parameters, VoidType))
             late == InitRefusal(c, i, code)
             d == WithPool(c, ref.pool)
             inserted == InsertAndStore(d, i, code, SafeOffset(c, i, code, p),
                             CallNodes(argument, parameters, ref.index), Pushed(parameters), fault)
             far == argument \notin -32768..32767
             failed == ~own.ok \/ fault = "load"
             many == Len(described) > MaxParameters
             wide == ~CalleeDescriptorFits(parameters)
             full == ~ref.ok
             r == class_transform_insert_static_call(c, name, desc, p, owner, callee, argument, forward, fault)
  <1>1. r = IF far THEN Result("BAD_OFFSET", c)
            ELSE IF refusal # "OK" THEN Result(refusal, c)
            ELSE IF failed THEN Result("CLASSFILE", WithPool(c, own.pool))
            ELSE IF late # "OK" THEN Result(late, WithPool(c, own.pool))
            ELSE IF many THEN Result("METHOD_NOT_FOUND", WithPool(c, own.pool))
            ELSE IF wide THEN Result("METHOD_NOT_FOUND", WithPool(c, own.pool))
            ELSE IF full THEN Result("CLASSFILE", d) ELSE inserted
    BY DEF class_transform_insert_static_call
  <1> SUFFICES ASSUME r.status = "OK"
               PROVE  IsClass(r.cf) /\ Keeps(c, r.cf)
    BY DEF KeptResult
  <1>2. Grows(c.pool, own.pool)
    BY InternClassGrows DEF IsClass, IsClassFile
  <1>3. Loads(described)
    BY ParametersLoad
  <1> HIDE DEF i, described, own, far, failed, many, wide, full, late, inserted, r, d
  <1>4. refusal = "OK" /\ r = inserted
    BY <1>1 DEF Result
  <1> HIDE DEF refusal
  <1>5. Loads(parameters)
    <2>1. Loads(<<>>)
      BY ForeignNone DEF Foreign, Loads
    <2> QED BY <1>3, <2>1
  <1> HIDE DEF parameters
  <1>6. Grows(own.pool, ref.pool)
    BY <1>2, InternMethodrefGrows DEF Grows
  <1> HIDE DEF ref
  <1>7. Grows(c.pool, ref.pool)
    BY <1>2, <1>6, GrowsTransitive
  <1>8. /\ i \in 1..Len(d.methods) /\ HasCode(d, d.methods[i])
        /\ IsClass(d) /\ Keeps(c, d) /\ CodeOf(d, d.methods[i]) = code
    BY <1>4, <1>7, Rewritable DEF refusal, i, d
  <1> HIDE DEF code
  <1> DEFINE nodes == CallNodes(argument, parameters, ref.index)
             at == SafeOffset(c, i, code, p)
             extra == Pushed(parameters)
  <1>9. Foreign(nodes)
    BY <1>5, CallIsForeign
  <1> HIDE DEF nodes, at, extra
  <1>10. inserted = InsertAndStore(d, i, CodeOf(d, d.methods[i]), at, nodes, extra, fault)
    BY <1>8 DEF inserted, nodes, at, extra
  <1>11. IsClass(inserted.cf) /\ Keeps(d, inserted.cf)
    BY <1>4, <1>8, <1>9, <1>10, InsertAndStoreKeeps
  <1>12. Keeps(c, inserted.cf)
    BY <1>8, <1>11, KeepsTransitive
  <1> QED BY <1>4, <1>11, <1>12

LEMMA GuardedCallKeeps ==
    ASSUME NEW c, NEW name, NEW desc, NEW owner, NEW callee, NEW value_callee, NEW argument,
           NEW fault, IsClass(c), HasTypes(desc)
    PROVE  KeptResult(c, class_transform_insert_guarded_call(c, name, desc, owner, callee,
                             value_callee, argument, fault))
  <1> DEFINE i == classFile_find_method(c, name, desc)
             refusal == Refusal(c, i, {Name("<init>"), Name("<clinit>")})
             static == "STATIC" \in c.methods[i].flags
             code == CodeOf(c, c.methods[i])
             parameters == describe_parameters(desc, static)
             own == classFile_intern_class(c.pool, owner)
             ref == classFile_intern_methodref(own.pool, own.index, callee,
                        build_callee_descriptor(parameters, Primitive(0, "Z")))
             value == ValueNodes(ref.pool, own.index, desc, value_callee, argument)
             call == CallNodes(argument, parameters, ref.index)
             branch == <<<<"ifeq", 0>>>>
             return == <<<<return_opcode_for(desc[3]), 0>>>>
             nodes == call \o branch \o value.nodes \o return
             pushed == Max({Pushed(parameters), IF desc[3] = VoidType THEN 0 ELSE 2})
             frame == build_entry_frame(c, value.pool, desc, static)
             table == IF code.frames # <<>> THEN frame
                      ELSE classFile_intern_utf8(frame.pool, Name("StackMapTable"))
             longer == code_editor_insert(code, 0, nodes, pushed)
             guarded == Guard(longer, Len(parameters) + 3, Len(nodes), frame.locals)
             d == WithPool(c, table.pool)
             done == SetCode(d, i, guarded)
             far == argument \notin -32768..32767
             unowned == ~own.ok \/ fault = "load"
             many == Len(parameters) > MaxParameters \/ ~CalleeDescriptorFits(parameters)
             uncalled == ~ref.ok
             unvalued == ~value.ok
             over == Len(parameters) + Len(value.nodes) + 4 > MaxNodes
             deep == InsertRefusal(code, 0, pushed) # "OK"
             unframed == ~frame.ok \/ fault = "append"
             unstored == ~table.ok \/ fault = "store"
             Failed(s, q) == Result(s, WithPool(c, q))
             r == class_transform_insert_guarded_call(c, name, desc, owner, callee, value_callee,
                                                      argument, fault)
  <1>1. r = IF far THEN Result("BAD_OFFSET", c)
            ELSE IF refusal # "OK" THEN Result(refusal, c)
            ELSE IF unowned THEN Failed("CLASSFILE", own.pool)
            ELSE IF many THEN Failed("METHOD_NOT_FOUND", own.pool)
            ELSE IF uncalled THEN Failed("CLASSFILE", ref.pool)
            ELSE IF unvalued THEN Failed("CLASSFILE", value.pool)
            ELSE IF over THEN Failed("OVERRUN", value.pool)
            ELSE IF deep THEN Failed("CLASSFILE", value.pool)
            ELSE IF unframed THEN Failed("CLASSFILE", frame.pool)
            ELSE IF unstored THEN Failed("CLASSFILE", table.pool)
            ELSE Result("OK", done)
    BY DEF class_transform_insert_guarded_call
  <1> SUFFICES ASSUME r.status = "OK"
               PROVE  IsClass(r.cf) /\ Keeps(c, r.cf)
    BY DEF KeptResult
  <1>2. Grows(c.pool, own.pool)
    BY InternClassGrows DEF IsClass, IsClassFile
  <1>3. Loads(parameters)
    BY ParametersLoad
  <1> HIDE DEF i, refusal, static, parameters, own, nodes, pushed, guarded, done, far, unowned,
               many, uncalled, unvalued, over, deep, unframed, unstored, d, r, longer, call, branch, return, frame, table
  <1>4. refusal = "OK" /\ r.cf = done
    BY <1>1 DEF Result
  <1>5. Grows(own.pool, ref.pool)
    BY <1>2, InternMethodrefGrows DEF Grows
  <1> HIDE DEF ref
  <1>6. Grows(ref.pool, value.pool)
    BY <1>5, ValueNodesGrow DEF Grows
  <1>7. Foreign(value.nodes)
    BY ValueIsForeign
  <1> HIDE DEF value
  <1>8. Grows(value.pool, frame.pool)
    BY <1>6, EntryFrameGrows DEF Grows, HasTypes, IsList, frame
  <1>9. Grows(frame.pool, table.pool)
    <2>1. Grows(frame.pool, classFile_intern_utf8(frame.pool, Name("StackMapTable")).pool)
      BY <1>8, InternUtf8Grows DEF Grows
    <2>2. Grows(frame.pool, frame.pool)
      BY <1>8, GrowsReflexive DEF Grows
    <2> QED BY <2>1, <2>2 DEF table
  <1>10. Grows(c.pool, table.pool)
    <2>1. Grows(c.pool, ref.pool)
      BY <1>2, <1>5, GrowsTransitive
    <2>2. Grows(c.pool, value.pool)
      BY <1>6, <2>1, GrowsTransitive
    <2>3. Grows(c.pool, frame.pool)
      BY <1>8, <2>2, GrowsTransitive
    <2> QED BY <1>9, <2>3, GrowsTransitive
  <1>11. /\ i \in 1..Len(d.methods) /\ HasCode(d, d.methods[i])
         /\ IsClass(d) /\ Keeps(c, d) /\ CodeOf(d, d.methods[i]) = code
    BY <1>4, <1>10, Rewritable DEF refusal, i, d
  <1>12. IsBody(code)
    BY <1>11, BodyOfMethod
  <1> HIDE DEF code
  <1> DEFINE n == Len(parameters)
             front == call \o branch
             middle == front \o value.nodes
  <1>13. n \in Nat /\ Foreign(call) /\ Len(call) = n + 2
    BY <1>3, CallIsForeign DEF Loads, IsList, call
  <1>14. Foreign(branch) /\ Len(branch) = 1 /\ branch[1] = <<"ifeq", 0>>
    <2>1. ~IsOriginalNode(<<"ifeq", 0>>)
      BY DEF IsOriginalNode
    <2> QED BY <2>1, ForeignNode DEF branch
  <1>15. Foreign(return) /\ Len(return) = 1
    <2>1. ~IsOriginalNode(<<return_opcode_for(desc[3]), 0>>)
      BY DEF IsOriginalNode, return_opcode_for
    <2> QED BY <2>1, ForeignNode DEF return
  <1>16. Foreign(front) /\ Len(front) = n + 3 /\ front[n + 3] = <<"ifeq", 0>>
    <2>1. /\ Foreign(front) /\ Len(front) = Len(call) + Len(branch)
          /\ \A j \in 1..Len(branch) : front[Len(call) + j] = branch[j]
      <3>1. Foreign(call) /\ Foreign(branch)
        BY <1>13, <1>14
      <3> QED BY ONLY <3>1, ForeignJoined DEF front
    <2>2. Len(call) + 1 = n + 3 /\ 1 \in 1..1
      BY <1>13
    <2> HIDE DEF front
    <2> QED BY <1>14, <2>1, <2>2
  <1> HIDE DEF front
  <1>17. Foreign(middle) /\ Len(middle) \in Nat /\ n + 3 <= Len(middle) /\ middle[n + 3] = <<"ifeq", 0>>
    <2>1. /\ Foreign(middle) /\ Len(middle) = Len(front) + Len(value.nodes)
          /\ \A j \in 1..Len(front) : middle[j] = front[j]
      BY <1>7, <1>16, ForeignJoined
    <2>2. Len(value.nodes) \in Nat /\ n + 3 \in 1..(n + 3)
      BY <1>7, <1>13 DEF Foreign, IsList
    <2> HIDE DEF middle
    <2>3. middle[n + 3] = <<"ifeq", 0>>
      BY <1>16, <2>1, <2>2
    <2>4. Len(middle) = (n + 3) + Len(value.nodes)
      BY <1>16, <2>1
    <2>5. Len(middle) \in Nat /\ n + 3 <= Len(middle)
      <3>1. \A a, b \in Nat : (a + 3) + b \in Nat /\ a + 3 <= (a + 3) + b
        OBVIOUS
      <3>2. n \in Nat /\ Len(value.nodes) \in Nat
        BY <1>13, <2>2
      <3> QED BY ONLY <2>4, <3>1, <3>2
    <2> QED BY <2>1, <2>3, <2>5
  <1> HIDE DEF middle
  <1>18. Foreign(nodes) /\ n + 3 \in 1..Len(nodes) /\ nodes[n + 3] = <<"ifeq", 0>>
    <2>1. nodes = middle \o return
      BY DEF nodes, middle, front
    <2>2. /\ Foreign(nodes) /\ Len(nodes) = Len(middle) + 1
          /\ \A j \in 1..Len(middle) : nodes[j] = middle[j]
      <3>1. Foreign(middle) /\ Foreign(return)
        BY <1>15, <1>17
      <3>2. /\ Foreign(middle \o return) /\ Len(middle \o return) = Len(middle) + Len(return)
            /\ \A j \in 1..Len(middle) : (middle \o return)[j] = middle[j]
        BY ONLY <3>1, ForeignJoined
      <3> QED BY <1>15, <2>1, <3>2
    <2>3. n + 3 \in 1..Len(middle) /\ n + 3 \in 1..(Len(middle) + 1)
      BY <1>13, <1>17
    <2> QED BY <1>17, <2>2, <2>3
  <1>19. IsBody(longer) /\ Core(longer) = Core(code) /\ Len(longer.nodes) = Len(code.nodes) + Len(nodes)
         /\ longer.nodes[0 + (n + 3)][1] = "ifeq"
    <2>1. 0 \in 0..Len(code.nodes)
      BY <1>12 DEF IsBody, IsList
    <2>2. /\ IsBody(longer) /\ Shifted(code, longer, 0, Len(nodes))
          /\ \A j \in 1..Len(nodes) : longer.nodes[0 + j][1] = nodes[j][1]
      BY <1>12, <1>18, <2>1, InsertShifts DEF Foreign, longer
    <2>3. Core(longer) = Core(code)
      BY <2>2, CoreShifted
    <2>4. Len(longer.nodes) = Len(code.nodes) + Len(nodes)
      BY <2>2 DEF Shifted
    <2> QED BY <1>18, <2>2, <2>3, <2>4
  <1>20. n + 3 \in 1..Len(longer.nodes) /\ longer.nodes[n + 3][1] = "ifeq"
    <2>1. 0 + (n + 3) = n + 3 /\ Len(code.nodes) \in Nat /\ Len(nodes) \in Nat
      BY <1>12, <1>13, <1>18 DEF IsBody, IsList, Foreign
    <2>2. longer.nodes[n + 3][1] = "ifeq"
      BY <1>19, <2>1
    <2>3. n + 3 \in 1..Len(longer.nodes)
      BY <1>13, <1>18, <1>19, <2>1
    <2> QED BY <2>2, <2>3
  <1>21. IsBody(guarded) /\ Core(guarded) = Core(code)
    <2>1. IsBody(guarded) /\ Core(guarded) = Core(longer)
      BY <1>19, <1>20, GuardKeepsCore DEF guarded
    <2> QED BY <1>19, <2>1
  <1>22. IsClass(done) /\ Keeps(d, done)
    BY <1>11, <1>21, SetCodeKeeps DEF done
  <1>23. Keeps(c, done)
    BY <1>11, <1>22, KeepsTransitive
  <1> QED BY <1>4, <1>22, <1>23

LEMMA NothingNew ==
    ASSUME NEW c, IsClass(c), NEW q, Grows(c.pool, q), NEW name, NEW desc,
           HasMethod(WithPool(c, q), name, desc)
    PROVE  HasMethod(c, name, desc)
  <1> DEFINE d == WithPool(c, q)
  <1>1. d.methods = c.methods /\ d.pool = q /\ IsList(c.methods)
    BY PoolGrown DEF IsClass, IsClassFile
  <1> HIDE DEF d
  <1>2. PICK m \in Range(c.methods) : IsNamed(d, m, name, desc)
    BY <1>1 DEF HasMethod, d
  <1>3. IsMethod(c, m)
    BY <1>1, Ranged DEF IsClass
  <1>4. IsNamed(c, m, name, desc)
    BY <1>1, <1>2, <1>3, MethodKept DEF IsNamed
  <1> QED BY <1>4 DEF HasMethod

\* The hook is a native method of its own.
LEMMA InsertCallKeeps ==
    ASSUME NEW c, NEW name, NEW desc, NEW p, NEW hook, NEW fault, IsClass(c)
    PROVE  KeptResult(c, class_transform_insert_call(c, name, desc, p, hook, fault))
  <1> DEFINE i == classFile_find_method(c, name, desc)
             refusal == Refusal(c, i, {Name("<clinit>")})
             static == "STATIC" \in c.methods[i].flags
             code == CodeOf(c, c.methods[i])
             n == classFile_intern_utf8(c.pool, hook)
             t == classFile_intern_utf8(n.pool, NoArguments)
             ref == classFile_intern_methodref(t.pool, c.this, hook, NoArguments)
             flags == {"PRIVATE", "FINAL", "NATIVE"} \union (IF static THEN {"STATIC"} ELSE {})
             member == [name |-> n.index, desc |-> t.index, attributes |-> <<>>, flags |-> flags]
             nodes == IF static THEN <<<<"invokestatic", ref.index>>>>
                      ELSE <<<<"aload_0", 0>>, <<"invokespecial", ref.index>>>>
             d == WithPool(c, ref.pool)
             declared == [d EXCEPT !.methods = Append(@, member)]
             late == InitRefusal(c, i, code)
             stored == InsertAndStore(declared, i, code, SafeOffset(c, i, code, p), nodes, 1, fault)
             unloaded == fault = "load"
             inserted == IF unloaded THEN Result("CLASSFILE", declared)
                         ELSE IF late # "OK" THEN Result(late, declared) ELSE stored
             finished == IF inserted.status = "OK" THEN inserted
                         ELSE Result(inserted.status, Undeclare(inserted.cf, Len(inserted.cf.methods)))
             interface == "INTERFACE" \in c.flags
             found == classFile_find_method(c, hook, NoArguments)
             unnamed == ~n.ok
             untyped == ~t.ok
             uncalled == ~ref.ok \/ fault = "append"
             Failed(q) == Result("CLASSFILE", WithPool(c, q))
             r == class_transform_insert_call(c, name, desc, p, hook, fault)
  <1>1. r = IF interface THEN Result("INTERFACE", c)
            ELSE IF found # 0 THEN Result("NAME_IN_USE", c)
            ELSE IF refusal # "OK" THEN Result(refusal, c)
            ELSE IF unnamed THEN Failed(n.pool)
            ELSE IF untyped THEN Failed(t.pool)
            ELSE IF uncalled THEN Failed(ref.pool)
            ELSE finished
    BY ONLY ZenonT(30) DEF class_transform_insert_call
  <1> SUFFICES ASSUME r.status = "OK"
               PROVE  IsClass(r.cf) /\ Keeps(c, r.cf)
    BY DEF KeptResult
  <1>2. Grows(c.pool, n.pool) /\ IsList(c.pool)
    BY InternUtf8Grows DEF IsClass, IsClassFile
  <1> HIDE DEF i, refusal, code, n, member, nodes, late, interface, found, unnamed, untyped, uncalled,
               stored, declared, d, r, unloaded
  <1>3. found = 0 /\ refusal = "OK" /\ ~unnamed /\ ~untyped /\ r = stored
    <2>1. inserted.status = "OK" => inserted = stored
      BY DEF Result
    <2>2. finished.status = "OK" => finished = inserted /\ inserted.status = "OK"
      BY DEF Result
    <2> HIDE DEF inserted, finished
    <2> QED BY <1>1, <2>1, <2>2 DEF Result
  <1>4. n.index \in 1..Len(n.pool) /\ constant_pool_utf8(n.pool, n.index) = hook
    BY <1>2, <1>3, InternedText DEF n, unnamed
  <1>5. Grows(n.pool, t.pool) /\ IsList(n.pool)
    BY <1>2, InternUtf8Grows DEF Grows
  <1>6. t.index \in 1..Len(t.pool) /\ constant_pool_utf8(t.pool, t.index) = NoArguments
    BY <1>3, <1>5, InternedText DEF untyped
  <1> HIDE DEF t
  <1>7. Grows(t.pool, ref.pool)
    BY <1>5, InternMethodrefGrows DEF Grows
  <1> HIDE DEF ref
  <1>8. Grows(n.pool, ref.pool) /\ Grows(c.pool, ref.pool)
    <2>1. Grows(n.pool, ref.pool)
      BY <1>5, <1>7, GrowsTransitive
    <2> QED BY <1>2, <2>1, GrowsTransitive
  <1>9. /\ i \in 1..Len(c.methods) /\ HasCode(d, d.methods[i]) /\ d.methods = c.methods /\ d.pool = ref.pool
        /\ IsClass(d) /\ Keeps(c, d) /\ CodeOf(d, d.methods[i]) = code
    BY <1>3, <1>8, Rewritable DEF refusal, i, d, code
  <1>10. /\ member.name \in 1..Len(d.pool) /\ constant_pool_utf8(d.pool, member.name) = hook
         /\ member.desc \in 1..Len(d.pool) /\ constant_pool_utf8(d.pool, member.desc) = NoArguments
    BY <1>4, <1>6, <1>7, <1>8, <1>9, TextKept DEF member
  <1>11. IsMethod(d, member)
    <2>1. member = [flags |-> member.flags, name |-> member.name, desc |-> member.desc,
                    attributes |-> member.attributes]
      BY DEF member
    <2>2. IsList(member.attributes) /\ Len(member.attributes) = 0
      BY ForeignNone DEF Foreign, member
    <2>3. 1..Len(member.attributes) = {}
      BY <2>2
    <2>4. ~HasCode(d, member)
      BY <2>3, CodeMissing DEF HasCode
    <2>5. "NATIVE" \in member.flags
      BY DEF member
    <2> QED BY <1>10, <2>1, <2>2, <2>3, <2>4, <2>5 DEF IsMethod
  <1>12. ~HasMethod(d, hook, NoArguments)
    <2>1. ~HasMethod(c, hook, NoArguments)
      BY <1>3, FoundNamed DEF found, IsClass
    <2> QED BY <1>8, <2>1, NothingNew DEF d
  <1>13. /\ IsClass(declared) /\ declared.pool = d.pool /\ declared.methods = Append(d.methods, member)
         /\ Keeps(d, declared)
    <2>1. declared = [d EXCEPT !.methods = Append(d.methods, member)]
      BY DEF declared
    <2> QED BY <1>9, <1>10, <1>11, <1>12, <2>1, MethodAdded
  <1>14. i \in 1..Len(declared.methods) /\ declared.methods[i] = d.methods[i]
    <2>1. IsList(d.methods)
      BY <1>9 DEF IsClass, IsClassFile
    <2>2. Len(Append(d.methods, member)) = Len(d.methods) + 1 /\ Append(d.methods, member)[i] = d.methods[i]
      BY <1>9, <2>1, ListOps
    <2>3. i \in 1..(Len(d.methods) + 1)
      BY <1>9, <2>1 DEF IsList
    <2> QED BY <1>13, <2>2, <2>3
  <1>15. HasCode(declared, declared.methods[i]) /\ CodeOf(declared, declared.methods[i]) = code
    BY <1>9, <1>13, <1>14, SamePool
  <1>16. Foreign(nodes)
    <2>1. /\ ~IsOriginalNode(<<"invokestatic", ref.index>>) /\ ~IsOriginalNode(<<"aload_0", 0>>)
          /\ ~IsOriginalNode(<<"invokespecial", ref.index>>)
      BY DEF IsOriginalNode
    <2>2. Foreign(<<<<"invokestatic", ref.index>>>>)
      BY <2>1, ForeignNode
    <2>3. Foreign(<<<<"aload_0", 0>>, <<"invokespecial", ref.index>>>>)
      BY <2>1, ForeignPair
    <2> QED BY <2>2, <2>3 DEF nodes
  <1> DEFINE at == SafeOffset(c, i, code, p)
  <1> HIDE DEF at
  <1>17. stored = InsertAndStore(declared, i, CodeOf(declared, declared.methods[i]), at, nodes, 1, fault)
    BY <1>15 DEF stored, at
  <1>18. IsClass(stored.cf) /\ Keeps(declared, stored.cf)
    BY <1>3, <1>13, <1>14, <1>15, <1>16, <1>17, InsertAndStoreKeeps
  <1>19. Keeps(c, stored.cf)
    <2>1. Keeps(c, declared)
      BY <1>9, <1>13, KeepsTransitive
    <2> QED BY <1>18, <2>1, KeepsTransitive
  <1> QED BY <1>3, <1>18, <1>19

\* A call that fails keeps everything.
LEMMA FailureKeeps ==
    ASSUME NEW c, IsClass(c), NEW r, GoodResult(c, r), r.status # "OK"
    PROVE  IsClass(r.cf) /\ Keeps(c, r.cf)
  <1> DEFINE d == r.cf
  <1>1. IsClassFile(d) /\ Grows(c.pool, d.pool) /\ WithPool(d, c.pool) = c /\ IsClassFile(c)
    BY DEF GoodResult, IsClass
  <1> HIDE DEF d
  <1>2. IsList(c.pool)
    BY <1>1 DEF Grows
  <1>3. WithPool(WithPool(d, c.pool), d.pool) = d
    BY <1>1, <1>2, WithPoolClass
  <1>4. d = WithPool(c, d.pool)
    BY <1>1, <1>3
  <1>5. IsClass(WithPool(c, d.pool)) /\ Keeps(c, WithPool(c, d.pool))
    BY <1>1, PoolGrown
  <1> QED BY <1>4, <1>5 DEF d

-----------------------------------------------------------------------------
(* Making a method native, and restoring it *)

\* The method loses its code.
LEMMA CodeTaken ==
    ASSUME NEW c, NEW m, IsMethod(c, m), HasCode(c, m)
    PROVE  LET k == attribute_list_find(c, m.attributes, Name("Code"))
               e == [flags |-> m.flags \union {"NATIVE"}, name |-> m.name, desc |-> m.desc,
                     attributes |-> RemoveAt(m.attributes, k)]
           IN  IsMethod(c, e)
  <1> DEFINE k == attribute_list_find(c, m.attributes, Name("Code"))
             list == RemoveAt(m.attributes, k)
             n == Len(m.attributes)
             e == [flags |-> m.flags \union {"NATIVE"}, name |-> m.name, desc |-> m.desc,
                   attributes |-> list]
  <1>1. k \in 1..n /\ IsCode(c, m.attributes[k])
    BY CodePlace
  <1>2. /\ IsList(m.attributes) /\ n \in Nat
        /\ \A j \in 1..n : IsCode(c, m.attributes[j]) => j = k
    BY <1>1 DEF IsMethod, IsList
  <1> HIDE DEF k
  <1>3. /\ IsList(list) /\ Len(list) = n - 1
        /\ \A j \in 1..(k - 1) : list[j] = m.attributes[j]
        /\ \A j \in (k + 1)..n : list[j - 1] = m.attributes[j]
    BY <1>1, <1>2, Removed
  <1>4. /\ e.flags = m.flags \union {"NATIVE"} /\ e.name = m.name /\ e.desc = m.desc
        /\ e.attributes = list
        /\ e = [flags |-> e.flags, name |-> e.name, desc |-> e.desc, attributes |-> e.attributes]
    OBVIOUS
  <1> HIDE DEF list, e
  <1>5. ASSUME NEW j \in 1..(n - 1)
        PROVE  \E i \in 1..n : i # k /\ list[j] = m.attributes[i]
    <2>1. CASE j < k
      <3>1. j \in 1..(k - 1) /\ j \in 1..n /\ j # k
        BY <1>1, <1>2, <2>1
      <3> QED BY <1>3, <3>1
    <2>2. CASE ~(j < k)
      <3>1. j + 1 \in (k + 1)..n /\ (j + 1) - 1 = j /\ j + 1 \in 1..n /\ j + 1 # k
        BY <1>1, <1>2, <2>2
      <3> QED BY <1>3, <3>1
    <2> QED BY <2>1, <2>2
  <1>6. \A j \in 1..Len(list) : ~IsCode(c, list[j])
    BY <1>2, <1>3, <1>5
  <1>7. ~HasCode(c, e)
    BY <1>4, <1>6, CodeMissing DEF HasCode
  <1>8. \A j \in 1..Len(list) :
            list[j] = [name |-> list[j].name, info |-> list[j].info] /\ list[j].name \in 1..Len(c.pool)
    <2>1. \A j \in 1..n : /\ m.attributes[j] = [name |-> m.attributes[j].name, info |-> m.attributes[j].info]
                          /\ m.attributes[j].name \in 1..Len(c.pool)
      BY DEF IsMethod
    <2> QED BY <1>3, <1>5, <2>1
  <1>9. e.name \in 1..Len(c.pool) /\ e.desc \in 1..Len(c.pool)
    BY <1>4 DEF IsMethod
  <1>10. ~(e.flags \intersect {"NATIVE", "ABSTRACT"} = {})
    BY <1>4
  <1>11. IsMethod(c, e)
    BY <1>3, <1>4, <1>6, <1>7, <1>8, <1>9, <1>10 DEF IsMethod
  <1> QED BY <1>11 DEF e, list, k

\* The copy has it, under another name.
LEMMA CodeCopied ==
    ASSUME NEW c, NEW m, IsMethod(c, m), HasCode(c, m), NEW j \in 1..Len(c.pool)
    PROVE  LET e == [flags |-> copy_flags(m.flags), name |-> j, desc |-> m.desc,
                     attributes |-> m.attributes]
           IN  IsMethod(c, e) /\ HasCode(c, e) /\ CodeOf(c, e) = CodeOf(c, m)
  <1> DEFINE e == [flags |-> copy_flags(m.flags), name |-> j, desc |-> m.desc, attributes |-> m.attributes]
  <1>1. /\ e.flags = copy_flags(m.flags) /\ e.name = j /\ e.desc = m.desc /\ e.attributes = m.attributes
        /\ e = [flags |-> e.flags, name |-> e.name, desc |-> e.desc, attributes |-> e.attributes]
    OBVIOUS
  <1> HIDE DEF e
  <1>2. e.flags \intersect {"NATIVE", "ABSTRACT"} = {}
    BY <1>1 DEF copy_flags
  <1>3. HasCode(c, e) /\ CodeOf(c, e) = CodeOf(c, m)
    BY <1>1 DEF HasCode, CodeOf
  <1>4. IsMethod(c, e)
    BY <1>1, <1>2, <1>3 DEF IsMethod
  <1> QED BY <1>3, <1>4 DEF e

\* And gives it back.
LEMMA CodeReturned ==
    ASSUME NEW c, NEW m, IsMethod(c, m), "NATIVE" \in m.flags, "ABSTRACT" \notin m.flags,
           NEW f, IsMethod(c, f), HasCode(c, f)
    PROVE  LET code == f.attributes[attribute_list_find(c, f.attributes, Name("Code"))]
               e == [flags |-> m.flags \ {"NATIVE"}, name |-> m.name, desc |-> m.desc,
                     attributes |-> Append(m.attributes, code)]
           IN  IsMethod(c, e) /\ HasCode(c, e) /\ CodeOf(c, e) = CodeOf(c, f)
  <1> DEFINE k == attribute_list_find(c, f.attributes, Name("Code"))
             code == f.attributes[k]
             list == Append(m.attributes, code)
             n == Len(m.attributes)
             e == [flags |-> m.flags \ {"NATIVE"}, name |-> m.name, desc |-> m.desc, attributes |-> list]
  <1>1. k \in 1..Len(f.attributes) /\ IsCode(c, code) /\ CodeOf(c, f) = code.info
    BY CodePlace
  <1>2. /\ code = [name |-> code.name, info |-> code.info] /\ code.name \in 1..Len(c.pool)
        /\ IsBody(code.info)
    BY <1>1 DEF IsMethod
  <1> HIDE DEF code
  <1>3. ~HasCode(c, m)
    BY DEF IsMethod
  <1>4. \A j \in 1..n : ~IsCode(c, m.attributes[j])
    BY <1>3, NoCodePlace
  <1>5. IsList(m.attributes) /\ n \in Nat
    BY DEF IsMethod, IsList
  <1>6. IsList(list) /\ Len(list) = n + 1 /\ \A j \in 1..n : list[j] = m.attributes[j]
    BY <1>5, ListOps
  <1>7. list[n + 1] = code
    BY <1>5, AppendedLast
  <1>8. /\ e.flags = m.flags \ {"NATIVE"} /\ e.name = m.name /\ e.desc = m.desc
        /\ e.attributes = list
        /\ e = [flags |-> e.flags, name |-> e.name, desc |-> e.desc, attributes |-> e.attributes]
    OBVIOUS
  <1> HIDE DEF list, e
  <1>9. n + 1 \in 1..(n + 1) /\ n + 1 # 0 /\ \A j \in 1..(n + 1) : j = n + 1 \/ j \in 1..n
    BY <1>5
  <1>10. \A j \in 1..(n + 1) : IsCode(c, list[j]) <=> j = n + 1
    <2>1. \A j \in 1..n : j # n + 1
      BY <1>5
    <2> QED BY <1>1, <1>4, <1>6, <1>7, <1>9, <2>1
  <1>11. attribute_list_find(c, list, Name("Code")) = n + 1
    <2> DEFINE z == n + 1
    <2>1. z \in 1..Len(list) /\ IsCode(c, list[z]) /\ \A j \in 1..Len(list) : IsCode(c, list[j]) => j = z
      BY <1>6, <1>9, <1>10
    <2> HIDE DEF z
    <2>2. attribute_list_find(c, list, Name("Code")) = z
      BY ONLY <1>6, <2>1, CodeFound
    <2> QED BY <2>2 DEF z
  <1>12. HasCode(c, e) /\ CodeOf(c, e) = CodeOf(c, f)
    BY <1>1, <1>7, <1>8, <1>9, <1>11 DEF HasCode, CodeOf
  <1>13. \A j \in 1..Len(list) :
             list[j] = [name |-> list[j].name, info |-> list[j].info] /\ list[j].name \in 1..Len(c.pool)
    <2>1. \A j \in 1..n : /\ m.attributes[j] = [name |-> m.attributes[j].name, info |-> m.attributes[j].info]
                          /\ m.attributes[j].name \in 1..Len(c.pool)
      BY DEF IsMethod
    <2> QED BY <1>2, <1>6, <1>7, <1>9, <2>1
  <1>14. /\ e.name \in 1..Len(c.pool) /\ e.desc \in 1..Len(c.pool)
         /\ e.flags \intersect {"NATIVE", "ABSTRACT"} = {}
    BY <1>8 DEF IsMethod
  <1>15. /\ \A i, j \in 1..Len(list) : IsCode(c, list[i]) /\ IsCode(c, list[j]) => i = j
         /\ \A j \in 1..Len(list) : IsCode(c, list[j]) => IsBody(list[j].info)
    BY <1>2, <1>6, <1>7, <1>10
  <1>16. IsMethod(c, e)
    BY <1>6, <1>8, <1>12, <1>13, <1>14, <1>15 DEF IsMethod
  <1> QED BY <1>12, <1>16 DEF e, list, code

LEMMA OneBody ==
    ASSUME NEW c, IsClass(c), NEW m \in Range(c.methods), NEW name, NEW desc, IsNamed(c, m, name, desc)
    PROVE  /\ \A core : HasBody(c, name, desc, core) => HasCode(c, m) /\ core = Core(CodeOf(c, m))
           /\ HasNative(c, name, desc) => "NATIVE" \in m.flags /\ "ABSTRACT" \notin m.flags
  <1>1. \A e \in Range(c.methods) : IsNamed(c, e, name, desc) => e = m
    BY OneMethod
  <1> QED BY <1>1 DEF HasBody, HasNative

\* What class_transform_make_native does when it succeeds.
MadeNative(c, d, call) ==
    /\ IsClass(d)
    /\ ~HasMethod(c, call.copy, call.desc) /\ HasMethod(c, call.name, call.desc)
    /\ ~HasNative(c, call.name, call.desc)
    /\ HasMethod(d, call.name, call.desc) /\ HasNative(d, call.name, call.desc)
    /\ \E core : HasBody(d, call.copy, call.desc, core)
    /\ \A core : HasBody(c, call.name, call.desc, core) => HasBody(d, call.copy, call.desc, core)
    /\ \A name, desc : ~(name = call.name /\ desc = call.desc) => KeepsMethod(c, d, name, desc)

LEMMA MakeNativeKeeps ==
    ASSUME NEW c, NEW call, NEW fault, IsClass(c),
           class_transform_make_native(c, call.name, call.desc, call.copy, fault).status = "OK"
    PROVE  MadeNative(c, class_transform_make_native(c, call.name, call.desc, call.copy, fault).cf, call)
  <1> DEFINE name == call.name
             desc == call.desc
             copy == call.copy
             i == classFile_find_method(c, name, desc)
             refusal == Refusal(c, i, {Name("<init>"), Name("<clinit>")})
             n == classFile_intern_utf8(c.pool, copy)
             m == c.methods[i]
             k == attribute_list_find(c, m.attributes, Name("Code"))
             native == [m EXCEPT !.flags = @ \union {"NATIVE"},
                                 !.attributes = attribute_list_remove_named(c, @, Name("Code"))]
             copied == [m EXCEPT !.name = n.index, !.flags = copy_flags(@)]
             d == WithPool(c, n.pool)
             done == [d EXCEPT !.methods = Append([@ EXCEPT ![i] = native], copied)]
             interface == "INTERFACE" \in c.flags
             found == classFile_find_method(c, copy, desc)
             failed == ~n.ok \/ fault \in {"copy", "append"}
             r == class_transform_make_native(c, name, desc, copy, fault)
  <1>1. r = IF interface THEN Result("INTERFACE", c)
            ELSE IF found # 0 THEN Result("NAME_IN_USE", c)
            ELSE IF refusal # "OK" THEN Result(refusal, c)
            ELSE IF failed THEN Result("CLASSFILE", WithPool(c, n.pool))
            ELSE Result("OK", done)
    BY DEF class_transform_make_native
  <1>2. Grows(c.pool, n.pool) /\ IsList(c.pool)
    BY InternUtf8Grows DEF IsClass, IsClassFile
  <1> HIDE DEF i, refusal, n, interface, found, failed, r, done
  <1>3. found = 0 /\ refusal = "OK" /\ n.ok /\ r.cf = done
    <2>1. r.status = "OK"
      BY DEF r
    <2> QED BY <1>1, <2>1 DEF Result, failed
  <1>4. n.index \in 1..Len(n.pool) /\ constant_pool_utf8(n.pool, n.index) = copy
    BY <1>2, <1>3, InternedText DEF n
  <1>5. /\ i \in 1..Len(c.methods) /\ HasCode(c, m) /\ IsNamed(c, m, name, desc) /\ m \in Range(c.methods)
        /\ "NATIVE" \notin m.flags /\ "ABSTRACT" \notin m.flags
        /\ IsClass(d) /\ Keeps(c, d) /\ d.methods = c.methods /\ d.pool = n.pool
        /\ HasCode(d, d.methods[i]) /\ CodeOf(d, d.methods[i]) = CodeOf(c, c.methods[i])
    BY <1>2, <1>3, Rewritable DEF refusal, i
  <1>6. ~HasMethod(c, copy, desc)
    BY <1>3, FoundNamed DEF found, IsClass
  <1>7. ~HasMethod(d, copy, desc)
    BY <1>2, <1>6, NothingNew
  <1> HIDE DEF d
  <1>8. /\ IsMethod(c, m) /\ IsMethod(d, m) /\ IsNamed(d, m, name, desc)
        /\ attribute_list_find(d, m.attributes, Name("Code")) = k
    <2>1. IsMethod(c, m)
      BY <1>5 DEF IsClass
    <2>2. Grows(c.pool, d.pool)
      BY <1>2, <1>5
    <2>3. IsMethod(d, m) /\ IsNamed(d, m, name, desc)
      BY <1>5, <2>1, <2>2, MethodKept DEF IsNamed
    <2>4. attribute_list_find(d, m.attributes, Name("Code")) = k
      <3>1. k \in 1..Len(m.attributes) /\ IsCode(c, m.attributes[k])
        BY <1>5, <2>1, CodePlace
      <3>2. IsList(m.attributes) /\ m.attributes[k].name \in 1..Len(c.pool)
        BY <2>1, <3>1 DEF IsMethod
      <3>3. IsCode(d, m.attributes[k])
        BY <2>2, <3>1, <3>2, TextKept DEF IsCode
      <3>4. \A j \in 1..Len(m.attributes) : IsCode(d, m.attributes[j]) => j = k
        BY <2>3, <3>1, <3>3 DEF IsMethod
      <3> HIDE DEF k
      <3> QED BY <3>1, <3>2, <3>3, <3>4, CodeFound
    <2> QED BY <2>1, <2>3, <2>4
  <1> DEFINE native2 == [flags |-> m.flags \union {"NATIVE"}, name |-> m.name, desc |-> m.desc,
                         attributes |-> RemoveAt(m.attributes, k)]
             copied2 == [flags |-> copy_flags(m.flags), name |-> n.index, desc |-> m.desc,
                         attributes |-> m.attributes]
             list == [c.methods EXCEPT ![i] = native2]
             made == [d EXCEPT !.methods = list]
             last == [made EXCEPT !.methods = Append(made.methods, copied2)]
  <1>9. native = native2 /\ copied = copied2
    <2> DEFINE x == RemoveAt(m.attributes, k)
               fl == m.flags \union {"NATIVE"}
               cp == copy_flags(m.flags)
    <2>1. m = [flags |-> m.flags, name |-> m.name, desc |-> m.desc, attributes |-> m.attributes]
      BY <1>8 DEF IsMethod
    <2>2. native = [m EXCEPT !.flags = fl, !.attributes = x]
      BY DEF attribute_list_remove_named
    <2>3. copied = [m EXCEPT !.name = n.index, !.flags = cp]
      BY <2>1
    <2> HIDE DEF x, fl, cp
    <2>4. [m EXCEPT !.flags = fl, !.attributes = x]
              = [flags |-> fl, name |-> m.name, desc |-> m.desc, attributes |-> x]
      <3> DEFINE a == [m EXCEPT !.flags = fl]
      <3>1. a = [flags |-> fl, name |-> m.name, desc |-> m.desc, attributes |-> m.attributes]
        BY ONLY <2>1
      <3>2. [m EXCEPT !.flags = fl, !.attributes = x] = [a EXCEPT !.attributes = x]
        BY ONLY DEF a
      <3> HIDE DEF a
      <3>3. [a EXCEPT !.attributes = x]
                = [flags |-> fl, name |-> m.name, desc |-> m.desc, attributes |-> x]
        BY ONLY <3>1
      <3> QED BY ONLY <3>2, <3>3
    <2>5. [m EXCEPT !.name = n.index, !.flags = cp]
              = [flags |-> cp, name |-> n.index, desc |-> m.desc, attributes |-> m.attributes]
      <3> DEFINE a == [m EXCEPT !.name = n.index]
      <3>1. a = [flags |-> m.flags, name |-> n.index, desc |-> m.desc, attributes |-> m.attributes]
        BY ONLY <2>1
      <3>2. [m EXCEPT !.name = n.index, !.flags = cp] = [a EXCEPT !.flags = cp]
        BY ONLY DEF a
      <3> HIDE DEF a
      <3>3. [a EXCEPT !.flags = cp]
                = [flags |-> cp, name |-> n.index, desc |-> m.desc, attributes |-> m.attributes]
        BY ONLY <3>1
      <3> QED BY ONLY <3>2, <3>3
    <2>6. native = native2
      BY ONLY <2>2, <2>4 DEF native2, x, fl
    <2>7. copied = copied2
      BY ONLY <2>3, <2>5 DEF copied2, cp
    <2> QED BY ONLY <2>6, <2>7
  <1>10. IsMethod(d, native2)
    BY <1>5, <1>8, CodeTaken
  <1>11. IsMethod(d, copied2) /\ HasCode(d, copied2) /\ CodeOf(d, copied2) = CodeOf(c, m)
    BY <1>4, <1>5, <1>8, CodeCopied
  <1>12. /\ native2.name = m.name /\ native2.desc = m.desc /\ copied2.name = n.index /\ copied2.desc = m.desc
         /\ native2.flags = m.flags \union {"NATIVE"}
    OBVIOUS
  <1> HIDE DEF native, copied, native2, copied2
  <1>13. /\ IsClass(made) /\ made.pool = d.pool /\ made.methods = list
         /\ native2 \in Range(made.methods) /\ KeepsOthers(d, made, native2)
    <2>1. /\ IsClass(d) /\ i \in 1..Len(d.methods) /\ list = [d.methods EXCEPT ![i] = native2]
          /\ native2.name = d.methods[i].name /\ native2.desc = d.methods[i].desc
      BY <1>5, <1>12
    <2> HIDE DEF list
    <2> QED BY ONLY <1>10, <2>1, MethodReplaced DEF made
  <1> HIDE DEF list, made
  <1>14. IsNamed(made, native2, name, desc) /\ IsNamed(d, native2, name, desc)
    BY <1>8, <1>12, <1>13 DEF IsNamed
  <1>15. /\ constant_pool_utf8(made.pool, copied2.name) = copy
         /\ constant_pool_utf8(made.pool, copied2.desc) = desc
    BY <1>4, <1>5, <1>8, <1>12, <1>13 DEF IsNamed
  <1>16. ~HasMethod(made, copy, desc)
    <2> SUFFICES ASSUME HasMethod(made, copy, desc)
                 PROVE  FALSE
      OBVIOUS
    <2>1. PICK e \in Range(made.methods) : IsNamed(made, e, copy, desc)
      BY DEF HasMethod
    <2>2. IsList(made.methods) /\ IsList(d.methods)
      BY <1>5, <1>13 DEF IsClass, IsClassFile
    <2>3. PICK j \in 1..Len(made.methods) : e = made.methods[j]
      BY <2>2, Ranged
    <2>4. Len(made.methods) = Len(d.methods)
      BY <1>5, <1>13, <2>2, ListExcept DEF list
    <2>5. made.methods[j] = IF j = i THEN native2 ELSE d.methods[j]
      BY <1>5, <1>13, <2>2, <2>3, <2>4 DEF list, IsList
    <2>6. CASE j = i
      <3>1. name = copy
        BY <1>14, <2>1, <2>3, <2>5, <2>6 DEF IsNamed
      <3>2. HasMethod(c, name, desc)
        BY <1>5 DEF HasMethod
      <3> QED BY <1>6, <3>1, <3>2
    <2>7. CASE j # i
      <3>1. e \in Range(d.methods)
        BY <2>2, <2>3, <2>4, <2>5, <2>7, Ranged
      <3>2. IsNamed(d, e, copy, desc)
        BY <1>13, <2>1 DEF IsNamed
      <3> QED BY <1>7, <3>1, <3>2 DEF HasMethod
    <2> QED BY <2>6, <2>7
  <1>17. /\ IsMethod(made, copied2) /\ HasCode(made, copied2) /\ CodeOf(made, copied2) = CodeOf(c, m)
    BY <1>11, <1>13, SamePool
  <1>18. /\ IsClass(last) /\ last.pool = made.pool /\ copied2 \in Range(last.methods) /\ Keeps(made, last)
    BY <1>13, <1>15, <1>16, <1>17, MethodAdded
  <1>19. done = last
    <2>1. done = [d EXCEPT !.methods = Append(list, copied2)]
      BY <1>5, <1>9 DEF done, list
    <2>2. last = [made EXCEPT !.methods = Append(list, copied2)]
      BY <1>13
    <2> DEFINE long == Append(list, copied2)
    <2> HIDE DEF long, last, done
    <2>3. [[d EXCEPT !.methods = list] EXCEPT !.methods = long] = [d EXCEPT !.methods = long]
      BY <1>5 DEF IsClass, IsClassFile
    <2> QED BY <2>1, <2>2, <2>3 DEF made, long
  <1> HIDE DEF last
  <1>20. HasMethod(last, name, desc) /\ HasNative(last, name, desc)
    <2>1. HasMethod(made, name, desc) /\ HasNative(made, name, desc)
      <3>1. "NATIVE" \in native2.flags /\ "ABSTRACT" \notin native2.flags
        BY <1>5, <1>12
      <3> QED BY <1>13, <1>14, <3>1 DEF HasMethod, HasNative
    <2> QED BY <1>18, <2>1 DEF Keeps, KeepsMethod
  <1>21. HasBody(last, copy, desc, Core(CodeOf(c, m)))
    <2>1. IsNamed(last, copied2, copy, desc)
      BY <1>15, <1>18 DEF IsNamed
    <2>2. HasCode(last, copied2) /\ CodeOf(last, copied2) = CodeOf(c, m)
      BY <1>17, <1>18, SamePool
    <2> QED BY <1>18, <2>1, <2>2 DEF HasBody
  <1>22. /\ \A core : HasBody(c, name, desc, core) => core = Core(CodeOf(c, m))
         /\ ~HasNative(c, name, desc)
    BY <1>5, OneBody
  <1>23. ASSUME NEW x, NEW y, ~(x = name /\ y = desc)
         PROVE  KeepsMethod(c, last, x, y)
    <2>1. ~IsNamed(d, native2, x, y)
      BY <1>14, <1>23 DEF IsNamed
    <2>2. KeepsMethod(d, made, x, y) /\ KeepsMethod(c, d, x, y) /\ KeepsMethod(made, last, x, y)
      BY <1>5, <1>13, <1>18, <2>1 DEF KeepsOthers, Keeps
    <2> QED BY <2>2 DEF KeepsMethod
  <1>24. HasMethod(c, name, desc)
    BY <1>5 DEF HasMethod
  <1>25. MadeNative(c, last, call)
    BY <1>6, <1>18, <1>20, <1>21, <1>22, <1>23, <1>24 DEF MadeNative
  <1> QED BY <1>3, <1>19, <1>25 DEF r

\* What class_transform_restore does when it succeeds.
Restored(c, d, call) ==
    /\ IsClass(d)
    /\ HasMethod(d, call.name, call.desc)
    /\ \A core : HasBody(c, call.copy, call.desc, core) => HasBody(d, call.name, call.desc, core)
    /\ \A name, desc : ~(desc = call.desc /\ name \in {call.name, call.copy}) => KeepsMethod(c, d, name, desc)

LEMMA RestoreKeeps ==
    ASSUME NEW c, NEW call, NEW fault, IsClass(c), HasNative(c, call.name, call.desc), call.copy # call.name,
           class_transform_restore(c, call.name, call.desc, call.copy, fault).status = "OK"
    PROVE  Restored(c, class_transform_restore(c, call.name, call.desc, call.copy, fault).cf, call)
  <1> DEFINE name == call.name
             desc == call.desc
             copy == call.copy
             k == classFile_find_method(c, copy, desc)
             i == classFile_find_method(c, name, desc)
             m == c.methods[i]
             f == c.methods[k]
             held == [m EXCEPT !.attributes = Append(@, Attribute(0, <<>>))]
             appended == [c EXCEPT !.methods[i] = held]
             undone == [appended EXCEPT !.methods[i].attributes = RemoveAt(@, Len(@))]
             source == appended.methods[k]
             found == source.attributes[attribute_list_find(appended, source.attributes, Name("Code"))]
             code == f.attributes[attribute_list_find(c, f.attributes, Name("Code"))]
             attributes == Append(m.attributes, code)
             flags == m.flags \ {"NATIVE"}
             restored == [held EXCEPT !.flags = @ \ {"NATIVE"}, !.attributes = [@ EXCEPT ![Len(@)] = found]]
             e == [flags |-> flags, name |-> m.name, desc |-> m.desc, attributes |-> attributes]
             done == [appended EXCEPT !.methods = RemoveAt([@ EXCEPT ![i] = restored], k)]
             missing == k = 0 \/ i = 0
             empty == ~HasCode(c, f)
             gone == ~HasCode(appended, source)
             r == class_transform_restore(c, name, desc, copy, fault)
  <1>1. r = IF missing THEN Result("METHOD_NOT_FOUND", c)
            ELSE IF empty THEN Result("NO_CODE", c)
            ELSE IF fault = "append" THEN Result("CLASSFILE", c)
            ELSE IF gone THEN Result("NO_CODE", undone)
            ELSE IF fault = "copy" THEN Result("CLASSFILE", undone)
            ELSE Result("OK", done)
    BY DEF class_transform_restore
  <1> HIDE DEF i, k, missing, empty, gone, undone, done, r
  <1>2. i # 0 /\ k # 0 /\ HasCode(c, f) /\ r.cf = done
    <2>1. r.status = "OK"
      BY DEF r
    <2> QED BY <1>1, <2>1 DEF Result, missing, empty
  <1>3. /\ i \in 1..Len(c.methods) /\ m \in Range(c.methods) /\ IsNamed(c, m, name, desc)
    BY <1>2, FoundNamed DEF i, IsClass
  <1>4. /\ k \in 1..Len(c.methods) /\ f \in Range(c.methods) /\ IsNamed(c, f, copy, desc)
    BY <1>2, FoundNamed DEF k, IsClass
  <1>5. i # k
    BY <1>3, <1>4 DEF IsNamed
  <1>6. IsMethod(c, m) /\ IsMethod(c, f)
    BY <1>3, <1>4 DEF IsClass
  <1>7. "NATIVE" \in m.flags /\ "ABSTRACT" \notin m.flags
    BY <1>3, OneBody
  <1> HIDE DEF held, appended, found, restored
  <1>8. /\ appended.pool = c.pool /\ appended.methods = [c.methods EXCEPT ![i] = held]
        /\ held = [flags |-> m.flags, name |-> m.name, desc |-> m.desc,
                   attributes |-> Append(m.attributes, Attribute(0, <<>>))]
        /\ IsClassFile(appended)
    <2> DEFINE x == Attribute(0, <<>>)
    <2>1. held = Held(c.methods[i], x)
      BY DEF held, Held
    <2>2. appended = Appended(c, i, x)
      BY DEF appended, held, Appended, Held
    <2>3. IsClass(c) /\ i \in 1..Len(c.methods)
      BY <1>3
    <2> HIDE DEF x
    <2>4. IsClassFile(Appended(c, i, x)) /\ Appended(c, i, x).pool = c.pool
      BY ONLY <2>3, AppendUndone
    <2>5. appended.methods = [c.methods EXCEPT ![i] = held]
      BY DEF appended, IsClass, IsClassFile
    <2>6. held = [flags |-> m.flags, name |-> m.name, desc |-> m.desc, attributes |-> Append(m.attributes, x)]
      <3>1. m = [flags |-> m.flags, name |-> m.name, desc |-> m.desc, attributes |-> m.attributes]
        BY <1>6 DEF IsMethod
      <3>2. held = [m EXCEPT !.attributes = Append(m.attributes, x)]
        BY <2>1 DEF Held
      <3> DEFINE longer == Append(m.attributes, x)
      <3> HIDE DEF m, longer
      <3>3. [m EXCEPT !.attributes = longer] =
                [flags |-> m.flags, name |-> m.name, desc |-> m.desc, attributes |-> longer]
        BY ONLY <3>1
      <3> QED BY ONLY <3>2, <3>3 DEF longer
    <2> QED BY ONLY <2>2, <2>4, <2>5, <2>6 DEF x
  <1>8a. found = code
    <2>1. source = f
      <3>1. IsList(c.methods)
        BY DEF IsClass, IsClassFile
      <3> QED BY <1>4, <1>5, <1>8, <3>1 DEF IsList
    <2> HIDE DEF source
    <2> QED BY <1>8, <2>1 DEF found, attribute_list_find
  <1>8b. restored = e
    <2> DEFINE longer == Append(m.attributes, Attribute(0, <<>>))
    <2>1. [longer EXCEPT ![Len(longer)] = code] = attributes
      <3>1. IsList(m.attributes)
        BY <1>6 DEF IsMethod
      <3> HIDE DEF m, code
      <3> QED BY ONLY <3>1, AppendReplaced DEF longer, attributes
    <2> HIDE DEF longer, code, attributes, m
    <2>2. restored = [held EXCEPT !.flags = flags, !.attributes = attributes]
      BY <1>8, <1>8a, <2>1 DEF restored, flags, longer
    <2> HIDE DEF flags
    <2> QED BY <1>8, <2>2
  <1>9. IsMethod(c, e) /\ HasCode(c, e) /\ CodeOf(c, e) = CodeOf(c, f)
    <2> HIDE DEF m, f
    <2>1. HasCode(c, f)
      BY <1>2
    <2> QED BY ONLY <1>6, <1>7, <2>1, CodeReturned DEF e, flags, attributes, code
  <1>10. e.name = m.name /\ e.desc = m.desc
    OBVIOUS
  <1> HIDE DEF e
  <1> DEFINE list == [c.methods EXCEPT ![i] = e]
             made == [c EXCEPT !.methods = list]
             last == [made EXCEPT !.methods = RemoveAt(made.methods, k)]
  <1>11. /\ IsClass(made) /\ made.pool = c.pool /\ made.methods = list
         /\ e \in Range(made.methods) /\ KeepsOthers(c, made, e)
    BY <1>3, <1>9, <1>10, MethodReplaced
  <1>12. k \in 1..Len(list) /\ list[k] = f
    <2>1. IsList(c.methods)
      BY DEF IsClass, IsClassFile
    <2>2. Len(list) = Len(c.methods)
      BY <2>1, ListExcept
    <2>3. list[k] = f
      BY <1>4, <1>5, <2>1 DEF IsList
    <2> QED BY <1>4, <2>2, <2>3
  <1> HIDE DEF list, made
  <1>13. IsClass(last) /\ last.pool = made.pool /\ KeepsOthers(made, last, f)
    BY <1>11, <1>12, MethodRemoved
  <1>14. done = last
    <2>0. [[c.methods EXCEPT ![i] = held] EXCEPT ![i] = e] = list
      BY DEF list
    <2>1. done = [appended EXCEPT !.methods = RemoveAt(list, k)]
      BY <1>8, <1>8b, <2>0 DEF done
    <2>2. last = [made EXCEPT !.methods = RemoveAt(list, k)]
      BY <1>11
    <2> DEFINE short == RemoveAt(list, k)
    <2> HIDE DEF short, last, done
    <2>3. [[c EXCEPT !.methods = list] EXCEPT !.methods = short] = [c EXCEPT !.methods = short]
      BY DEF IsClass, IsClassFile
    <2>4. [appended EXCEPT !.methods = short] = [c EXCEPT !.methods = short]
      BY DEF appended, IsClass, IsClassFile
    <2> QED BY <2>1, <2>2, <2>3, <2>4 DEF made, short
  <1> HIDE DEF last
  <1>15. IsNamed(c, e, name, desc) /\ IsNamed(made, e, name, desc) /\ IsNamed(made, f, copy, desc)
    BY <1>3, <1>4, <1>10, <1>11 DEF IsNamed
  <1>16. ASSUME NEW x, NEW y, ~(x = copy /\ y = desc)
         PROVE  KeepsMethod(made, last, x, y)
    <2>1. ~IsNamed(made, f, x, y)
      BY <1>15, <1>16 DEF IsNamed
    <2> QED BY <1>13, <2>1 DEF KeepsOthers
  <1>17. HasMethod(last, name, desc)
    <2>1. HasMethod(made, name, desc)
      BY <1>11, <1>15 DEF HasMethod
    <2>2. KeepsMethod(made, last, name, desc)
      BY <1>16
    <2> QED BY <2>1, <2>2 DEF KeepsMethod
  <1>18. ASSUME NEW core, HasBody(c, copy, desc, core)
         PROVE  HasBody(last, name, desc, core)
    <2>1. core = Core(CodeOf(c, f))
      BY <1>4, <1>18, OneBody
    <2>2. HasCode(made, e) /\ CodeOf(made, e) = CodeOf(c, f)
      BY <1>9, <1>11, SamePool
    <2>3. HasBody(made, name, desc, core)
      BY <1>11, <1>15, <2>1, <2>2 DEF HasBody
    <2>4. KeepsMethod(made, last, name, desc)
      BY <1>16
    <2> QED BY <2>3, <2>4 DEF KeepsMethod
  <1>19. ASSUME NEW x, NEW y, ~(y = desc /\ x \in {name, copy})
         PROVE  KeepsMethod(c, last, x, y)
    <2>1. ~IsNamed(c, e, x, y)
      BY <1>15, <1>19 DEF IsNamed
    <2>2. KeepsMethod(c, made, x, y)
      BY <1>11, <2>1 DEF KeepsOthers
    <2>3. KeepsMethod(made, last, x, y)
      BY <1>16, <1>19
    <2> QED BY <2>2, <2>3 DEF KeepsMethod
  <1>20. Restored(c, last, call)
    BY <1>13, <1>17, <1>18, <1>19 DEF Restored
  <1> QED BY <1>2, <1>14, <1>20 DEF r

-----------------------------------------------------------------------------
(* Every body stays *)

Utf8Name(c, m) == constant_pool_utf8(c.pool, m.name)
Utf8Desc(c, m) == constant_pool_utf8(c.pool, m.desc)

\* The body of a method is in the method, or in its copy.
BodyKept(c, calls, name, desc, core) ==
    \/ HasBody(c, name, desc, core)
    \/ \E call \in calls : call.name = name /\ call.desc = desc /\ HasBody(c, call.copy, desc, core)

\* Every method o had is still declared in c, with its body in it or in its copy.
OriginalsStay(o, c, calls) ==
    \A m \in Range(o.methods) :
        /\ HasMethod(c, Utf8Name(o, m), Utf8Desc(o, m))
        /\ HasCode(o, m) => BodyKept(c, calls, Utf8Name(o, m), Utf8Desc(o, m), Core(CodeOf(o, m)))

\* A method made native is native still, and its copy, which is no method the
\* class had, has a body.
MovedAway(o, c, call) ==
    /\ call.copy # call.name
    /\ ~HasMethod(o, call.copy, call.desc)
    /\ HasNative(c, call.name, call.desc)
    /\ \E core : HasBody(c, call.copy, call.desc, core)

MovedOnce(calls) ==
    \A a, b \in calls : a.desc = b.desc /\ (a.name = b.name \/ a.copy = b.copy) => a = b

EditsInv(o, c, calls) ==
    /\ IsClass(c)
    /\ OriginalsStay(o, c, calls)
    /\ calls \subseteq Calls.native
    /\ \A call \in calls : MovedAway(o, c, call)
    /\ MovedOnce(calls)

TransformInv == EditsInv(original, cf, moved)

LEMMA TransformStarts == Init => TransformInv
  <1> SUFFICES ASSUME Init
               PROVE  TransformInv
    OBVIOUS
  <1>1. IsClass(original) /\ cf = original /\ moved = {}
    BY ClassTransformAssumption DEF Init
  <1>2. ASSUME NEW m \in Range(original.methods)
        PROVE  /\ HasMethod(cf, Utf8Name(original, m), Utf8Desc(original, m))
               /\ HasCode(original, m) =>
                      BodyKept(cf, moved, Utf8Name(original, m), Utf8Desc(original, m), Core(CodeOf(original, m)))
    <2>1. IsNamed(cf, m, Utf8Name(original, m), Utf8Desc(original, m))
      BY <1>1 DEF IsNamed, Utf8Name, Utf8Desc
    <2>2. m \in Range(cf.methods)
      BY <1>1
    <2>3. HasMethod(cf, Utf8Name(original, m), Utf8Desc(original, m))
      BY <2>1, <2>2 DEF HasMethod
    <2>4. HasCode(original, m) =>
              HasBody(cf, Utf8Name(original, m), Utf8Desc(original, m), Core(CodeOf(original, m)))
      BY <1>1, <2>1, <2>2 DEF HasBody
    <2> QED BY <2>3, <2>4 DEF BodyKept
  <1>3. OriginalsStay(original, cf, moved)
    BY <1>2 DEF OriginalsStay
  <1> QED BY <1>1, <1>3 DEF TransformInv, EditsInv, MovedOnce

LEMMA KeptInv ==
    ASSUME NEW o, NEW c, NEW d, NEW calls, EditsInv(o, c, calls), IsClass(d), Keeps(c, d)
    PROVE  EditsInv(o, d, calls)
  <1>1. /\ \A name, desc : HasMethod(c, name, desc) => HasMethod(d, name, desc)
        /\ \A name, desc : HasNative(c, name, desc) => HasNative(d, name, desc)
        /\ \A name, desc, core : HasBody(c, name, desc, core) => HasBody(d, name, desc, core)
    BY DEF Keeps, KeepsMethod
  <1>2. OriginalsStay(o, d, calls)
    BY <1>1 DEF EditsInv, OriginalsStay, BodyKept
  <1>3. \A call \in calls : MovedAway(o, d, call)
    BY <1>1 DEF EditsInv, MovedAway
  <1> QED BY <1>2, <1>3 DEF EditsInv

LEMMA MadeNativeInv ==
    ASSUME NEW o, NEW c, NEW d, NEW calls, EditsInv(o, c, calls), NEW call \in Calls.native,
           MadeNative(c, d, call)
    PROVE  EditsInv(o, d, calls \union {call})
  <1> DEFINE name == call.name
             desc == call.desc
             copy == call.copy
             more == calls \union {call}
  <1>1. ASSUME NEW x, NEW y, ~(x = name /\ y = desc)
        PROVE  /\ HasMethod(c, x, y) => HasMethod(d, x, y)
               /\ HasNative(c, x, y) => HasNative(d, x, y)
               /\ \A core : HasBody(c, x, y, core) => HasBody(d, x, y, core)
    BY <1>1 DEF MadeNative, KeepsMethod
  <1>2. ASSUME NEW a \in calls
        PROVE  ~(a.name = name /\ a.desc = desc) /\ ~(a.copy = name /\ a.desc = desc)
               /\ ~(a.copy = copy /\ a.desc = desc)
    <2>1. MovedAway(o, c, a) /\ a \in Calls.native
      BY DEF EditsInv
    <2>2. ~(a.name = name /\ a.desc = desc)
      BY <2>1 DEF MovedAway, MadeNative
    <2>3. ~(a.copy = name /\ a.desc = desc)
      BY <2>1, ClassTransformAssumption DEF MovedAway
    <2>4. HasMethod(c, a.copy, a.desc)
      BY <2>1 DEF MovedAway, HasBody, HasMethod
    <2>5. ~(a.copy = copy /\ a.desc = desc)
      BY <2>4 DEF MadeNative
    <2> QED BY <2>2, <2>3, <2>5
  <1>3. OriginalsStay(o, d, more)
    <2> SUFFICES ASSUME NEW m \in Range(o.methods)
                 PROVE  /\ HasMethod(d, Utf8Name(o, m), Utf8Desc(o, m))
                        /\ HasCode(o, m) =>
                               BodyKept(d, more, Utf8Name(o, m), Utf8Desc(o, m), Core(CodeOf(o, m)))
      BY DEF OriginalsStay
    <2> DEFINE x == Utf8Name(o, m)
               y == Utf8Desc(o, m)
               core == Core(CodeOf(o, m))
    <2>1. HasMethod(c, x, y) /\ (HasCode(o, m) => BodyKept(c, calls, x, y, core))
      BY DEF EditsInv, OriginalsStay
    <2> HIDE DEF x, y, core
    <2>2. HasMethod(d, x, y)
      BY <1>1, <2>1 DEF MadeNative
    <2>3. ASSUME HasBody(c, x, y, core)
          PROVE  BodyKept(d, more, x, y, core)
      <3>1. CASE x = name /\ y = desc
        <4>1. HasBody(d, copy, desc, core)
          BY <2>3, <3>1 DEF MadeNative
        <4> QED BY <3>1, <4>1 DEF BodyKept
      <3>2. CASE ~(x = name /\ y = desc)
        <4>1. HasBody(d, x, y, core)
          BY <1>1, <2>3, <3>2
        <4> QED BY <4>1 DEF BodyKept
      <3> QED BY <3>1, <3>2
    <2>4. ASSUME NEW a \in calls, a.name = x, a.desc = y, HasBody(c, a.copy, y, core)
          PROVE  BodyKept(d, more, x, y, core)
      <3>1. HasBody(d, a.copy, y, core)
        BY <1>1, <1>2, <2>4
      <3> QED BY <2>4, <3>1 DEF BodyKept
    <2>5. BodyKept(c, calls, x, y, core) => BodyKept(d, more, x, y, core)
      BY <2>3, <2>4 DEF BodyKept
    <2> QED BY <2>1, <2>2, <2>5 DEF x, y, core
  <1>4. ASSUME NEW a \in calls
        PROVE  MovedAway(o, d, a)
    <2>1. MovedAway(o, c, a)
      BY DEF EditsInv
    <2>2. HasNative(d, a.name, a.desc)
      BY <1>1, <1>2, <2>1 DEF MovedAway
    <2>3. \E core : HasBody(d, a.copy, a.desc, core)
      BY <1>1, <1>2, <2>1 DEF MovedAway
    <2> QED BY <2>1, <2>2, <2>3 DEF MovedAway
  <1>5. MovedAway(o, d, call)
    <2>1. copy # name
      BY DEF MadeNative
    <2>2. ~HasMethod(o, copy, desc)
      <3> SUFFICES ASSUME HasMethod(o, copy, desc)
                   PROVE  FALSE
        OBVIOUS
      <3>1. PICK m \in Range(o.methods) : IsNamed(o, m, copy, desc)
        BY DEF HasMethod
      <3>2. HasMethod(c, copy, desc)
        BY <3>1 DEF EditsInv, OriginalsStay, IsNamed, Utf8Name, Utf8Desc
      <3> QED BY <3>2 DEF MadeNative
    <2> QED BY <2>1, <2>2 DEF MovedAway, MadeNative
  <1>6. MovedOnce(more)
    <2>1. MovedOnce(calls)
      BY DEF EditsInv
    <2> QED BY <1>2, <2>1 DEF MovedOnce
  <1>7. IsClass(d) /\ more \subseteq Calls.native
    BY DEF EditsInv, MadeNative
  <1> QED BY <1>3, <1>4, <1>5, <1>6, <1>7 DEF EditsInv

LEMMA RestoredInv ==
    ASSUME NEW o, NEW c, NEW d, NEW calls, EditsInv(o, c, calls), NEW call \in calls,
           Restored(c, d, call)
    PROVE  EditsInv(o, d, calls \ {call})
  <1> DEFINE name == call.name
             desc == call.desc
             copy == call.copy
             less == calls \ {call}
  <1>1. ASSUME NEW x, NEW y, ~(y = desc /\ x \in {name, copy})
        PROVE  /\ HasMethod(c, x, y) => HasMethod(d, x, y)
               /\ HasNative(c, x, y) => HasNative(d, x, y)
               /\ \A core : HasBody(c, x, y, core) => HasBody(d, x, y, core)
    BY <1>1 DEF Restored, KeepsMethod
  <1>2. MovedAway(o, c, call) /\ IsClass(c)
    BY DEF EditsInv
  <1>3. ASSUME NEW x, NEW y, HasNative(c, x, y), NEW core, HasBody(c, x, y, core)
        PROVE  FALSE
    <2>1. PICK m \in Range(c.methods) : IsNamed(c, m, x, y) /\ "NATIVE" \in m.flags
      BY <1>3 DEF HasNative
    <2>2. HasCode(c, m)
      BY <1>2, <1>3, <2>1, OneBody
    <2>3. IsMethod(c, m)
      BY <1>2, <2>1, Ranged DEF IsClass, IsClassFile
    <2> QED BY <2>1, <2>2, <2>3 DEF IsMethod
  <1>4. ASSUME NEW a \in less
        PROVE  ~(a.desc = desc /\ a.name \in {name, copy}) /\ ~(a.desc = desc /\ a.copy \in {name, copy})
    <2>1. MovedAway(o, c, a) /\ a # call /\ a \in calls
      BY DEF EditsInv
    <2>2. ~(a.desc = desc /\ (a.name = name \/ a.copy = copy))
      BY <2>1 DEF EditsInv, MovedOnce
    <2>3. ~(a.desc = desc /\ a.name = copy)
      BY <1>2, <1>3, <2>1 DEF MovedAway
    <2>4. ~(a.desc = desc /\ a.copy = name)
      BY <1>2, <1>3, <2>1 DEF MovedAway
    <2> QED BY <2>2, <2>3, <2>4
  <1>5. OriginalsStay(o, d, less)
    <2> SUFFICES ASSUME NEW m \in Range(o.methods)
                 PROVE  /\ HasMethod(d, Utf8Name(o, m), Utf8Desc(o, m))
                        /\ HasCode(o, m) =>
                               BodyKept(d, less, Utf8Name(o, m), Utf8Desc(o, m), Core(CodeOf(o, m)))
      BY DEF OriginalsStay
    <2> DEFINE x == Utf8Name(o, m)
               y == Utf8Desc(o, m)
               core == Core(CodeOf(o, m))
    <2>1. HasMethod(c, x, y) /\ (HasCode(o, m) => BodyKept(c, calls, x, y, core))
      BY DEF EditsInv, OriginalsStay
    <2>2. HasMethod(o, x, y)
      BY DEF HasMethod, IsNamed, Utf8Name, Utf8Desc
    <2> HIDE DEF x, y, core
    <2>3. ~(x = copy /\ y = desc)
      BY <1>2, <2>2 DEF MovedAway
    <2>4. HasMethod(d, x, y)
      <3>1. CASE x = name /\ y = desc
        BY <3>1 DEF Restored
      <3>2. CASE ~(x = name /\ y = desc)
        BY <1>1, <2>1, <2>3, <3>2
      <3> QED BY <3>1, <3>2
    <2>5. ASSUME HasBody(c, x, y, core)
          PROVE  BodyKept(d, less, x, y, core)
      <3>1. ~(x = name /\ y = desc)
        BY <1>2, <1>3, <2>5 DEF MovedAway
      <3>2. HasBody(d, x, y, core)
        BY <1>1, <2>3, <2>5, <3>1
      <3> QED BY <3>2 DEF BodyKept
    <2>6. ASSUME NEW a \in calls, a.name = x, a.desc = y, HasBody(c, a.copy, y, core)
          PROVE  BodyKept(d, less, x, y, core)
      <3>1. CASE a = call
        <4>1. HasBody(d, x, y, core)
          BY <2>6, <3>1 DEF Restored
        <4> QED BY <4>1 DEF BodyKept
      <3>2. CASE a # call
        <4>1. a \in less
          BY <3>2
        <4>2. HasBody(d, a.copy, y, core)
          BY <1>1, <1>4, <2>6, <4>1
        <4> QED BY <2>6, <4>1, <4>2 DEF BodyKept
      <3> QED BY <3>1, <3>2
    <2>7. BodyKept(c, calls, x, y, core) => BodyKept(d, less, x, y, core)
      BY <2>5, <2>6 DEF BodyKept
    <2> QED BY <2>1, <2>4, <2>7 DEF x, y, core
  <1>6. ASSUME NEW a \in less
        PROVE  MovedAway(o, d, a)
    <2>1. MovedAway(o, c, a)
      BY DEF EditsInv
    <2>2. HasNative(d, a.name, a.desc)
      BY <1>1, <1>4, <2>1 DEF MovedAway
    <2>3. \E core : HasBody(d, a.copy, a.desc, core)
      BY <1>1, <1>4, <2>1 DEF MovedAway
    <2> QED BY <2>1, <2>2, <2>3 DEF MovedAway
  <1>7. MovedOnce(less)
    BY DEF EditsInv, MovedOnce
  <1>8. IsClass(d) /\ less \subseteq Calls.native
    BY DEF EditsInv, Restored
  <1> QED BY <1>5, <1>6, <1>7, <1>8 DEF EditsInv

\* What a step does to the class, by the status it reports.
LEMMA EditKeeps ==
    ASSUME NEW o, NEW c, NEW calls, EditsInv(o, c, calls), NEW r, GoodResult(c, r), KeptResult(c, r)
    PROVE  EditsInv(o, r.cf, calls)
  <1>1. IsClass(c)
    BY DEF EditsInv
  <1>2. IsClass(r.cf) /\ Keeps(c, r.cf)
    BY <1>1, FailureKeeps DEF KeptResult
  <1> QED BY <1>2, KeptInv

LEMMA TransformStep ==
    ASSUME TransformInv, [Next]_vars
    PROVE  TransformInv'
  <1>1. PICK o, c, calls : o = original /\ c = cf /\ calls = moved
    OBVIOUS
  <1>2. EditsInv(o, c, calls) /\ IsClass(c) /\ IsClassFile(c)
    BY <1>1 DEF TransformInv, EditsInv, IsClass
  <1>3. CASE MakeNative
    <2>1. PICK call \in Calls.native, fault \in Fault :
              /\ Edit(class_transform_make_native(cf, call.name, call.desc, call.copy, fault))
              /\ moved' = IF status' = "OK" THEN moved \union {call} ELSE moved
      BY <1>3 DEF MakeNative
    <2> DEFINE r == class_transform_make_native(c, call.name, call.desc, call.copy, fault)
    <2>2. GoodResult(c, r)
      BY <1>2, MakeNativeResult
    <2>3. r.status = "OK" => MadeNative(c, r.cf, call)
      BY <1>2, MakeNativeKeeps
    <2>4. cf' = r.cf /\ status' = r.status /\ original' = o
      BY <1>1, <2>1 DEF Edit
    <2> HIDE DEF r
    <2>5. moved' = IF r.status = "OK" THEN calls \union {call} ELSE calls
      BY <1>1, <2>1, <2>4
    <2>6. CASE r.status = "OK"
      <3>1. EditsInv(o, r.cf, calls \union {call})
        BY <1>2, <2>3, <2>6, MadeNativeInv
      <3> QED BY <2>4, <2>5, <2>6, <3>1 DEF TransformInv
    <2>7. CASE r.status # "OK"
      <3>1. EditsInv(o, r.cf, calls)
        BY <1>2, <2>2, <2>7, EditKeeps DEF KeptResult
      <3> QED BY <2>4, <2>5, <2>7, <3>1 DEF TransformInv
    <2> QED BY <2>6, <2>7
  <1>4. CASE Restore
    <2>1. PICK call \in calls \union Bodiless, fault \in Fault :
              /\ Edit(class_transform_restore(cf, call.name, call.desc, call.copy, fault))
              /\ moved' = IF status' = "OK" THEN moved \ {call} ELSE moved
      BY <1>1, <1>4 DEF Restore
    <2> DEFINE r == class_transform_restore(c, call.name, call.desc, call.copy, fault)
    <2>2. GoodResult(c, r)
      BY <1>2, RestoreResult
    <2>3. call \in calls => HasNative(c, call.name, call.desc) /\ call.copy # call.name
      BY <1>2 DEF EditsInv, MovedAway
    <2>4. r.status = "OK" => call \in calls /\ Restored(c, r.cf, call)
      <3>1. call \notin calls => r.status # "OK"
        BY <1>1, <2>1 DEF Bodiless, class_transform_restore, Result
      <3>2. call \in calls /\ r.status = "OK" => Restored(c, r.cf, call)
        BY <1>2, <2>3, RestoreKeeps
      <3> QED BY <3>1, <3>2
    <2>5. cf' = r.cf /\ status' = r.status /\ original' = o
      BY <1>1, <2>1 DEF Edit
    <2> HIDE DEF r
    <2>6. moved' = IF r.status = "OK" THEN calls \ {call} ELSE calls
      BY <1>1, <2>1, <2>5
    <2>7. CASE r.status = "OK"
      <3>1. EditsInv(o, r.cf, calls \ {call})
        BY <1>2, <2>4, <2>7, RestoredInv
      <3> QED BY <2>5, <2>6, <2>7, <3>1 DEF TransformInv
    <2>8. CASE r.status # "OK"
      <3>1. EditsInv(o, r.cf, calls)
        BY <1>2, <2>2, <2>8, EditKeeps DEF KeptResult
      <3> QED BY <2>5, <2>6, <2>8, <3>1 DEF TransformInv
    <2> QED BY <2>7, <2>8
  <1>5. CASE InsertStaticCall
    <2>1. PICK call \in Calls.static, fault \in Fault :
              /\ Edit(class_transform_insert_static_call(cf, call.name, call.desc, call.at, call.owner,
                          call.callee, call.argument, call.forward, fault))
              /\ UNCHANGED moved
      BY <1>5 DEF InsertStaticCall
    <2> DEFINE r == class_transform_insert_static_call(c, call.name, call.desc, call.at, call.owner,
                        call.callee, call.argument, call.forward, fault)
    <2>2. HasTypes(call.desc)
      BY ClassTransformAssumption
    <2>3. GoodResult(c, r) /\ KeptResult(c, r)
      BY <1>2, <2>2, StaticCallResult, StaticCallKeeps
    <2>4. cf' = r.cf /\ moved' = calls /\ original' = o
      BY <1>1, <2>1 DEF Edit
    <2> HIDE DEF r
    <2>5. EditsInv(o, r.cf, calls)
      BY <1>2, <2>3, EditKeeps
    <2> QED BY <2>4, <2>5 DEF TransformInv
  <1>6. CASE InsertGuardedCall
    <2>1. PICK call \in Calls.guarded, fault \in Fault :
              /\ Edit(class_transform_insert_guarded_call(cf, call.name, call.desc, call.owner,
                          call.callee, call.value, call.argument, fault))
              /\ UNCHANGED moved
      BY <1>6 DEF InsertGuardedCall
    <2> DEFINE r == class_transform_insert_guarded_call(c, call.name, call.desc, call.owner,
                        call.callee, call.value, call.argument, fault)
    <2>2. HasTypes(call.desc) /\ Len(call.desc[2]) \in Nat
      BY ClassTransformAssumption DEF HasTypes, IsList
    <2>3. GoodResult(c, r) /\ KeptResult(c, r)
      BY <1>2, <2>2, GuardedCallResult, GuardedCallKeeps
    <2>4. cf' = r.cf /\ moved' = calls /\ original' = o
      BY <1>1, <2>1 DEF Edit
    <2> HIDE DEF r
    <2>5. EditsInv(o, r.cf, calls)
      BY <1>2, <2>3, EditKeeps
    <2> QED BY <2>4, <2>5 DEF TransformInv
  <1>7. CASE InsertCall
    <2>1. PICK call \in Calls.insert, fault \in Fault :
              /\ Edit(class_transform_insert_call(cf, call.name, call.desc, call.at, call.hook, fault))
              /\ UNCHANGED moved
      BY <1>7 DEF InsertCall
    <2> DEFINE r == class_transform_insert_call(c, call.name, call.desc, call.at, call.hook, fault)
    <2>2. GoodResult(c, r) /\ KeptResult(c, r)
      BY <1>2, InsertCallResult, InsertCallKeeps
    <2>3. cf' = r.cf /\ moved' = calls /\ original' = o
      BY <1>1, <2>1 DEF Edit
    <2> HIDE DEF r
    <2>4. EditsInv(o, r.cf, calls)
      BY <1>2, <2>2, EditKeeps
    <2> QED BY <2>3, <2>4 DEF TransformInv
  <1>8. CASE UNCHANGED vars
    BY <1>8 DEF vars, TransformInv
  <1> QED BY <1>3, <1>4, <1>5, <1>6, <1>7, <1>8 DEF Next

LEMMA TransformImplies == TransformInv => BodiesStayWithTheirMethods
  <1> SUFFICES ASSUME TransformInv
               PROVE  BodiesStayWithTheirMethods
    OBVIOUS
  <1>1. PICK o, c, calls : o = original /\ c = cf /\ calls = moved
    OBVIOUS
  <1>2. EditsInv(o, c, calls) /\ IsClass(c) /\ IsList(c.methods)
    BY <1>1 DEF TransformInv, EditsInv, IsClass, IsClassFile
  <1>3. \A m \in Range(o.methods) : HasCode(o, m) =>
            BodyKept(c, calls, constant_pool_utf8(o.pool, m.name), constant_pool_utf8(o.pool, m.desc),
                     Core(CodeOf(o, m)))
    BY <1>2 DEF EditsInv, OriginalsStay, Utf8Name, Utf8Desc
  <1>4. \A m \in Range(c.methods) : HasCode(c, m) <=> m.flags \intersect {"NATIVE", "ABSTRACT"} = {}
    <2>1. \A m \in Range(c.methods) : IsMethod(c, m)
      BY <1>2, Ranged DEF IsClass
    <2> QED BY <2>1 DEF IsMethod
  <1>5. \A i, j \in DOMAIN c.methods :
            i # j => c.methods[i].name # c.methods[j].name \/ c.methods[i].desc # c.methods[j].desc
    <2>1. DOMAIN c.methods = 1..Len(c.methods)
      BY <1>2 DEF IsList
    <2> QED BY <1>2, <2>1 DEF IsClass, IsNamed
  <1> QED BY <1>1, <1>3, <1>4, <1>5 DEF BodiesStayWithTheirMethods, BodyKept

LEMMA AlwaysAClass == Spec => []IsClass(cf)
  <1>1. Init => TransformInv
    BY TransformStarts
  <1>2. TransformInv /\ [Next]_vars => TransformInv'
    BY TransformStep
  <1>3. TransformInv => IsClass(cf)
    BY DEF TransformInv, EditsInv
  <1> QED BY <1>1, <1>2, <1>3, PTL DEF Spec

\* Whichever of its interning, loading, appending and storing steps fails, a
\* rewrite of class_transform.c leaves methods, fields, flags and attributes
\* as they were, and takes out again the hook or the attribute it had added; the
\* calls that write behind nodes[] are left out.
THEOREM FailuresLeaveNoTrace == Spec => FailedEditKeepsTheClass
  <1>1. IsClass(cf) /\ [Next]_vars =>
            [status' \notin {"OK", "OVERRUN"} => WithPool(cf', cf.pool) = cf]_vars
    <2> SUFFICES ASSUME IsClass(cf), Next, status' # "OK"
                 PROVE  WithPool(cf', cf.pool) = cf
      BY DEF vars
    <2>1. GoodResult(cf, [status |-> status', cf |-> cf'])
      BY EditIsGood
    <2> QED BY <2>1 DEF GoodResult
  <1> QED BY <1>1, AlwaysAClass, PTL DEF Spec, FailedEditKeepsTheClass

\* No rewrite moves or changes a constant that was there: every index in a
\* body, an attribute or a table that the library does not read stays valid,
\* as long as no call writes behind nodes[].
THEOREM ConstantsNeverMove == Spec => OldIndicesKeepTheirMeaning
  <1>1. ASSUME NEW p, NEW q, Grows(p, q)
        PROVE  IsPrefix(p, q)
    <2>1. PICK n \in Nat : n = Len(p)
      BY <1>1 DEF Grows, IsList
    <2> DEFINE S == {q[i] : i \in 1..Len(q)}
    <2>2. \A i \in 1..Len(q) : q[i] \in S
      OBVIOUS
    <2> HIDE DEF S
    <2>3. Len(q) \in Nat /\ n <= Len(q) /\ \A i \in 1..n : q[i] = p[i]
      BY <1>1, <2>1 DEF Grows, IsList
    <2>4. \A i \in 1..n : i \in 1..Len(q)
      BY <2>3
    <2>5. \A i \in 1..Len(p) : p[i] \in S
      BY <2>1, <2>2, <2>3, <2>4
    <2>6. p \in Seq(S) /\ q \in Seq(S)
      BY <1>1, <2>2, <2>5, ListIsSeq DEF Grows
    <2>7. /\ SubSeq(p, 1, n) \in Seq(S) /\ Len(SubSeq(p, 1, n)) = n
          /\ \A i \in 1..n : SubSeq(p, 1, n)[i] = p[i]
      BY <2>1, <2>6
    <2>8. /\ SubSeq(q, 1, n) \in Seq(S) /\ Len(SubSeq(q, 1, n)) = n
          /\ \A i \in 1..n : SubSeq(q, 1, n)[i] = q[i]
      BY <2>3, <2>6
    <2>9. SubSeq(p, 1, n) = SubSeq(q, 1, n)
      BY <2>3, <2>7, <2>8, SeqEqual
    <2> QED BY <2>1, <2>3, <2>9 DEF IsPrefix
  <1>2. IsClass(cf) /\ [Next]_vars => [status' # "OVERRUN" => IsPrefix(cf.pool, cf'.pool)]_vars
    <2> SUFFICES ASSUME IsClass(cf), Next
                 PROVE  IsPrefix(cf.pool, cf'.pool)
      BY DEF vars
    <2>1. GoodResult(cf, [status |-> status', cf |-> cf'])
      BY EditIsGood
    <2>2. Grows(cf.pool, cf'.pool)
      BY <2>1 DEF GoodResult
    <2> QED BY <1>1, <2>2
  <1> QED BY <1>2, AlwaysAClass, PTL DEF Spec, OldIndicesKeepTheirMeaning

\* However class_transform.c makes methods native, restores them and inserts
\* calls, and wherever it fails, every body of the class is in its method or in
\* the copy, a method has code exactly if its flags ask for it, and no two
\* methods share a name and a descriptor, until a call writes behind nodes[].
THEOREM BodiesAreNeverLost == Spec => []BodiesStayWithTheirMethods
  <1>1. Init => TransformInv
    BY TransformStarts
  <1>2. TransformInv /\ [Next]_vars => TransformInv'
    BY TransformStep
  <1>3. TransformInv => BodiesStayWithTheirMethods
    BY TransformImplies
  <1> QED BY <1>1, <1>2, <1>3, PTL DEF Spec

=============================================================================
