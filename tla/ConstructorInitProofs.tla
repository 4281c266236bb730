------------------------ MODULE ConstructorInitProofs ------------------------
(***************************************************************************)
(* The work list of constructor_init_offset holds what it should, and the  *)
(* loop ends in a fixed point of the data flow, for every body.            *)
(***************************************************************************)
EXTENDS ConstructorInit, FiniteSetTheorems, SequenceTheorems, TLAPS

-----------------------------------------------------------------------------
(* The ring *)

\* The slot k behind slot h of a ring of n.
Slot(n, h, k) == (h + k) % n

\* The ring q of n slots holds the members of marked, each once, in the p
\* slots from h on.
RingHolds(n, h, p, q, marked) ==
    /\ h \in 0..n - 1 /\ p \in 0..n
    /\ \A k \in 0..p - 1 : q[Slot(n, h, k)] \in marked
    /\ \A k, l \in 0..p - 1 : q[Slot(n, h, k)] = q[Slot(n, h, l)] => k = l
    /\ \A m \in marked : \E k \in 0..p - 1 : q[Slot(n, h, k)] = m

\* A sum of two slot numbers wraps around at most once.
LEMMA Wrap ==
    ASSUME NEW n \in Nat, NEW h \in 0..n - 1, NEW k \in 0..n
    PROVE  /\ Slot(n, h, k) \in 0..n - 1
           /\ Slot(n, h, k) = IF h + k < n THEN h + k ELSE h + k - n
  <1>1. CASE h + k < n
    BY <1>1 DEF Slot
  <1>2. CASE h + k >= n
    <2>1. PICK x \in 0..n - 1 : h + k = x + n
      BY <1>2
    <2>2. (x + n) % n = x
      OBVIOUS
    <2> QED BY <1>2, <2>1, <2>2 DEF Slot
  <1> QED BY <1>1, <1>2

\* The slots of a ring differ.
LEMMA SlotsDiffer ==
    ASSUME NEW n \in Nat, NEW h \in 0..n - 1, NEW k \in 0..n - 1, NEW l \in 0..n - 1,
           Slot(n, h, k) = Slot(n, h, l)
    PROVE  k = l
  <1>0. k \in 0..n /\ l \in 0..n
    OBVIOUS
  <1>1. /\ Slot(n, h, k) = IF h + k < n THEN h + k ELSE h + k - n
        /\ Slot(n, h, l) = IF h + l < n THEN h + l ELSE h + l - n
    BY <1>0, Wrap
  <1>2. (IF h + k < n THEN h + k ELSE h + k - n) = (IF h + l < n THEN h + l ELSE h + l - n)
    BY <1>1
  <1> QED BY <1>2

\* Seen from the next slot, every slot is one nearer.
LEMMA NextSlot ==
    ASSUME NEW n \in Nat, NEW h \in 0..n - 1, NEW k \in 0..n - 1
    PROVE  /\ Slot(n, h, 1) \in 0..n - 1
           /\ Slot(n, Slot(n, h, 1), k) = Slot(n, h, k + 1)
           /\ Slot(n, Slot(n, h, k), 1) = Slot(n, h, k + 1)
  <1>0. 1 \in 0..n /\ k \in 0..n /\ k + 1 \in 0..n
    OBVIOUS
  <1>1. /\ Slot(n, h, 1) \in 0..n - 1
        /\ Slot(n, h, 1) = IF h + 1 < n THEN h + 1 ELSE h + 1 - n
    BY <1>0, Wrap
  <1>2. Slot(n, h, k + 1) = IF h + (k + 1) < n THEN h + (k + 1) ELSE h + (k + 1) - n
    BY <1>0, Wrap
  <1>3. PICK g \in 0..n - 1 : g = Slot(n, h, 1)
    BY <1>1
  <1>4. Slot(n, g, k) = IF g + k < n THEN g + k ELSE g + k - n
    BY <1>0, Wrap
  <1>5. /\ Slot(n, h, k) \in 0..n - 1
        /\ Slot(n, h, k) = IF h + k < n THEN h + k ELSE h + k - n
    BY <1>0, Wrap
  <1>6. PICK f \in 0..n - 1 : f = Slot(n, h, k)
    BY <1>5
  <1>7. Slot(n, f, 1) = IF f + 1 < n THEN f + 1 ELSE f + 1 - n
    BY <1>0, Wrap
  <1>8. Slot(n, g, k) = Slot(n, h, k + 1)
    BY <1>1, <1>2, <1>3, <1>4
  <1>9. Slot(n, f, 1) = Slot(n, h, k + 1)
    BY <1>2, <1>5, <1>6, <1>7
  <1> QED BY <1>1, <1>3, <1>6, <1>8, <1>9

\* A ring with a slot per instruction has room for one that is not marked.
LEMMA RingHasRoom ==
    ASSUME NEW n \in Nat, NEW h, NEW p, NEW q, NEW marked,
           RingHolds(n, h, p, q, marked), marked \subseteq 1..n,
           NEW t \in 1..n, t \notin marked
    PROVE  p < n
  <1> DEFINE f == [k \in 1..p |-> q[Slot(n, h, k - 1)]]
             S == 1..n
  <1>1. p \in 0..n
    BY DEF RingHolds
  <1>2. \A k \in 1..p : f[k] \in marked
    BY <1>1 DEF RingHolds
  <1>3. \A k, l \in 1..p : f[k] = f[l] => k = l
    BY <1>1 DEF RingHolds
  <1>4. IsFiniteSet(S) /\ Cardinality(S) = n
    BY FS_Interval
  <1>5. IsFiniteSet(S \ {t}) /\ Cardinality(S \ {t}) = n - 1
    BY <1>4, FS_RemoveElement
  <1>6. f \in Injection(1..p, S \ {t})
    BY <1>2, <1>3 DEF Injection, IsInjective
  <1>7. Cardinality(1..p) <= Cardinality(S \ {t})
    BY <1>5, <1>6, FS_Injection
  <1>8. Cardinality(1..p) = p
    BY <1>1, FS_Interval
  <1> QED BY <1>1, <1>5, <1>7, <1>8

\* The turn that takes the instruction at the head.
LEMMA RingTakes ==
    ASSUME NEW n \in Nat, NEW h, NEW p, NEW q, NEW marked,
           RingHolds(n, h, p, q, marked), p # 0
    PROVE  /\ q[h] \in marked
           /\ RingHolds(n, Slot(n, h, 1), p - 1, q, marked \ {q[h]})
  <1>1. h \in 0..n - 1 /\ p \in 1..n
    BY DEF RingHolds
  <1>2. Slot(n, h, 0) = h
    BY <1>1, Wrap
  <1>3. q[h] \in marked
    <2>1. 0 \in 0..p - 1
      BY <1>1
    <2> QED BY <1>2, <2>1 DEF RingHolds
  <1>4. \A k \in 0..p - 2 : /\ k + 1 \in 0..p - 1
                            /\ Slot(n, Slot(n, h, 1), k) = Slot(n, h, k + 1)
    BY <1>1, NextSlot
  <1>5. Slot(n, h, 1) \in 0..n - 1 /\ p - 1 \in 0..n
    BY <1>1, NextSlot
  <1>6. \A k \in 0..p - 2 : q[Slot(n, Slot(n, h, 1), k)] \in marked \ {q[h]}
    <2> SUFFICES ASSUME NEW k \in 0..p - 2
                 PROVE  q[Slot(n, h, k + 1)] \in marked \ {q[h]}
      BY <1>4
    <2>1. k + 1 \in 0..p - 1 /\ 0 \in 0..p - 1 /\ k + 1 # 0
      BY <1>1
    <2> QED BY <1>2, <2>1 DEF RingHolds
  <1>7. \A k, l \in 0..p - 2 : q[Slot(n, Slot(n, h, 1), k)] = q[Slot(n, Slot(n, h, 1), l)] => k = l
    <2> SUFFICES ASSUME NEW k \in 0..p - 2, NEW l \in 0..p - 2,
                        q[Slot(n, h, k + 1)] = q[Slot(n, h, l + 1)]
                 PROVE  k = l
      BY <1>4
    <2>1. k + 1 \in 0..p - 1 /\ l + 1 \in 0..p - 1
      BY <1>1
    <2>2. k + 1 = l + 1
      BY <2>1 DEF RingHolds
    <2> QED BY <2>2
  <1>8. \A m \in marked \ {q[h]} : \E k \in 0..p - 2 : q[Slot(n, Slot(n, h, 1), k)] = m
    <2> SUFFICES ASSUME NEW m \in marked \ {q[h]}
                 PROVE  \E k \in 0..p - 2 : q[Slot(n, Slot(n, h, 1), k)] = m
      OBVIOUS
    <2>1. PICK j \in 0..p - 1 : q[Slot(n, h, j)] = m
      BY DEF RingHolds
    <2>2. j # 0
      BY <1>2, <2>1
    <2>3. j - 1 \in 0..p - 2 /\ (j - 1) + 1 = j
      BY <1>1, <2>2
    <2>4. q[Slot(n, Slot(n, h, 1), j - 1)] = m
      BY <1>4, <2>1, <2>3
    <2> QED BY <2>3, <2>4
  <1>9. (p - 1) - 1 = p - 2
    BY <1>1
  <1> QED BY <1>3, <1>5, <1>6, <1>7, <1>8, <1>9 DEF RingHolds

\* The call of propagate that enters an instruction at the tail.
LEMMA RingEnters ==
    ASSUME NEW n \in Nat, NEW h, NEW p, NEW q \in [0..n - 1 -> 0..n], NEW marked,
           RingHolds(n, h, p, q, marked), p < n, NEW t \in 1..n, t \notin marked
    PROVE  RingHolds(n, h, p + 1, [q EXCEPT ![Slot(n, h, p)] = t], marked \union {t})
  <1> DEFINE r == [q EXCEPT ![Slot(n, h, p)] = t]
  <1>1. h \in 0..n - 1 /\ p \in 0..n - 1 /\ p + 1 \in 0..n
    BY DEF RingHolds
  <1>2. r[Slot(n, h, p)] = t
    BY <1>1, Wrap
  <1>3. \A k \in 0..p - 1 : r[Slot(n, h, k)] = q[Slot(n, h, k)]
    <2> SUFFICES ASSUME NEW k \in 0..p - 1
                 PROVE  r[Slot(n, h, k)] = q[Slot(n, h, k)]
      OBVIOUS
    <2>1. k \in 0..n - 1 /\ k \in 0..n /\ k # p
      BY <1>1
    <2>2. Slot(n, h, k) # Slot(n, h, p)
      BY <1>1, <2>1, SlotsDiffer
    <2>3. Slot(n, h, k) \in 0..n - 1
      BY <1>1, <2>1, Wrap
    <2> QED BY <2>2, <2>3
  <1>4. \A k \in 0..p : k = p \/ k \in 0..p - 1
    BY <1>1
  <1> HIDE DEF r
  <1>5. (p + 1) - 1 = p
    BY <1>1
  <1>6. \A k \in 0..p : r[Slot(n, h, k)] \in marked \union {t}
    BY <1>2, <1>3, <1>4 DEF RingHolds
  <1>7. \A k, l \in 0..p : r[Slot(n, h, k)] = r[Slot(n, h, l)] => k = l
    BY <1>2, <1>3, <1>4 DEF RingHolds
  <1>8. \A m \in marked \union {t} : \E k \in 0..p : r[Slot(n, h, k)] = m
    <2> SUFFICES ASSUME NEW m \in marked
                 PROVE  \E k \in 0..p : r[Slot(n, h, k)] = m
      BY <1>1, <1>2
    <2>1. PICK k \in 0..p - 1 : q[Slot(n, h, k)] = m
      BY DEF RingHolds
    <2>2. k \in 0..p
      BY <1>1
    <2> QED BY <1>3, <2>1, <2>2
  <1>9. RingHolds(n, h, p + 1, r, marked \union {t})
    BY <1>1, <1>5, <1>6, <1>7, <1>8 DEF RingHolds
  <1> QED BY <1>9 DEF r

-----------------------------------------------------------------------------
(* Frames *)

\* A frame of the body b: a value for each local variable, and a stack of them.
IsFrame(b, w) ==
    /\ w \in [locals : Seq(Values), stack : Seq(Values)]
    /\ Len(w.locals) = b.max_locals

\* The state of an instruction; it has a frame once it has been reached.
IsState(b, s) ==
    /\ s \in [reached : BOOLEAN, queued : BOOLEAN, locals : Seq(Values), stack : Seq(Values)]
    /\ s.queued => s.reached
    /\ s.reached => Len(s.locals) = b.max_locals

\* What BodiesAssumption says of one instruction.
LEMMA NodeType ==
    ASSUME NEW b \in Bodies, NEW i \in 1..Len(b.code)
    PROVE  /\ b.code \in Seq([op : Effects, a : Nat, b : Nat, flow : Flows, targets : Seq(Nat)])
           /\ Len(b.code) \in Nat /\ b.max_locals \in Nat /\ b.max_stack \in Nat
           /\ b.code[i] \in [op : Effects, a : Nat, b : Nat, flow : Flows, targets : Seq(Nat)]
           /\ b.code[i].targets \in Seq(0..Len(b.code))
           /\ b.code[i].op \in {"aload", "astore"} => b.code[i].b = 1
  <1>1. /\ b.code \in Seq([op : Effects, a : Nat, b : Nat, flow : Flows, targets : Seq(Nat)])
        /\ Len(b.code) \in Nat /\ b.max_locals \in Nat /\ b.max_stack \in Nat
        /\ i \in DOMAIN b.code
    <2>1. /\ b.code \in Seq([op : Effects, a : Nat, b : Nat, flow : Flows, targets : Seq(Nat)])
          /\ b.max_locals \in Nat /\ b.max_stack \in Nat
      BY BodiesAssumption, Zenon
    <2>2. Len(b.code) \in Nat /\ DOMAIN b.code = 1..Len(b.code)
      BY <2>1
    <2> QED BY <2>1, <2>2
  <1> DEFINE Nodes == [op : Effects, a : Nat, b : Nat, flow : Flows, targets : Seq(Nat)]
  <1>2. b.code[i] \in Nodes
    <2> HIDE DEF Nodes
    <2>1. b.code \in Seq(Nodes)
      BY <1>1 DEF Nodes
    <2> QED BY <1>1, <2>1
  <1>3. /\ Range(b.code[i].targets) \subseteq 0..Len(b.code)
        /\ b.code[i].op \in {"aload", "astore"} => b.code[i].b = 1
    <2>1. \A k \in DOMAIN b.code :
            /\ Range(b.code[k].targets) \subseteq 0..Len(b.code)
            /\ b.code[k].op \in {"aload", "astore"} => b.code[k].b = 1
      BY BodiesAssumption, Zenon
    <2> QED BY <1>1, <2>1, Zenon
  <1>4. b.code[i].targets \in Seq(Nat)
    BY <1>2
  <1>5. \A k \in 1..Len(b.code[i].targets) : b.code[i].targets[k] \in 0..Len(b.code)
    BY <1>3, <1>4 DEF Range
  <1>6. b.code[i].targets \in Seq(0..Len(b.code))
    <2> DEFINE s == b.code[i].targets
               S == 0..Len(b.code)
    <2>1. s \in Seq(Nat) /\ \A k \in 1..Len(s) : s[k] \in S
      BY <1>4, <1>5
    <2> HIDE DEF s, S
    <2>2. s \in Seq(S)
      BY <2>1
    <2> QED BY <2>2 DEF s, S
  <1> QED BY <1>1, <1>2, <1>3, <1>6

\* A call of propagate is for an instruction, or for 0.
LEMMA SuccessorsType ==
    ASSUME NEW b \in Bodies, NEW i \in 1..Len(b.code)
    PROVE  Successors(b.code, i) \in Seq(0..Len(b.code))
  <1> DEFINE next == IF i < Len(b.code) THEN <<i + 1>> ELSE <<>>
  <1>1. /\ Len(b.code) \in Nat
        /\ b.code[i].targets \in Seq(0..Len(b.code))
    BY NodeType
  <1>2. next \in Seq(0..Len(b.code))
    <2>1. CASE i < Len(b.code)
      <3>1. i + 1 \in 0..Len(b.code)
        BY <1>1, <2>1
      <3> QED BY <2>1, <3>1
    <2>2. CASE ~(i < Len(b.code))
      BY <2>2
    <2> QED BY <2>1, <2>2
  <1>3. b.code[i].targets \o next \in Seq(0..Len(b.code))
    <2> HIDE DEF next
    <2> QED BY <1>1, <1>2
  <1>4. Successors(b.code, i) \in {b.code[i].targets \o next, b.code[i].targets, next, <<>>}
    BY DEF Successors
  <1>5. <<>> \in Seq(0..Len(b.code))
    OBVIOUS
  <1> HIDE DEF next
  <1> QED BY <1>1, <1>2, <1>3, <1>4, <1>5, Zenon

\* Slots of unknown contents.
LEMMA OthersType ==
    ASSUME NEW n \in Nat
    PROVE  Others(n) \in Seq(Values) /\ Len(Others(n)) = n
  BY DEF Others, Values

LEMMA PopType ==
    ASSUME NEW s \in Seq(Values), NEW n \in Nat, n <= Len(s)
    PROVE  Pop(s, n) \in Seq(Values) /\ Len(Pop(s, n)) = Len(s) - n
  BY DEF Pop

\* execute leaves a frame where it finds one.
LEMMA ExecuteKeepsFrames ==
    ASSUME NEW b \in Bodies, NEW i \in 1..Len(b.code), NEW w,
           IsFrame(b, w), CanExecute(b, b.code[i], w)
    PROVE  IsFrame(b, execute(b.code[i], w))
  <1> DEFINE node == b.code[i]
             s == w.stack
             n == Len(s)
             stored(v) == [k \in DOMAIN w.locals |->
                              IF k \in node.a + 1 .. node.a + node.b THEN v ELSE w.locals[k]]
  <1>1. /\ node.op \in Effects /\ node.a \in Nat /\ node.b \in Nat
        /\ node.op \in {"aload", "astore"} => node.b = 1
        /\ b.max_locals \in Nat /\ b.max_stack \in Nat
    BY NodeType
  <1>2. /\ w = [locals |-> w.locals, stack |-> w.stack]
        /\ w.locals \in Seq(Values) /\ s \in Seq(Values) /\ n \in Nat
        /\ Len(w.locals) = b.max_locals
    BY DEF IsFrame
  <1> SUFFICES ASSUME TRUE
               PROVE  IsFrame(b, execute(node, w))
    OBVIOUS
  <1>3. \A t \in Seq(Values) : IsFrame(b, [w EXCEPT !.stack = t])
    BY <1>2 DEF IsFrame
  <1>4. \A v \in Values, t \in Seq(Values) : IsFrame(b, [locals |-> stored(v), stack |-> t])
    <2> SUFFICES ASSUME NEW v \in Values, NEW t \in Seq(Values)
                 PROVE  IsFrame(b, [locals |-> stored(v), stack |-> t])
      OBVIOUS
    <2>1. stored(v) \in [1..Len(w.locals) -> Values]
      BY <1>2
    <2>2. stored(v) \in Seq(Values) /\ Len(stored(v)) = Len(w.locals)
      BY <1>2, <2>1
    <2> QED BY <1>2, <2>2 DEF IsFrame
  <1>0. CanExecute(b, node, w)
    OBVIOUS
  <1> HIDE DEF node, stored
  <1>5. CASE node.op = "effect"
    <2>1. Pop(s, node.a) \in Seq(Values) /\ Others(node.b) \in Seq(Values)
      BY <1>0, <1>1, <1>2, <1>5, PopType, OthersType DEF CanExecute
    <2>2. Pop(s, node.a) \o Others(node.b) \in Seq(Values)
      BY <2>1
    <2> QED BY <1>3, <1>5, <2>2 DEF execute
  <1>6. CASE node.op = "init"
    <2>1. Pop(s, node.a + 1) \in Seq(Values)
      BY <1>0, <1>1, <1>2, <1>6, PopType DEF CanExecute
    <2> QED BY <1>3, <1>6, <2>1 DEF execute
  <1>7. CASE node.op = "load"
    <2>1. Others(node.b) \in Seq(Values)
      BY <1>1, OthersType
    <2>2. s \o Others(node.b) \in Seq(Values)
      BY <1>2, <2>1
    <2> QED BY <1>3, <1>7, <2>2 DEF execute
  <1>8. CASE node.op = "aload"
    <2>1. node.a + 1 \in 1..Len(w.locals)
      BY <1>0, <1>1, <1>2, <1>8 DEF CanExecute
    <2>2. w.locals[node.a + 1] \in Values
      BY <1>2, <2>1
    <2>3. Append(s, w.locals[node.a + 1]) \in Seq(Values)
      BY <1>2, <2>2
    <2> QED BY <1>3, <1>8, <2>3 DEF execute
  <1>9. CASE node.op = "store"
    <2>1. Pop(s, node.b) \in Seq(Values)
      BY <1>0, <1>1, <1>2, <1>9, PopType DEF CanExecute
    <2>2. TRACE_OTHER \in Values
      BY DEF Values
    <2>3. execute(node, w) = [locals |-> stored(TRACE_OTHER), stack |-> Pop(s, node.b)]
      BY <1>9 DEF execute, stored
    <2> QED BY <1>4, <2>1, <2>2, <2>3
  <1>10. CASE node.op = "astore"
    <2>1. n >= 1
      BY <1>0, <1>1, <1>2, <1>10 DEF CanExecute
    <2>2. Pop(s, 1) \in Seq(Values)
      BY <1>2, <2>1, PopType
    <2>3. s[n] \in Values
      BY <1>2, <2>1
    <2>4. execute(node, w) = [locals |-> stored(s[n]), stack |-> Pop(s, 1)]
      BY <1>10 DEF execute, stored
    <2> QED BY <1>4, <2>2, <2>3, <2>4
  <1>11. CASE node.op = "dup"
    <2>1. node.a + node.b \in Nat /\ node.a + node.b <= n
      BY <1>0, <1>1, <1>2, <1>11 DEF CanExecute
    <2>2. Pop(s, node.a + node.b) \in Seq(Values)
      BY <1>2, <2>1, PopType
    <2>3. SubSeq(s, n - node.a + 1, n) \in Seq(Values)
      BY <1>1, <1>2, <2>1
    <2>4. SubSeq(s, n - node.a - node.b + 1, n) \in Seq(Values)
      BY <1>1, <1>2, <2>1
    <2>5. Pop(s, node.a + node.b) \o SubSeq(s, n - node.a + 1, n)
              \o SubSeq(s, n - node.a - node.b + 1, n) \in Seq(Values)
      BY <2>2, <2>3, <2>4
    <2> QED BY <1>3, <1>11, <2>5 DEF execute
  <1>12. CASE node.op = "swap"
    <2>1. n >= 2
      BY <1>0, <1>2, <1>12 DEF CanExecute
    <2>2. Pop(s, 2) \in Seq(Values)
      BY <1>2, <2>1, PopType
    <2>3. s[n] \in Values /\ s[n - 1] \in Values
      BY <1>2, <2>1
    <2>4. Pop(s, 2) \o <<s[n], s[n - 1]>> \in Seq(Values)
      BY <2>2, <2>3
    <2> QED BY <1>3, <1>12, <2>4 DEF execute
  <1>13. CASE node.op \in {"keep", "none", "unknown"}
    <2>1. execute(node, w) = w
      BY <1>13 DEF execute
    <2> QED BY <2>1
  <1> QED BY <1>1, <1>5, <1>6, <1>7, <1>8, <1>9, <1>10, <1>11, <1>12, <1>13 DEF Effects

-----------------------------------------------------------------------------
(* Joining frames *)

States == [reached : BOOLEAN, queued : BOOLEAN, locals : Seq(Values), stack : Seq(Values)]

\* Bringing the frame w to the state s changes nothing.
Covers(s, w) == s.reached /\ merge_state(s, w) = s

\* The bits of two values are joined slot by slot.
LEMMA JoinedType ==
    ASSUME NEW s \in Seq(Values), NEW t \in Seq(Values), Len(s) = Len(t)
    PROVE  /\ Joined(s, t) \in Seq(Values)
           /\ Len(Joined(s, t)) = Len(s)
           /\ \A k \in 1..Len(s) : Joined(s, t)[k] = s[k] \union t[k]
  <1>1. \A u, v \in Values : u \union v \in Values
    BY DEF Values, TRACE_THIS, TRACE_OTHER
  <1>2. \A k \in 1..Len(s) : s[k] \in Values /\ t[k] \in Values
    OBVIOUS
  <1>3. Joined(s, t) = [k \in 1..Len(s) |-> s[k] \union t[k]]
    BY DEF Joined
  <1>4. \A k \in 1..Len(s) : s[k] \union t[k] \in Values
    BY <1>1, <1>2
  <1>5. Joined(s, t) \in [1..Len(s) -> Values]
    BY <1>3, <1>4
  <1>6. Len(s) \in Nat
    OBVIOUS
  <1>7. Joined(s, t) \in Seq(Values) /\ Len(Joined(s, t)) = Len(s)
    <2> DEFINE f == Joined(s, t)
    <2>1. f \in [1..Len(s) -> Values]
      BY <1>5
    <2> HIDE DEF f
    <2>2. f \in Seq(Values) /\ Len(f) = Len(s)
      BY <1>6, <2>1
    <2> QED BY <2>2 DEF f
  <1>8. \A k \in 1..Len(s) : Joined(s, t)[k] = s[k] \union t[k]
    BY <1>3
  <1> QED BY <1>7, <1>8

\* What has been joined once adds nothing, now or after another join.
LEMMA JoinedAgain ==
    ASSUME NEW s \in Seq(Values), NEW t \in Seq(Values), NEW u \in Seq(Values),
           Len(s) = Len(t), Len(s) = Len(u)
    PROVE  /\ Joined(s, s) = s
           /\ Joined(Joined(s, t), t) = Joined(s, t)
           /\ Joined(s, t) = s => Joined(Joined(s, u), t) = Joined(s, u)
  <1>1. /\ Joined(s, s) \in Seq(Values) /\ Len(Joined(s, s)) = Len(s)
        /\ \A k \in 1..Len(s) : Joined(s, s)[k] = s[k] \union s[k]
    BY JoinedType
  <1>2. Joined(s, s) = s
    <2>1. \A k \in 1..Len(s) : Joined(s, s)[k] = s[k]
      BY <1>1
    <2> QED BY <1>1, <2>1, SeqEqual
  <1> DEFINE st == Joined(s, t)
             su == Joined(s, u)
  <1>3. /\ st \in Seq(Values) /\ Len(st) = Len(s)
        /\ \A k \in 1..Len(s) : st[k] = s[k] \union t[k]
    BY JoinedType
  <1>4. /\ su \in Seq(Values) /\ Len(su) = Len(s)
        /\ \A k \in 1..Len(s) : su[k] = s[k] \union u[k]
    BY JoinedType
  <1> HIDE DEF st, su
  <1>5. Joined(st, t) = st
    <2>1. /\ Joined(st, t) \in Seq(Values) /\ Len(Joined(st, t)) = Len(st)
          /\ \A k \in 1..Len(st) : Joined(st, t)[k] = st[k] \union t[k]
      <3>1. st \in Seq(Values) /\ Len(st) = Len(t)
        BY <1>3
      <3> QED BY ONLY <3>1, t \in Seq(Values), JoinedType
    <2>2. \A k \in 1..Len(s) : Joined(st, t)[k] = st[k]
      BY <1>3, <2>1
    <2> QED BY <1>3, <2>1, <2>2, SeqEqual
  <1>6. ASSUME st = s
        PROVE  Joined(su, t) = su
    <2>1. /\ Joined(su, t) \in Seq(Values) /\ Len(Joined(su, t)) = Len(su)
          /\ \A k \in 1..Len(su) : Joined(su, t)[k] = su[k] \union t[k]
      <3>1. su \in Seq(Values) /\ Len(su) = Len(t)
        BY <1>4
      <3> QED BY ONLY <3>1, t \in Seq(Values), JoinedType
    <2>2. \A k \in 1..Len(s) : s[k] \union t[k] = s[k]
      BY <1>3, <1>6
    <2>3. \A k \in 1..Len(s) : Joined(su, t)[k] = su[k]
      <3> TAKE k \in 1..Len(s)
      <3>1. Joined(su, t)[k] = (s[k] \union u[k]) \union t[k]
        BY <1>4, <2>1
      <3>2. (s[k] \union u[k]) \union t[k] = s[k] \union u[k]
        BY <2>2
      <3> QED BY <1>4, <3>1, <3>2
    <2> DEFINE j == Joined(su, t)
    <2>4. /\ j \in Seq(Values) /\ su \in Seq(Values) /\ Len(j) = Len(su)
          /\ \A k \in 1..Len(j) : j[k] = su[k]
      BY <1>4, <2>1, <2>3
    <2> HIDE DEF j
    <2>5. j = su
      BY ONLY <2>4, SeqEqual
    <2> QED BY <2>5 DEF j
  <1> QED BY <1>2, <1>5, <1>6 DEF st, su

LEMMA JoinedStays ==
    ASSUME NEW s \in Seq(Values), NEW t \in Seq(Values), NEW u \in Seq(Values),
           Len(s) = Len(t), Len(s) = Len(u), Joined(s, t) = s
    PROVE  Joined(Joined(s, u), t) = Joined(s, u)
  BY JoinedAgain

\* merge_state by cases.
LEMMA MergeCases ==
    ASSUME NEW b, NEW s, NEW w, IsState(b, s), IsFrame(b, w)
    PROVE  LET m == merge_state(s, w) IN
           /\ IsState(b, m) /\ m.reached /\ m.queued = s.queued
           /\ ~s.reached => m.locals = w.locals /\ m.stack = w.stack
           /\ s.reached /\ Len(s.stack) # Len(w.stack) => m = s
           /\ s.reached /\ Len(s.stack) = Len(w.stack) =>
                m.locals = Joined(s.locals, w.locals) /\ m.stack = Joined(s.stack, w.stack)
  <1>1. /\ s \in States /\ s.locals \in Seq(Values) /\ s.stack \in Seq(Values)
        /\ s.reached \in BOOLEAN /\ s.queued \in BOOLEAN
        /\ s.reached => Len(s.locals) = b.max_locals
    BY DEF IsState, States
  <1>2. /\ w.locals \in Seq(Values) /\ w.stack \in Seq(Values)
        /\ Len(w.locals) = b.max_locals
    BY DEF IsFrame
  <1>3. CASE ~s.reached
    <2>1. merge_state(s, w) = [s EXCEPT !.reached = TRUE, !.locals = w.locals, !.stack = w.stack]
      BY <1>3 DEF merge_state
    <2> QED BY <1>1, <1>2, <1>3, <2>1 DEF IsState, States
  <1>4. CASE s.reached /\ Len(s.stack) # Len(w.stack)
    <2>1. merge_state(s, w) = s
      BY <1>4 DEF merge_state
    <2> QED BY <1>4, <2>1
  <1>5. CASE s.reached /\ Len(s.stack) = Len(w.stack)
    <2>1. merge_state(s, w) = [s EXCEPT !.locals = Joined(@, w.locals), !.stack = Joined(@, w.stack)]
      BY <1>5 DEF merge_state
    <2>2. /\ Joined(s.locals, w.locals) \in Seq(Values)
          /\ Len(Joined(s.locals, w.locals)) = b.max_locals
          /\ Joined(s.stack, w.stack) \in Seq(Values)
      BY <1>1, <1>2, <1>5, JoinedType
    <2> QED BY <1>1, <1>5, <2>1, <2>2 DEF IsState, States
  <1> QED BY <1>3, <1>4, <1>5

LEMMA MergeJoins ==
    ASSUME NEW b, NEW s, NEW w, IsState(b, s), s.reached, Len(s.stack) = Len(w.stack)
    PROVE  /\ merge_state(s, w).locals = Joined(s.locals, w.locals)
           /\ merge_state(s, w).stack = Joined(s.stack, w.stack)
  BY DEF merge_state, IsState

\* Two states with the same fields are equal.
LEMMA SameState ==
    ASSUME NEW b, NEW s, NEW t, IsState(b, s), IsState(b, t),
           s.reached = t.reached, s.queued = t.queued, s.locals = t.locals, s.stack = t.stack
    PROVE  s = t
  BY DEF IsState, States

\* A frame that has been merged into a state is covered by it.
LEMMA MergeCovers ==
    ASSUME NEW b, NEW s, NEW w, IsState(b, s), IsFrame(b, w)
    PROVE  Covers(merge_state(s, w), w)
  <1> DEFINE m == merge_state(s, w)
             mm == merge_state(m, w)
  <1>1. IsState(b, m) /\ m.reached
    BY MergeCases
  <1>2. /\ ~s.reached => m.locals = w.locals /\ m.stack = w.stack
        /\ s.reached /\ Len(s.stack) # Len(w.stack) => m = s
        /\ s.reached /\ Len(s.stack) = Len(w.stack) =>
                m.locals = Joined(s.locals, w.locals) /\ m.stack = Joined(s.stack, w.stack)
    <2>1. ~s.reached => m.locals = w.locals /\ m.stack = w.stack
      BY MergeCases
    <2>2. s.reached /\ Len(s.stack) # Len(w.stack) => m = s
      BY MergeCases
    <2>3. ASSUME s.reached, Len(s.stack) = Len(w.stack)
          PROVE  m.locals = Joined(s.locals, w.locals) /\ m.stack = Joined(s.stack, w.stack)
      BY <2>3, MergeJoins
    <2> QED BY ONLY <2>1, <2>2, <2>3
  <1>3. /\ s.locals \in Seq(Values) /\ s.stack \in Seq(Values)
        /\ w.locals \in Seq(Values) /\ w.stack \in Seq(Values)
        /\ s.reached \in BOOLEAN
        /\ s.reached => Len(s.locals) = Len(w.locals)
    BY DEF IsState, IsFrame
  <1> HIDE DEF m
  <1>4. /\ IsState(b, mm) /\ mm.reached /\ mm.queued = m.queued
        /\ Len(m.stack) # Len(w.stack) => mm = m
        /\ Len(m.stack) = Len(w.stack) =>
                mm.locals = Joined(m.locals, w.locals) /\ mm.stack = Joined(m.stack, w.stack)
    BY ONLY <1>1, IsFrame(b, w), MergeCases
  <1> HIDE DEF mm
  <1>5. ASSUME Len(m.stack) = Len(w.stack)
        PROVE  mm.locals = m.locals /\ mm.stack = m.stack
    <2>1. CASE ~s.reached
      BY <1>2, <1>3, <1>4, <1>5, <2>1, JoinedAgain
    <2>2. CASE s.reached /\ Len(s.stack) = Len(w.stack)
      BY <1>2, <1>3, <1>4, <1>5, <2>2, JoinedAgain
    <2>3. CASE s.reached /\ Len(s.stack) # Len(w.stack)
      BY <1>2, <1>5, <2>3
    <2> QED BY <1>3, <2>1, <2>2, <2>3
  <1>6. mm = m
    BY <1>1, <1>4, <1>5, SameState DEF IsState
  <1> QED BY <1>1, <1>6 DEF Covers, mm, m

\* What a state covers it covers after any merge.
LEMMA CoversGrows ==
    ASSUME NEW b, NEW s, NEW w, NEW v, IsState(b, s), IsFrame(b, w), IsFrame(b, v),
           Covers(s, v)
    PROVE  Covers(merge_state(s, w), v)
  <1> DEFINE m == merge_state(s, w)
             mm == merge_state(m, v)
  <1>1. s.reached /\ merge_state(s, v) = s
    BY DEF Covers
  <1>2. IsState(b, m) /\ m.reached
    BY MergeCases
  <1>3. /\ Len(s.stack) # Len(w.stack) => m = s
        /\ Len(s.stack) = Len(w.stack) =>
                m.locals = Joined(s.locals, w.locals) /\ m.stack = Joined(s.stack, w.stack)
    BY <1>1, MergeCases
  <1>4. /\ s.locals \in Seq(Values) /\ s.stack \in Seq(Values)
        /\ w.locals \in Seq(Values) /\ w.stack \in Seq(Values)
        /\ v.locals \in Seq(Values) /\ v.stack \in Seq(Values)
        /\ Len(s.locals) = Len(w.locals) /\ Len(s.locals) = Len(v.locals)
    BY <1>1 DEF IsState, IsFrame
  <1>5. Len(s.stack) = Len(v.stack) =>
            s.locals = Joined(s.locals, v.locals) /\ s.stack = Joined(s.stack, v.stack)
    BY <1>1, MergeCases
  <1> HIDE DEF m
  <1>6. /\ IsState(b, mm) /\ mm.reached /\ mm.queued = m.queued
        /\ Len(m.stack) # Len(v.stack) => mm = m
        /\ Len(m.stack) = Len(v.stack) =>
                mm.locals = Joined(m.locals, v.locals) /\ mm.stack = Joined(m.stack, v.stack)
    BY <1>2, MergeCases
  <1>7. CASE Len(s.stack) # Len(w.stack)
    BY <1>1, <1>3, <1>7 DEF Covers, m
  <1>8. CASE Len(s.stack) = Len(w.stack)
    <2> HIDE DEF mm
    <2>1. Len(m.stack) = Len(s.stack)
      BY <1>3, <1>4, <1>8, JoinedType
    <2>2. ASSUME Len(m.stack) = Len(v.stack)
          PROVE  mm.locals = m.locals /\ mm.stack = m.stack
      <3>1. /\ m.locals = Joined(s.locals, w.locals) /\ m.stack = Joined(s.stack, w.stack)
            /\ s.locals = Joined(s.locals, v.locals) /\ s.stack = Joined(s.stack, v.stack)
            /\ mm.locals = Joined(m.locals, v.locals) /\ mm.stack = Joined(m.stack, v.stack)
        BY <1>3, <1>5, <1>6, <1>8, <2>1, <2>2
      <3>2. Joined(Joined(s.locals, w.locals), v.locals) = Joined(s.locals, w.locals)
        <4>1. Joined(s.locals, v.locals) = s.locals
          BY <3>1
        <4> DEFINE x == s.locals
                   y == v.locals
                   z == w.locals
        <4>2. /\ x \in Seq(Values) /\ y \in Seq(Values) /\ z \in Seq(Values)
              /\ Len(x) = Len(y) /\ Len(x) = Len(z) /\ Joined(x, y) = x
          BY <1>4, <4>1
        <4> HIDE DEF x, y, z
        <4>3. Joined(Joined(x, z), y) = Joined(x, z)
          BY ONLY <4>2, JoinedStays
        <4> QED BY <4>3 DEF x, y, z
      <3>3. Joined(Joined(s.stack, w.stack), v.stack) = Joined(s.stack, w.stack)
        <4>1. Joined(s.stack, v.stack) = s.stack /\ Len(s.stack) = Len(v.stack)
          BY <2>1, <2>2, <3>1
        <4> DEFINE x == s.stack
                   y == v.stack
                   z == w.stack
        <4>2. /\ x \in Seq(Values) /\ y \in Seq(Values) /\ z \in Seq(Values)
              /\ Len(x) = Len(y) /\ Len(x) = Len(z) /\ Joined(x, y) = x
          BY <1>4, <1>8, <4>1
        <4> HIDE DEF x, y, z
        <4>3. Joined(Joined(x, z), y) = Joined(x, z)
          BY ONLY <4>2, JoinedStays
        <4> QED BY <4>3 DEF x, y, z
      <3> QED BY <3>1, <3>2, <3>3
    <2>3. mm = m
      BY <1>2, <1>6, <2>2, SameState DEF IsState
    <2> QED BY <1>2, <2>3 DEF Covers, mm, m
  <1> QED BY <1>7, <1>8

\* The mark of a state has nothing to do with its frame.
LEMMA MarkKeepsCovers ==
    ASSUME NEW b, NEW s, NEW q \in BOOLEAN, IsState(b, s), s.reached
    PROVE  LET t == [s EXCEPT !.queued = q] IN
           /\ IsState(b, t) /\ t.reached /\ t.queued = q
           /\ t.locals = s.locals /\ t.stack = s.stack
           /\ \A w : IsFrame(b, w) /\ Covers(s, w) => Covers(t, w)
  <1> DEFINE t == [s EXCEPT !.queued = q]
  <1>1. /\ IsState(b, t) /\ t.reached /\ t.queued = q
        /\ t.locals = s.locals /\ t.stack = s.stack
    BY DEF IsState, States
  <1> HIDE DEF t
  <1>2. ASSUME NEW w, IsFrame(b, w), Covers(s, w)
        PROVE  Covers(t, w)
    <2>1. merge_state(s, w) = s
      BY <1>2 DEF Covers
    <2>2. /\ IsState(b, merge_state(t, w)) /\ merge_state(t, w).reached
          /\ merge_state(t, w).queued = t.queued
          /\ Len(t.stack) # Len(w.stack) => merge_state(t, w) = t
          /\ Len(t.stack) = Len(w.stack) =>
                /\ merge_state(t, w).locals = Joined(t.locals, w.locals)
                /\ merge_state(t, w).stack = Joined(t.stack, w.stack)
      BY <1>1, <1>2, MergeCases
    <2>3. Len(s.stack) = Len(w.stack) =>
                s.locals = Joined(s.locals, w.locals) /\ s.stack = Joined(s.stack, w.stack)
      BY <1>2, <2>1, MergeCases
    <2>4. merge_state(t, w) = t
      BY <1>1, <2>2, <2>3, SameState DEF IsState
    <2> QED BY <1>1, <2>4 DEF Covers
  <1> QED BY <1>1, <1>2 DEF t

-----------------------------------------------------------------------------
(* The inductive invariant *)

N == Len(body.code)

\* The instructions that are marked as queued.
Marked == {i \in 1..N : states[i].queued}

ScanTypes ==
    /\ body \in Bodies
    /\ result \in Results /\ ambiguous \in BOOLEAN /\ lost \in BOOLEAN /\ found \in Nat
    /\ result = "scan" =>
        /\ N # 0
        /\ states \in [1..N -> States] /\ \A i \in 1..N : IsState(body, states[i])
        /\ queue \in [0..N - 1 -> 0..N]
        /\ IsFrame(body, work) /\ rest \in Seq(0..N)

RingInv ==
    result = "scan" =>
        /\ RingHolds(N, head, pending, queue, Marked)
        /\ tail = Slot(N, head, pending)

\* The targets of instruction i that propagate has not been called for yet.
Left(i) == IF i = index THEN Range(rest) ELSE {}

\* Settled, but for the targets that are left.
SettledSoFar(i) ==
    LET node == body.code[i] IN
    IF is_initializing_call(node, Frame(i))
    THEN found = i + 1 \/ ambiguous
    ELSE CanExecute(body, node, Frame(i)) =>
            \A t \in Range(Successors(body.code, i)) \ (Left(i) \union {0}) :
                Covers(states[t], execute(node, Frame(i)))

\* While the targets of an instruction are being served, work is what it makes
\* of its frame, unless one of them was the instruction itself.
WorkIsCurrent ==
    (rest # <<>> /\ ~states[index].queued) =>
        /\ ~is_initializing_call(body.code[index], Frame(index))
        /\ CanExecute(body, body.code[index], Frame(index))
        /\ work = execute(body.code[index], Frame(index))

FlowInv ==
    (result = "scan" /\ ~lost) =>
        /\ \A i \in 1..N : states[i].reached /\ ~states[i].queued => SettledSoFar(i)
        /\ rest # <<>> => index \in 1..N /\ states[index].reached
        /\ WorkIsCurrent

ScanInv == ScanTypes /\ RingInv /\ FlowInv /\ EndsInAFixedPoint

-----------------------------------------------------------------------------
(* What the steps do to the states and the ring *)

\* The scan has an instruction to look at and a slot for each.
LEMMA ScanFacts ==
    ASSUME ScanTypes, result = "scan"
    PROVE  /\ body \in Bodies /\ N \in Nat /\ N # 0
           /\ states \in [1..N -> States] /\ \A i \in 1..N : IsState(body, states[i])
           /\ queue \in [0..N - 1 -> 0..N]
           /\ IsFrame(body, work) /\ rest \in Seq(0..N)
           /\ Marked \subseteq 1..N
           /\ \A i \in 1..N : i \in Marked <=> states[i].queued
  <1>1. body \in Bodies
    BY DEF ScanTypes
  <1>2. N \in Nat
    <2>1. body.code \in Seq([op : Effects, a : Nat, b : Nat, flow : Flows, targets : Seq(Nat)])
      BY <1>1, BodiesAssumption, Zenon
    <2> QED BY <2>1 DEF N
  <1> QED BY <1>1, <1>2 DEF ScanTypes, Marked

\* The frame of an instruction that has been reached.
LEMMA FrameOfReached ==
    ASSUME ScanTypes, result = "scan", NEW i \in 1..N, states[i].reached
    PROVE  IsFrame(body, Frame(i))
  <1>1. IsState(body, states[i])
    BY ScanFacts
  <1> QED BY <1>1 DEF IsState, IsFrame, Frame

\* A turn takes a marked instruction, and all it changes in the states is
\* that mark.
LEMMA TurnTakes ==
    ASSUME ScanTypes, RingInv, Turn
    PROVE  /\ Current \in 1..N /\ states[Current].queued /\ states[Current].reached
           /\ IsFrame(body, Frame(Current))
           /\ N' = N /\ states' \in [1..N -> States]
           /\ \A i \in 1..N : /\ IsState(body, states'[i])
                              /\ states'[i].reached = states[i].reached
                              /\ states'[i].locals = states[i].locals
                              /\ states'[i].stack = states[i].stack
                              /\ i # Current => states'[i] = states[i]
           /\ \A i \in 1..N : \A w :
                 IsFrame(body, w) /\ Covers(states[i], w) => Covers(states'[i], w)
           /\ states'[Current].queued = FALSE
           /\ Marked' = Marked \ {Current}
  <1>1. result = "scan" /\ pending # 0 /\ body' = body /\ N' = N
        /\ states' = [states EXCEPT ![Current].queued = FALSE]
    BY DEF Turn, N
  <1>2. /\ N \in Nat /\ states \in [1..N -> States] /\ \A i \in 1..N : IsState(body, states[i])
        /\ Marked \subseteq 1..N /\ \A i \in 1..N : i \in Marked <=> states[i].queued
    BY <1>1, ScanFacts
  <1>3. RingHolds(N, head, pending, queue, Marked)
    BY <1>1 DEF RingInv
  <1>4. Current \in Marked
    BY <1>1, <1>2, <1>3, RingTakes DEF Current
  <1> DEFINE c == Current
  <1>5. c \in 1..N /\ states[c].queued /\ IsState(body, states[c])
    BY <1>2, <1>4
  <1>6. states[c].reached
    BY <1>5 DEF IsState
  <1>7. IsFrame(body, Frame(c))
    BY <1>1, <1>5, <1>6, FrameOfReached
  <1> DEFINE t == [states[c] EXCEPT !.queued = FALSE]
  <1>8. /\ IsState(body, t) /\ t.reached /\ t.queued = FALSE
        /\ t.locals = states[c].locals /\ t.stack = states[c].stack
        /\ \A w : IsFrame(body, w) /\ Covers(states[c], w) => Covers(t, w)
    BY <1>5, <1>6, MarkKeepsCovers
  <1>9. states' = [states EXCEPT ![c] = t]
    BY <1>1
  <1> HIDE DEF t, c
  <1>10. t \in States
    BY <1>8 DEF IsState, States
  <1>11. states' \in [1..N -> States] /\ states'[c] = t /\ \A i \in 1..N : i # c => states'[i] = states[i]
    BY <1>2, <1>5, <1>9, <1>10
  <1>12. \A i \in 1..N : states'[i].reached = states[i].reached
    BY <1>5, <1>6, <1>8, <1>11 DEF IsState
  <1>13. \A i \in 1..N : /\ IsState(body, states'[i])
                         /\ states'[i].locals = states[i].locals
                         /\ states'[i].stack = states[i].stack
                         /\ i # c => states'[i] = states[i]
    BY <1>2, <1>8, <1>11
  <1>14. \A i \in 1..N : \A w : IsFrame(body, w) /\ Covers(states[i], w) => Covers(states'[i], w)
    BY <1>8, <1>11
  <1>15. states'[c].queued = FALSE
    BY <1>8, <1>11
  <1>16. Marked' = Marked \ {c}
    BY <1>1, <1>5, <1>11, <1>15 DEF Marked
  <1> QED BY <1>1, <1>5, <1>6, <1>7, <1>11, <1>12, <1>13, <1>14, <1>15, <1>16 DEF c

\* propagate brings the frame to its target: either nothing new arrives and
\* nothing changes, or the target is in the ring, from before or from now on.
LEMMA PropagateMerges ==
    ASSUME ScanTypes, RingInv, result = "scan", body' = body, NEW t \in 1..N, propagate(t)
    PROVE  /\ states' \in [1..N -> States]
           /\ \A i \in 1..N : i # t => states'[i] = states[i]
           /\ IsState(body, states'[t])
           /\ states'[t].queued \/ states'[t] = states[t]
           /\ Covers(states'[t], work)
           /\ \A w : IsFrame(body, w) /\ Covers(states[t], w) => Covers(states'[t], w)
           /\ \/ Marked' = Marked /\ UNCHANGED ring
              \/ /\ t \notin Marked /\ Marked' = Marked \union {t}
                 /\ queue' = [queue EXCEPT ![tail] = t]
                 /\ tail' = (tail + 1) % N /\ pending' = pending + 1 /\ head' = head
  <1> DEFINE s == states[t]
             m == merge_state(s, work)
             u == [m EXCEPT !.queued = TRUE]
  <1>1. /\ N \in Nat /\ states \in [1..N -> States] /\ IsState(body, s) /\ IsFrame(body, work)
        /\ Marked \subseteq 1..N /\ \A i \in 1..N : i \in Marked <=> states[i].queued
    BY ScanFacts
  <1>2. IsState(body, m) /\ m.reached /\ m.queued = s.queued
    BY <1>1, MergeCases
  <1>3. Covers(m, work) /\ \A w : IsFrame(body, w) /\ Covers(s, w) => Covers(m, w)
    BY <1>1, MergeCovers, CoversGrows
  <1>4. /\ IsState(body, u) /\ u.queued = TRUE
        /\ \A w : IsFrame(body, w) /\ Covers(m, w) => Covers(u, w)
    BY <1>2, MarkKeepsCovers
  <1>5. m \in States /\ u \in States
    BY <1>2, <1>4 DEF IsState, States
  <1>6. N' = N
    BY DEF N
  <1>7. CASE Changes(t) /\ ~s.queued
    <2>1. /\ states' = [states EXCEPT ![t] = u]
          /\ queue' = [queue EXCEPT ![tail] = t]
          /\ tail' = (tail + 1) % N /\ pending' = pending + 1 /\ head' = head
      BY <1>7 DEF propagate, Enqueue, N
    <2> HIDE DEF u, m
    <2>2. /\ states' \in [1..N -> States] /\ states'[t] = u
          /\ \A i \in 1..N : i # t => states'[i] = states[i]
      BY <1>1, <1>5, <2>1
    <2>3. Marked' = Marked \union {t}
      BY <1>4, <1>6, <2>2 DEF Marked
    <2>4. t \notin Marked
      BY <1>7 DEF Marked
    <2> QED BY <1>1, <1>3, <1>4, <2>1, <2>2, <2>3, <2>4
  <1>8. CASE ~(Changes(t) /\ ~s.queued)
    <2>1. states' = [states EXCEPT ![t] = m] /\ UNCHANGED ring
      BY <1>8 DEF propagate, Merge
    <2>2. m.queued \/ m = s
      BY <1>1, <1>2, <1>8 DEF Changes, IsState
    <2> HIDE DEF m
    <2>3. /\ states' \in [1..N -> States] /\ states'[t] = m
          /\ \A i \in 1..N : i # t => states'[i] = states[i]
      BY <1>1, <1>5, <2>1
    <2>4. Marked' = Marked
      BY <1>2, <1>6, <2>3 DEF Marked
    <2> QED BY <1>2, <1>3, <2>1, <2>2, <2>3, <2>4
  <1> QED BY <1>7, <1>8

-----------------------------------------------------------------------------
(* Types *)

\* A target of a call of propagate.
LEMMA TargetType ==
    ASSUME ScanTypes, result = "scan", rest # <<>>
    PROVE  /\ Head(rest) \in 0..N /\ Tail(rest) \in Seq(0..N)
           /\ Range(rest) = Range(Tail(rest)) \union {Head(rest)}
  <1>1. rest \in Seq(0..N)
    BY ScanFacts
  <1>2. Head(rest) \in 0..N /\ Tail(rest) \in Seq(0..N) /\ Len(rest) \in Nat /\ Len(rest) # 0
    <2> DEFINE S == 0..N
    <2>1. rest \in Seq(S)
      BY <1>1
    <2> HIDE DEF S
    <2>2. Head(rest) \in S /\ Tail(rest) \in Seq(S) /\ Len(rest) \in Nat /\ Len(rest) # 0
      BY <2>1
    <2> QED BY <2>2 DEF S
  <1>3. /\ Len(Tail(rest)) = Len(rest) - 1 /\ Head(rest) = rest[1]
        /\ \A k \in 1..Len(rest) - 1 : Tail(rest)[k] = rest[k + 1]
    BY <1>1
  <1>4. Range(rest) \subseteq Range(Tail(rest)) \union {Head(rest)}
    <2> SUFFICES ASSUME NEW k \in 1..Len(rest), rest[k] # Head(rest)
                 PROVE  rest[k] \in Range(Tail(rest))
      BY <1>1 DEF Range
    <2>1. k - 1 \in 1..Len(rest) - 1 /\ (k - 1) + 1 = k
      BY <1>2, <1>3
    <2>2. Tail(rest)[k - 1] = rest[k]
      BY <1>3, <2>1
    <2>3. k - 1 \in DOMAIN Tail(rest)
      BY <1>2, <1>3, <2>1
    <2> QED BY <2>2, <2>3 DEF Range
  <1>5. Range(Tail(rest)) \union {Head(rest)} \subseteq Range(rest)
    <2>1. Head(rest) \in Range(rest)
      <3>1. 1 \in DOMAIN rest
        BY <1>1, <1>2
      <3> QED BY <1>3, <3>1 DEF Range
    <2> SUFFICES ASSUME NEW k \in 1..Len(rest) - 1
                 PROVE  Tail(rest)[k] \in Range(rest)
      BY <1>2, <1>3, <2>1 DEF Range
    <2>2. k + 1 \in DOMAIN rest
      BY <1>1, <1>2
    <2> QED BY <1>3, <2>2 DEF Range
  <1> QED BY <1>2, <1>4, <1>5

\* The entry frame.
LEMMA InitTypes ==
    ASSUME Init
    PROVE  ScanTypes
  <1>1. /\ body \in Bodies /\ found = 0 /\ ambiguous = FALSE /\ rest = <<>> /\ work = Entered(body)
        /\ result \in {"scan", "MISSING"} /\ lost \in BOOLEAN
    BY DEF Init
  <1>2. /\ body.code \in Seq([op : Effects, a : Nat, b : Nat, flow : Flows, targets : Seq(Nat)])
        /\ body.max_locals \in Nat
    BY <1>1, BodiesAssumption, Zenon
  <1>3. N \in Nat
    BY <1>2 DEF N
  <1>4. ASSUME result = "scan"
        PROVE  /\ N # 0
               /\ states \in [1..N -> States] /\ \A i \in 1..N : IsState(body, states[i])
               /\ queue \in [0..N - 1 -> 0..N]
               /\ IsFrame(body, work) /\ rest \in Seq(0..N)
    <2> DEFINE first == [merge_state(Unreached, Entered(body)) EXCEPT !.queued = TRUE]
    <2>1. /\ N # 0
          /\ states = [i \in 1..N |-> IF i = 1 THEN first ELSE Unreached]
          /\ queue = [i \in 0..N - 1 |-> IF i = 0 THEN 1 ELSE 0]
      BY <1>4 DEF Init, N
    <2>2. IsFrame(body, Entered(body))
      <3> DEFINE locals == [i \in 1..body.max_locals |-> IF i = 1 THEN TRACE_THIS ELSE TRACE_OTHER]
      <3>1. locals \in [1..body.max_locals -> Values]
        BY DEF Values
      <3> HIDE DEF locals
      <3>2. locals \in Seq(Values) /\ Len(locals) = body.max_locals
        <4>1. PICK k \in Nat : k = body.max_locals
          BY <1>2
        <4>2. locals \in [1..k -> Values]
          BY <3>1, <4>1
        <4>3. locals \in Seq(Values) /\ Len(locals) = k
          BY <4>2
        <4> QED BY <4>1, <4>3
      <3>3. Entered(body) = [locals |-> locals, stack |-> <<>>]
        BY DEF Entered, locals
      <3> QED BY <3>2, <3>3 DEF IsFrame
    <2>3. IsState(body, Unreached)
      BY DEF IsState, Unreached
    <2>4. IsState(body, first)
      <3>1. IsState(body, merge_state(Unreached, Entered(body))) /\ merge_state(Unreached, Entered(body)).reached
        BY <2>2, <2>3, MergeCases
      <3> QED BY <3>1, MarkKeepsCovers
    <2> HIDE DEF first
    <2>5. first \in States /\ Unreached \in States
      BY <2>3, <2>4 DEF IsState, States
    <2>6. queue \in [0..N - 1 -> 0..N]
      BY <1>3, <2>1
    <2> QED BY <1>1, <2>1, <2>2, <2>3, <2>4, <2>5, <2>6
  <1> QED BY <1>1, <1>4 DEF ScanTypes, Results

LEMMA NextTypes ==
    ASSUME ScanTypes, RingInv, [Next]_vars
    PROVE  ScanTypes'
  <1>1. ASSUME Turn, found' \in Nat, ambiguous' \in BOOLEAN, IsFrame(body, work'), rest' \in Seq(0..N)
        PROVE  ScanTypes'
    <2>1. /\ result = "scan" /\ UNCHANGED <<body, queue, result, lost>> /\ N' = N
          /\ states' \in [1..N -> States] /\ \A i \in 1..N : IsState(body, states'[i])
      <3>1. result = "scan" /\ UNCHANGED <<body, queue, result, lost>>
        BY <1>1 DEF Turn
      <3>2. /\ N' = N /\ states' \in [1..N -> States]
            /\ \A i \in 1..N : IsState(body, states'[i])
        BY <1>1, TurnTakes
      <3> QED BY <3>1, <3>2
    <2>2. N # 0 /\ queue \in [0..N - 1 -> 0..N]
      BY <2>1, ScanFacts
    <2> QED BY <1>1, <2>1, <2>2 DEF ScanTypes
  <1>2. ASSUME result = "scan"
        PROVE  /\ found \in Nat /\ ambiguous \in BOOLEAN
               /\ IsFrame(body, work) /\ rest \in Seq(0..N)
    BY <1>2 DEF ScanTypes
  <1>3. CASE VisitInit
    <2>1. Turn /\ result = "scan" /\ UNCHANGED turn
      BY <1>3 DEF VisitInit, Turn
    <2>2. Current \in 1..N /\ N \in Nat
      BY <2>1, TurnTakes, ScanFacts
    <2>3. found' \in Nat /\ ambiguous' \in BOOLEAN
      <3>1. found' = (IF found = 0 THEN Current + 1 ELSE found)
            /\ ambiguous' = (ambiguous \/ found \notin {0, Current + 1})
        BY <1>3 DEF VisitInit, Report
      <3>2. Current + 1 \in Nat
        BY <2>2
      <3>3. found' \in Nat
        BY <1>2, <2>1, <3>1, <3>2
      <3>4. ambiguous' \in BOOLEAN
        BY <3>1
      <3> QED BY <3>3, <3>4
    <2> QED BY <1>1, <1>2, <2>1, <2>3 DEF turn
  <1>4. CASE VisitStop
    <2>1. Turn /\ result = "scan" /\ UNCHANGED <<index, work, rest, found, ambiguous>>
      BY <1>4 DEF VisitStop, Turn, turn
    <2> QED BY <1>1, <1>2, <2>1
  <1>5. CASE VisitNext
    <2>1. /\ Turn /\ result = "scan" /\ UNCHANGED <<found, ambiguous>>
          /\ CanExecute(body, body.code[Current], Frame(Current))
          /\ work' = execute(body.code[Current], Frame(Current))
          /\ rest' = Successors(body.code, Current)
      BY <1>5 DEF VisitNext, Turn
    <2>2. Current \in 1..N /\ IsFrame(body, Frame(Current)) /\ body \in Bodies
      BY <2>1, TurnTakes, ScanFacts
    <2>3. IsFrame(body, work')
      BY <2>1, <2>2, ExecuteKeepsFrames DEF N
    <2>4. rest' \in Seq(0..N)
      BY <2>1, <2>2, SuccessorsType DEF N
    <2> QED BY <1>1, <1>2, <2>1, <2>3, <2>4
  <1>6. CASE Propagate
    <2>1. /\ result = "scan" /\ rest # <<>> /\ rest' = Tail(rest)
          /\ UNCHANGED <<body, index, work, found, ambiguous, result>> /\ N' = N
      BY <1>6 DEF Propagate, N
    <2>2. /\ Head(rest) \in 0..N /\ rest' \in Seq(0..N) /\ N # 0 /\ N \in Nat
          /\ states \in [1..N -> States] /\ \A i \in 1..N : IsState(body, states[i])
          /\ queue \in [0..N - 1 -> 0..N]
      BY <2>1, TargetType, ScanFacts
    <2>3. ASSUME UNCHANGED <<states, ring>>, lost' \in BOOLEAN
          PROVE  ScanTypes'
      BY <2>1, <2>2, <2>3 DEF ScanTypes, ring
    <2>4. ASSUME Head(rest) # 0, propagate(Head(rest)), UNCHANGED lost
          PROVE  ScanTypes'
      <3> DEFINE t == Head(rest)
      <3>1. t \in 1..N
        BY <2>2, <2>4
      <3>2. /\ states' \in [1..N -> States] /\ IsState(body, states'[t])
            /\ \A i \in 1..N : i # t => states'[i] = states[i]
            /\ queue' \in {queue, [queue EXCEPT ![tail] = t]}
        BY <2>1, <2>4, <3>1, PropagateMerges DEF ring
      <3> HIDE DEF t
      <3>3. queue' \in [0..N - 1 -> 0..N]
        <4>1. t \in 0..N
          BY <2>2, <3>1
        <4>2. [queue EXCEPT ![tail] = t] \in [0..N - 1 -> 0..N]
          BY <2>2, <4>1
        <4> QED BY <2>2, <3>2, <4>2
      <3>4. \A i \in 1..N : IsState(body, states'[i])
        BY <2>2, <3>2
      <3> QED BY <2>1, <2>2, <2>4, <3>2, <3>3, <3>4 DEF ScanTypes
    <2>5. lost \in BOOLEAN
      BY DEF ScanTypes
    <2> QED BY <1>6, <2>3, <2>4, <2>5 DEF Propagate
  <1>7. CASE Finish
    <2>1. result' \in {"AMBIGUOUS", "MISSING", "FOUND"} /\ UNCHANGED <<body, found, ambiguous, lost>>
      BY <1>7 DEF Finish
    <2> QED BY <2>1 DEF ScanTypes, Results
  <1>8. CASE UNCHANGED vars
    <2>1. UNCHANGED <<body, states, queue, work, rest, found, ambiguous, result, lost>> /\ N' = N
      BY <1>8 DEF vars, ring, turn, N
    <2> QED BY <2>1 DEF ScanTypes
  <1> QED BY <1>3, <1>4, <1>5, <1>6, <1>7, <1>8 DEF Next, Loop, Done

-----------------------------------------------------------------------------
(* The ring holds the marked instructions *)

LEMMA InitRing ==
    ASSUME Init
    PROVE  RingInv
  <1> SUFFICES ASSUME result = "scan"
               PROVE  /\ RingHolds(N, head, pending, queue, Marked)
                      /\ tail = Slot(N, head, pending)
    BY DEF RingInv
  <1>1. ScanTypes
    BY InitTypes
  <1>2. N \in Nat /\ N # 0
    BY <1>1, ScanFacts
  <1>3. /\ head = 0 /\ pending = 1 /\ tail = 1 % N
        /\ states = [i \in 1..N |-> IF i = 1
                        THEN [merge_state(Unreached, Entered(body)) EXCEPT !.queued = TRUE]
                        ELSE Unreached]
        /\ queue = [i \in 0..N - 1 |-> IF i = 0 THEN 1 ELSE 0]
    BY DEF Init, N
  <1>4. states[1].queued /\ \A i \in 1..N : i # 1 => ~states[i].queued
    <2>1. states[1] = [merge_state(Unreached, Entered(body)) EXCEPT !.queued = TRUE]
      BY <1>2, <1>3
    <2>2. states[1].queued
      BY <2>1 DEF merge_state, Unreached
    <2> QED BY <1>3, <2>2 DEF Unreached
  <1>5. Marked = {1}
    BY <1>2, <1>4 DEF Marked
  <1>6. Slot(N, 0, 0) = 0 /\ queue[0] = 1
    BY <1>2, <1>3, Wrap
  <1>7. \A k \in 0..1 - 1 : k = 0
    OBVIOUS
  <1>8. RingHolds(N, 0, 1, queue, {1})
    BY <1>2, <1>6, <1>7 DEF RingHolds
  <1>9. Slot(N, 0, 1) = 1 % N
    BY DEF Slot
  <1> QED BY <1>3, <1>5, <1>8, <1>9

\* A turn moves the head.
LEMMA TurnRing ==
    ASSUME ScanTypes, RingInv, Turn
    PROVE  RingInv'
  <1>1. /\ result = "scan" /\ pending # 0 /\ head' = (head + 1) % N /\ pending' = pending - 1
        /\ UNCHANGED <<queue, tail>>
    BY DEF Turn, N
  <1>2. N \in Nat
    BY <1>1, ScanFacts
  <1>3. RingHolds(N, head, pending, queue, Marked) /\ tail = Slot(N, head, pending)
    BY <1>1 DEF RingInv
  <1>4. N' = N /\ Marked' = Marked \ {queue[head]}
    BY TurnTakes DEF Current
  <1>5. head' = Slot(N, head, 1)
    BY <1>1 DEF Slot
  <1>6. RingHolds(N, head', pending', queue, Marked')
    BY <1>1, <1>2, <1>3, <1>4, <1>5, RingTakes
  <1>7. tail = Slot(N, head', pending')
    <2>1. head \in 0..N - 1 /\ pending \in 1..N
      BY <1>1, <1>3 DEF RingHolds
    <2>2. pending - 1 \in 0..N - 1 /\ (pending - 1) + 1 = pending
      BY <1>2, <2>1
    <2>3. Slot(N, Slot(N, head, 1), pending - 1) = Slot(N, head, (pending - 1) + 1)
      BY <1>2, <2>1, <2>2, NextSlot
    <2> QED BY <1>1, <1>3, <1>5, <2>2, <2>3
  <1> QED BY <1>1, <1>4, <1>6, <1>7 DEF RingInv

\* propagate moves the tail, and finds a free slot there.
LEMMA PropagateRing ==
    ASSUME ScanTypes, RingInv, result = "scan", body' = body, NEW t \in 1..N, propagate(t)
    PROVE  RingInv'
  <1>1. N \in Nat /\ queue \in [0..N - 1 -> 0..N] /\ Marked \subseteq 1..N
    BY ScanFacts
  <1>2. N' = N
    BY DEF N
  <1>3. RingHolds(N, head, pending, queue, Marked) /\ tail = Slot(N, head, pending)
    BY DEF RingInv
  <1>4. CASE Marked' = Marked /\ UNCHANGED ring
    BY <1>2, <1>3, <1>4 DEF RingInv, ring
  <1>5. ASSUME t \notin Marked, Marked' = Marked \union {t},
               queue' = [queue EXCEPT ![tail] = t],
               tail' = (tail + 1) % N, pending' = pending + 1, head' = head
        PROVE  RingInv'
    <2>1. pending < N
      BY <1>1, <1>3, <1>5, RingHasRoom
    <2>2. RingHolds(N, head, pending + 1, [queue EXCEPT ![Slot(N, head, pending)] = t],
                    Marked \union {t})
      BY <1>1, <1>3, <1>5, <2>1, RingEnters
    <2>3. tail' = Slot(N, tail, 1)
      BY <1>5 DEF Slot
    <2>4. Slot(N, Slot(N, head, pending), 1) = Slot(N, head, pending + 1)
      <3>1. head \in 0..N - 1 /\ pending \in 0..N - 1
        BY <1>1, <1>3, <2>1 DEF RingHolds
      <3> QED BY <1>1, <3>1, NextSlot
    <2> QED BY <1>2, <1>3, <1>5, <2>2, <2>3, <2>4 DEF RingInv
  <1>6. \/ Marked' = Marked /\ UNCHANGED ring
        \/ /\ t \notin Marked /\ Marked' = Marked \union {t}
           /\ queue' = [queue EXCEPT ![tail] = t]
           /\ tail' = (tail + 1) % N /\ pending' = pending + 1 /\ head' = head
    BY PropagateMerges
  <1> QED BY <1>4, <1>5, <1>6

LEMMA NextRing ==
    ASSUME ScanTypes, RingInv, [Next]_vars
    PROVE  RingInv'
  <1>1. CASE VisitInit \/ VisitStop \/ VisitNext
    <2>1. Turn
      BY <1>1 DEF VisitInit, VisitStop, VisitNext
    <2> QED BY <2>1, TurnRing
  <1>2. CASE Propagate
    <2>1. result = "scan" /\ rest # <<>> /\ UNCHANGED <<body, result>> /\ N' = N
      BY <1>2 DEF Propagate, N
    <2>2. ASSUME UNCHANGED <<states, ring>>
          PROVE  RingInv'
      <3>1. Marked' = Marked
        BY <2>1, <2>2 DEF Marked
      <3> QED BY <2>1, <2>2, <3>1 DEF RingInv, ring
    <2>3. ASSUME Head(rest) # 0, propagate(Head(rest))
          PROVE  RingInv'
      <3>1. Head(rest) \in 1..N
        BY <2>1, <2>3, TargetType, ScanFacts
      <3> QED BY <2>1, <2>3, <3>1, PropagateRing
    <2> QED BY <1>2, <2>2, <2>3 DEF Propagate
  <1>3. CASE Finish
    BY <1>3 DEF Finish, RingInv
  <1>4. CASE UNCHANGED vars
    <2>1. UNCHANGED <<body, states, queue, head, tail, pending, result>> /\ N' = N /\ Marked' = Marked
      BY <1>4 DEF vars, ring, N, Marked
    <2> QED BY <2>1 DEF RingInv
  <1> QED BY <1>1, <1>2, <1>3, <1>4 DEF Next, Loop, Done

-----------------------------------------------------------------------------
(* The scan ends in a fixed point *)

\* What keeps an instruction settled: its frame stays, its targets forget
\* nothing, and those no longer left have got the frame.
LEMMA StaysSettled ==
    ASSUME ScanTypes, result = "scan", body' = body, NEW i \in 1..N, states[i].reached,
           states'[i].locals = states[i].locals, states'[i].stack = states[i].stack,
           \A t \in 1..N : \A w :
               IsFrame(body, w) /\ Covers(states[t], w) => Covers(states'[t], w),
           found = i + 1 \/ ambiguous => found' = i + 1 \/ ambiguous',
           ~is_initializing_call(body.code[i], Frame(i)) =>
               \A t \in Left(i) \ {0} :
                   t \in Left(i)' \/ Covers(states'[t], execute(body.code[i], Frame(i))),
           SettledSoFar(i)
    PROVE  SettledSoFar(i)'
  <1>1. Frame(i)' = Frame(i)
    BY DEF Frame
  <1>2. body \in Bodies /\ IsFrame(body, Frame(i))
    BY FrameOfReached, ScanFacts
  <1>3. CASE is_initializing_call(body.code[i], Frame(i))
    <2>1. found' = i + 1 \/ ambiguous'
      BY <1>3 DEF SettledSoFar
    <2>2. is_initializing_call(body'.code[i], Frame(i)')
      BY <1>1, <1>3
    <2> QED BY <2>1, <2>2 DEF SettledSoFar
  <1>4. CASE ~is_initializing_call(body.code[i], Frame(i))
    <2>1. ASSUME CanExecute(body, body.code[i], Frame(i)),
                 NEW t \in Range(Successors(body.code, i)), t # 0, t \notin Left(i)'
          PROVE  Covers(states'[t], execute(body.code[i], Frame(i)))
      <3>1. IsFrame(body, execute(body.code[i], Frame(i)))
        BY <1>2, <2>1, ExecuteKeepsFrames DEF N
      <3>2. t \in 1..N
        <4>1. Successors(body.code, i) \in Seq(0..N) /\ N \in Nat
          BY <1>2, SuccessorsType, ScanFacts DEF N
        <4>2. t \in 0..N
          BY <4>1 DEF Range
        <4> QED BY <2>1, <4>1, <4>2
      <3>3. CASE t \in Left(i)
        BY <1>4, <2>1, <3>3
      <3>4. CASE t \notin Left(i)
        <4>1. Covers(states[t], execute(body.code[i], Frame(i)))
          BY <1>4, <2>1, <3>4 DEF SettledSoFar
        <4> QED BY <3>1, <3>2, <4>1
      <3> QED BY <3>3, <3>4
    <2>2. ~is_initializing_call(body'.code[i], Frame(i)')
      BY <1>1, <1>4
    <2>3. CanExecute(body', body'.code[i], Frame(i)') =>
             \A t \in Range(Successors(body'.code, i)) \ (Left(i)' \union {0}) :
                Covers(states'[t], execute(body'.code[i], Frame(i)'))
      BY <1>1, <2>1
    <2> QED BY <2>2, <2>3 DEF SettledSoFar
  <1> QED BY <1>3, <1>4

LEMMA NothingLeft ==
    ASSUME rest = <<>>
    PROVE  \A i : Left(i) = {}
  BY DEF Left, Range

\* A turn leaves every instruction settled that was, and settles the one it
\* takes or leaves all its targets to be served.
LEMMA TurnFlow ==
    ASSUME ScanTypes, RingInv, FlowInv, VisitInit \/ VisitStop \/ VisitNext
    PROVE  FlowInv'
  <1> SUFFICES ASSUME ~lost'
               PROVE  /\ \A i \in 1..N' : states'[i].reached /\ ~states'[i].queued => SettledSoFar(i)'
                      /\ rest' # <<>> => index' \in 1..N' /\ states'[index'].reached
                      /\ WorkIsCurrent'
    BY DEF FlowInv
  <1>1. /\ Turn /\ result = "scan" /\ rest = <<>> /\ ~lost /\ body' = body
    BY DEF VisitInit, VisitStop, VisitNext, Turn
  <1>2. /\ Current \in 1..N /\ states[Current].reached /\ IsFrame(body, Frame(Current))
        /\ N' = N /\ states'[Current].queued = FALSE
        /\ \A i \in 1..N : /\ states'[i].reached = states[i].reached
                           /\ states'[i].locals = states[i].locals
                           /\ states'[i].stack = states[i].stack
                           /\ i # Current => states'[i] = states[i]
        /\ \A i \in 1..N : \A w :
              IsFrame(body, w) /\ Covers(states[i], w) => Covers(states'[i], w)
    BY <1>1, TurnTakes
  <1>3. \A i \in 1..N : states[i].reached /\ ~states[i].queued => SettledSoFar(i)
    BY <1>1 DEF FlowInv
  <1>4. PICK c \in 1..N : c = Current
    BY <1>2
  <1>5. Frame(c)' = Frame(c)
    BY <1>2 DEF Frame
  <1>6. ASSUME \A i \in 1..N : found = i + 1 \/ ambiguous => found' = i + 1 \/ ambiguous',
               SettledSoFar(c)'
        PROVE  \A i \in 1..N' : states'[i].reached /\ ~states'[i].queued => SettledSoFar(i)'
    <2> SUFFICES ASSUME NEW i \in 1..N, states'[i].reached, ~states'[i].queued, i # c
                 PROVE  SettledSoFar(i)'
      BY <1>2, <1>6
    <2>1. states[i].reached /\ ~states[i].queued
      BY <1>2, <1>4
    <2>2. SettledSoFar(i)
      BY <1>3, <2>1
    <2>3. \A t \in Left(i) \ {0} :
             t \in Left(i)' \/ Covers(states'[t], execute(body.code[i], Frame(i)))
      BY <1>1, NothingLeft
    <2> QED BY <1>1, <1>2, <1>6, <2>1, <2>2, <2>3, StaysSettled
  <1>7. CASE VisitInit
    <2>1. /\ is_initializing_call(body.code[c], Frame(c)) /\ rest' = <<>>
          /\ found' = (IF found = 0 THEN c + 1 ELSE found)
          /\ ambiguous' = (ambiguous \/ found \notin {0, c + 1})
      BY <1>1, <1>7, <1>4 DEF VisitInit, Report, turn
    <2>2. \A i \in 1..N : found = i + 1 \/ ambiguous => found' = i + 1 \/ ambiguous'
      <3>1. \A i \in 1..N : i + 1 # 0
        BY <1>1, ScanFacts
      <3>2. \A i \in 1..N : found = i + 1 => found' = i + 1
        BY <2>1, <3>1
      <3>3. ambiguous => ambiguous'
        BY <2>1
      <3> QED BY <3>2, <3>3, Zenon
    <2>3. found' = c + 1 \/ ambiguous'
      BY <2>1
    <2>4. SettledSoFar(c)'
      BY <1>1, <1>5, <2>1, <2>3 DEF SettledSoFar
    <2> QED BY <1>6, <2>1, <2>2, <2>4 DEF WorkIsCurrent
  <1>8. CASE VisitStop
    <2>1. /\ ~is_initializing_call(body.code[c], Frame(c))
          /\ ~CanExecute(body, body.code[c], Frame(c))
          /\ rest' = <<>> /\ UNCHANGED <<found, ambiguous>>
      BY <1>1, <1>8, <1>4 DEF VisitStop, turn
    <2>2. SettledSoFar(c)'
      BY <1>1, <1>5, <2>1 DEF SettledSoFar
    <2> QED BY <1>6, <2>1, <2>2 DEF WorkIsCurrent
  <1>9. CASE VisitNext
    <2>1. /\ ~is_initializing_call(body.code[c], Frame(c))
          /\ CanExecute(body, body.code[c], Frame(c))
          /\ index' = c /\ work' = execute(body.code[c], Frame(c))
          /\ rest' = Successors(body.code, c) /\ UNCHANGED <<found, ambiguous>>
      BY <1>9, <1>4 DEF VisitNext
    <2>2. Left(c)' = Range(Successors(body.code, c))
      BY <2>1 DEF Left
    <2>3. SettledSoFar(c)'
      BY <1>1, <1>5, <2>1, <2>2 DEF SettledSoFar
    <2>4. c \in 1..N' /\ states'[c].reached
      BY <1>2, <1>4
    <2>5. WorkIsCurrent'
      <3>1. Frame(index)' = Frame(c)'
        BY <2>1 DEF Frame
      <3> QED BY <1>1, <1>5, <2>1, <3>1 DEF WorkIsCurrent
    <2> QED BY <1>6, <2>1, <2>3, <2>4, <2>5
  <1> QED BY <1>7, <1>8, <1>9

\* A call of propagate unsettles nothing: an instruction whose frame it changes
\* is in the ring afterwards, and its target has got the frame.
LEMMA PropagateFlow ==
    ASSUME ScanTypes, RingInv, FlowInv, Propagate
    PROVE  FlowInv'
  <1> SUFFICES ASSUME ~lost'
               PROVE  /\ \A i \in 1..N' : states'[i].reached /\ ~states'[i].queued => SettledSoFar(i)'
                      /\ rest' # <<>> => index' \in 1..N' /\ states'[index'].reached
                      /\ WorkIsCurrent'
    BY DEF FlowInv
  <1>1. /\ result = "scan" /\ rest # <<>> /\ rest' = Tail(rest) /\ N' = N
        /\ UNCHANGED <<body, index, work, found, ambiguous>>
        /\ \/ Head(rest) = 0 /\ UNCHANGED <<states, lost>>
           \/ Head(rest) # 0 /\ propagate(Head(rest)) /\ UNCHANGED lost
    BY DEF Propagate, N
  <1>2. /\ \A i \in 1..N : states[i].reached /\ ~states[i].queued => SettledSoFar(i)
        /\ index \in 1..N /\ states[index].reached /\ WorkIsCurrent
    BY <1>1 DEF FlowInv
  <1>3. PICK t \in 0..N : t = Head(rest) /\ Range(rest) = Range(rest') \union {t}
    BY <1>1, TargetType
  <1>4. N \in Nat /\ \A i \in 1..N : IsState(body, states[i])
    BY <1>1, ScanFacts
  <1>5. /\ \A i \in 1..N : states'[i].queued \/ states'[i] = states[i]
        /\ \A i \in 1..N : states[i].reached => states'[i].reached
        /\ \A i \in 1..N : \A w :
              IsFrame(body, w) /\ Covers(states[i], w) => Covers(states'[i], w)
        /\ t # 0 => Covers(states'[t], work)
    <2>1. CASE t = 0
      BY <1>1, <1>3, <2>1
    <2>2. CASE t # 0
      <3>1. t \in 1..N /\ propagate(t)
        BY <1>1, <1>3, <1>4, <2>2
      <3>2. /\ \A i \in 1..N : i # t => states'[i] = states[i]
            /\ IsState(body, states'[t])
            /\ states'[t].queued \/ states'[t] = states[t]
            /\ Covers(states'[t], work)
            /\ \A w : IsFrame(body, w) /\ Covers(states[t], w) => Covers(states'[t], w)
        BY <1>1, <3>1, PropagateMerges
      <3>3. states'[t].reached
        BY <3>2 DEF Covers
      <3> QED BY <3>1, <3>2, <3>3
    <2> QED BY <2>1, <2>2
  <1>6. ASSUME NEW i \in 1..N, states'[i].reached, ~states'[i].queued
        PROVE  SettledSoFar(i)'
    <2>1. states'[i] = states[i] /\ states[i].reached /\ ~states[i].queued /\ SettledSoFar(i)
      BY <1>2, <1>5, <1>6
    <2>2. ASSUME NEW u \in Left(i), u # 0
          PROVE  u \in Left(i)' \/ Covers(states'[u], execute(body.code[i], Frame(i)))
      <3>1. i = index /\ u \in Range(rest)
        BY <2>2 DEF Left
      <3>2. CASE u \in Range(rest')
        BY <1>1, <3>1, <3>2 DEF Left
      <3>3. CASE u = t
        <4>1. work = execute(body.code[index], Frame(index))
          BY <1>1, <1>2, <2>1, <3>1 DEF WorkIsCurrent
        <4> QED BY <1>5, <2>2, <3>1, <3>3, <4>1
      <3> QED BY <1>3, <3>1, <3>2, <3>3
    <2> QED BY <1>1, <1>5, <2>1, <2>2, StaysSettled
  <1>7. WorkIsCurrent'
    <2> SUFFICES ASSUME ~states'[index].queued
                 PROVE  /\ ~is_initializing_call(body.code[index], Frame(index)')
                        /\ CanExecute(body, body.code[index], Frame(index)')
                        /\ work = execute(body.code[index], Frame(index)')
      BY <1>1 DEF WorkIsCurrent
    <2>1. states'[index] = states[index]
      BY <1>2, <1>5
    <2>2. Frame(index)' = Frame(index)
      BY <1>1, <2>1 DEF Frame
    <2> QED BY <1>1, <1>2, <2>1, <2>2 DEF WorkIsCurrent
  <1> QED BY <1>1, <1>2, <1>5, <1>6, <1>7

LEMMA InitFlow ==
    ASSUME Init
    PROVE  FlowInv
  <1> SUFFICES ASSUME result = "scan"
               PROVE  /\ \A i \in 1..N : ~(states[i].reached /\ ~states[i].queued)
                      /\ rest = <<>>
    BY DEF FlowInv, WorkIsCurrent
  <1>1. states = [i \in 1..N |-> IF i = 1
                      THEN [merge_state(Unreached, Entered(body)) EXCEPT !.queued = TRUE]
                      ELSE Unreached]
        /\ rest = <<>>
    BY DEF Init, N
  <1>2. [merge_state(Unreached, Entered(body)) EXCEPT !.queued = TRUE].queued
    BY DEF merge_state, Unreached
  <1> QED BY <1>1, <1>2 DEF Unreached

LEMMA NextFlow ==
    ASSUME ScanTypes, RingInv, FlowInv, [Next]_vars
    PROVE  FlowInv'
  <1>1. CASE VisitInit \/ VisitStop \/ VisitNext
    BY <1>1, TurnFlow
  <1>2. CASE Propagate
    BY <1>2, PropagateFlow
  <1>3. CASE Finish
    BY <1>3 DEF Finish, FlowInv
  <1>4. CASE UNCHANGED vars
    <2>1. UNCHANGED <<body, states, index, work, rest, found, ambiguous, result, lost>> /\ N' = N
      BY <1>4 DEF vars, ring, turn, N
    <2>2. \A i : SettledSoFar(i)' <=> SettledSoFar(i)
      BY <2>1 DEF SettledSoFar, Frame, Left
    <2>3. WorkIsCurrent' <=> WorkIsCurrent
      BY <2>1 DEF WorkIsCurrent, Frame
    <2> QED BY <2>1, <2>2, <2>3 DEF FlowInv
  <1> QED BY <1>1, <1>2, <1>3, <1>4 DEF Next, Loop, Done

\* When the ring is empty nothing is left to be settled.
LEMMA FinishSettles ==
    ASSUME ScanTypes, RingInv, FlowInv, result = "scan", ~lost, rest = <<>>, pending = 0
    PROVE  \A i \in DOMAIN states : states[i].reached => Settled(i)
  <1>1. /\ DOMAIN states = 1..N /\ N \in Nat
        /\ \A i \in 1..N : IsState(body, states[i]) /\ (i \in Marked <=> states[i].queued)
    BY ScanFacts
  <1>2. Marked = {}
    <2>1. RingHolds(N, head, 0, queue, Marked)
      BY DEF RingInv
    <2> QED BY <2>1 DEF RingHolds
  <1> SUFFICES ASSUME NEW i \in 1..N, states[i].reached
               PROVE  Settled(i)
    BY <1>1
  <1>3. SettledSoFar(i)
    BY <1>1, <1>2 DEF FlowInv
  <1>4. Left(i) = {}
    BY NothingLeft
  <1> QED BY <1>3, <1>4 DEF SettledSoFar, Settled, Covers

LEMMA InitEnds ==
    ASSUME Init
    PROVE  EndsInAFixedPoint
  <1> SUFFICES ASSUME result # "scan"
               PROVE  DOMAIN states = {}
    BY DEF EndsInAFixedPoint
  <1>1. states = <<>>
    BY DEF Init
  <1> QED BY <1>1

LEMMA NextEnds ==
    ASSUME ScanTypes, RingInv, FlowInv, EndsInAFixedPoint, [Next]_vars
    PROVE  EndsInAFixedPoint'
  <1>1. CASE VisitInit \/ VisitStop \/ VisitNext \/ Propagate
    <2>1. result' = "scan"
      BY <1>1 DEF VisitInit, VisitStop, VisitNext, Propagate, Turn
    <2> QED BY <2>1 DEF EndsInAFixedPoint
  <1>2. ASSUME UNCHANGED <<body, states, found, ambiguous>>
        PROVE  \A i : Settled(i)' <=> Settled(i)
    BY <1>2 DEF Settled, Frame
  <1>3. CASE Finish
    <2>1. /\ result = "scan" /\ rest = <<>> /\ pending = 0
          /\ UNCHANGED <<body, states, found, ambiguous, lost>>
      BY <1>3 DEF Finish
    <2>2. ~lost => \A i \in DOMAIN states : states[i].reached => Settled(i)
      BY <2>1, FinishSettles
    <2> QED BY <1>2, <2>1, <2>2 DEF EndsInAFixedPoint
  <1>4. CASE UNCHANGED vars
    <2>1. UNCHANGED <<body, states, found, ambiguous, result, lost>>
      BY <1>4 DEF vars
    <2> QED BY <1>2, <2>1 DEF EndsInAFixedPoint
  <1> QED BY <1>1, <1>3, <1>4 DEF Next, Loop, Done

-----------------------------------------------------------------------------
(* The theorems *)

LEMMA ScanInvariant == Spec => []ScanInv
  <1>1. Init => ScanInv
    BY InitTypes, InitRing, InitFlow, InitEnds DEF ScanInv
  <1>2. ScanInv /\ [Next]_vars => ScanInv'
    BY NextTypes, NextRing, NextFlow, NextEnds DEF ScanInv
  <1> QED BY <1>1, <1>2, PTL DEF Spec

\* What RingHolds says, in the words of QueueHoldsTheMarked.
LEMMA RingIsQueue ==
    ASSUME ScanInv
    PROVE  QueueHoldsTheMarked
  <1> SUFFICES ASSUME result = "scan"
               PROVE  QueueHoldsTheMarked
    BY DEF QueueHoldsTheMarked
  <1> DEFINE n == Len(body.code)
             waiting == [i \in 1..pending |-> queue[(head + i - 1) % n]]
  <1>1. /\ n \in Nat /\ N = n /\ Marked \subseteq 1..n
        /\ \A i \in 1..n : IsState(body, states[i])
    BY ScanFacts DEF ScanInv, N
  <1>2. RingHolds(n, head, pending, queue, Marked) /\ tail = Slot(n, head, pending)
    BY <1>1 DEF ScanInv, RingInv
  <1>3. head \in 0..n - 1 /\ pending \in 0..n
    BY <1>2 DEF RingHolds
  <1> HIDE DEF n
  <1>4. \A i \in 1..pending : i - 1 \in 0..pending - 1 /\ waiting[i] = queue[Slot(n, head, i - 1)]
    <2> SUFFICES ASSUME NEW i \in 1..pending
                 PROVE  i - 1 \in 0..pending - 1 /\ head + i - 1 = head + (i - 1)
      BY DEF Slot
    <2> QED BY <1>1, <1>3
  <1>5. DOMAIN waiting = 1..pending
    OBVIOUS
  <1> HIDE DEF waiting
  <1>6. \A i, j \in 1..pending : waiting[i] = waiting[j] => i = j
    <2> SUFFICES ASSUME NEW i \in 1..pending, NEW j \in 1..pending, waiting[i] = waiting[j]
                 PROVE  i = j
      OBVIOUS
    <2>1. i - 1 = j - 1
      <3>1. /\ i - 1 \in 0..pending - 1 /\ j - 1 \in 0..pending - 1
            /\ queue[Slot(n, head, i - 1)] = queue[Slot(n, head, j - 1)]
        BY <1>4
      <3>2. \A k, l \in 0..pending - 1 : queue[Slot(n, head, k)] = queue[Slot(n, head, l)] => k = l
        BY <1>2 DEF RingHolds
      <3> QED BY ONLY <3>1, <3>2, Zenon
    <2> QED BY <1>3, <2>1
  <1>7. Range(waiting) = Marked
    <2>1. Range(waiting) \subseteq Marked
      <3>1. \A k \in 0..pending - 1 : queue[Slot(n, head, k)] \in Marked
        BY <1>2 DEF RingHolds
      <3>2. \A i \in 1..pending : waiting[i] \in Marked
        BY <1>4, <3>1, Zenon
      <3> QED BY <1>5, <3>2 DEF Range
    <2>2. ASSUME NEW m \in Marked
          PROVE  m \in Range(waiting)
      <3>1. PICK k \in 0..pending - 1 : queue[Slot(n, head, k)] = m
        BY <1>2 DEF RingHolds
      <3>2. k + 1 \in 1..pending /\ (k + 1) - 1 = k
        BY <1>3
      <3>3. waiting[k + 1] = m
        BY <1>4, <3>1, <3>2
      <3> QED BY <1>5, <3>2, <3>3 DEF Range
    <2> QED BY <2>1, <2>2
  <1>8. Marked = {i \in 1..n : states[i].queued}
    BY <1>1 DEF Marked
  <1>9. \A i \in 1..n : Range(states[i].locals) \union Range(states[i].stack) \subseteq Values
    <2> SUFFICES ASSUME NEW i \in 1..n
                 PROVE  Range(states[i].locals) \union Range(states[i].stack) \subseteq Values
      OBVIOUS
    <2>1. states[i].locals \in Seq(Values) /\ states[i].stack \in Seq(Values)
      BY <1>1 DEF IsState
    <2> QED BY <2>1 DEF Range
  <1>10. tail = (head + pending) % n
    BY <1>2 DEF Slot
  <1> QED BY <1>3, <1>6, <1>7, <1>8, <1>9, <1>10 DEF QueueHoldsTheMarked, waiting, n

\* Whatever the body of the constructor and however often memory runs out, the
\* ring of constructor_init_offset holds exactly the instructions marked as
\* queued, each once, in the slots from head to tail: it never overflows.
THEOREM RingNeverOverflows == Spec => []QueueHoldsTheMarked
  BY ScanInvariant, RingIsQueue, PTL

\* Whatever the body, when the loop of constructor_init_offset ends without
\* having run out of memory, every instruction it has reached was visited with
\* the frame it has in the end, and its successors have what it makes of it.
THEOREM ScanIsComplete == Spec => []EndsInAFixedPoint
  <1>1. ScanInv => EndsInAFixedPoint
    BY DEF ScanInv
  <1> QED BY <1>1, ScanInvariant, PTL

=============================================================================
