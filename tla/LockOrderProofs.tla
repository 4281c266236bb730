---------------------------- MODULE LockOrderProofs ----------------------------
(* Nobody waits in a circle, and nobody is stopped with a lock that is still   *)
(* needed, for any number of threads and calls.                                *)
EXTENDS LockOrder, TLAPS

-----------------------------------------------------------------------------
(* What a thread still has to do *)

VmKinds == {"plain", "define", "retransform", "redefine", "initialize"}
StepKinds == {"lock", "unlock", "vm", "events", "suspend", "resume", "initialize", "release"}
Steps == StepKinds \X (Locks \union VmKinds \union {""})
InnerLocks == {"cache", "watch", "class"}

\* What a step does to the depth of a lock.
Delta(step, l) ==
    IF step[1] = "lock" /\ step[2] = l THEN 1 ELSE IF step[1] = "unlock" /\ step[2] = l THEN -1 ELSE 0

\* From depth x the steps never unlock what is not locked, and end at 0: there
\* is a depth for each place between the steps.
Balances(s, l, x) ==
    \E d \in [1..(Len(s) + 1) -> Nat] :
        /\ d[1] = x /\ d[Len(s) + 1] = 0
        /\ \A i \in 1..Len(s) : d[i + 1] = d[i] + Delta(s[i], l)

\* The steps of a call under the registry lock, and those outside of it; a
\* quiet step is one that is done while the other threads are stopped.
IsInner(step) ==
    \/ step[1] \in {"lock", "unlock"} /\ step[2] \in {"cache", "watch"}
    \/ step[1] = "vm" /\ step[2] \in VmKinds
    \/ step[1] \in {"suspend", "resume", "events"}
IsOuter(step) ==
    \/ step[1] \in {"lock", "unlock"} /\ step[2] = "watch"
    \/ step[1] = "unlock" /\ step[2] = "class"
    \/ step[1] = "vm" /\ step[2] \in {"plain", "initialize"}
    \/ step[1] = "events"
IsQuiet(step) ==
    \/ step[1] \in {"lock", "unlock"} /\ step[2] = "cache"
    \/ step[1] = "vm" /\ step[2] \in {"redefine", "initialize"}

\* Whoever stops the others resumes them after quiet steps only; and the others
\* are going to be resumed in this way.
Windows(s) ==
    \A i \in 1..Len(s) : s[i][1] = "suspend" =>
        \E j \in (i + 1)..Len(s) : s[j][1] = "resume" /\ \A k \in (i + 1)..(j - 1) : IsQuiet(s[k])
Open(s) == \E j \in 1..Len(s) : s[j][1] = "resume" /\ \A k \in 1..(j - 1) : IsQuiet(s[k])

Has(s, kind) == \E i \in 1..Len(s) : s[i][1] = kind

\* h: how often the thread has taken each lock.
Free(h) == \A l \in InnerLocks : h[l] = 0
Even(s, h) == \A l \in InnerLocks : Balances(s, l, h[l])
NoLocks == [l \in Locks |-> 0]

\* A part of a call, and all of a call: every lock is given back, and marking
\* the library initialised or shut down is the last thing Init or Shutdown does.
Complete(b) == b \in Seq(Steps) /\ Windows(b) /\ Even(b, NoLocks)
Part(b) == Complete(b) /\ \A i \in 1..Len(b) : IsInner(b[i])
Whole(b) ==
    /\ Complete(b)
    /\ \A i \in 1..Len(b) :
           IsInner(b[i]) \/ (i = Len(b) /\ b[i][1] \in {"initialize", "release"})
Body(b) == Whole(b) /\ ~Has(b, "initialize")

\* Outside the registry lock: only a watch that outlives the library switches
\* events, and does not get as far as the cache lock.
Outside(s, h, ever) ==
    /\ s \in Seq(Steps) /\ \A i \in 1..Len(s) : IsOuter(s[i])
    /\ h["cache"] = 0 /\ Balances(s, "watch", h["watch"]) /\ Balances(s, "class", h["class"])
    /\ Has(s, "events") => ever

\* The rest of a call that has the registry lock.
Inside(s) ==
    /\ s \in Seq(Steps) /\ s # <<>> /\ Windows(s)
    /\ s[Len(s)][1] = "unlock" /\ s[Len(s)][2] = "registry"
    /\ \A i \in 1..(Len(s) - 1) :
           IsInner(s[i]) \/ (i = Len(s) - 1 /\ s[i][1] \in {"initialize", "release"})
Checking(s, ever) ==
    \E b, o : s = <<<<"check", <<b, o>>>>>> /\ Body(b) /\ Outside(o, NoLocks, ever)
Leaving(s, h, ever) ==
    /\ s \in Seq(Steps) /\ s # <<>> /\ s[1][1] = "unlock" /\ s[1][2] = "registry"
    /\ Outside(Tail(s), h, ever)

\* was: the library is initialised or has been; ever: it has been shut down.
Owning(s, h, was, ever) ==
    \/ Inside(s) /\ Even(s, h)
    \/ Free(h) /\ Checking(s, was)
    \/ Free(h) /\ Leaving(s, h, ever)

\* A thread with nothing in its hands, about to take its first lock: the registry
\* lock for Init and for the other calls, or a class to initialise.
First(s, l) == s \in Seq(Steps) /\ s # <<>> /\ s[1][1] = "lock" /\ s[1][2] = l
Coming(s, h, was, ever) ==
    \/ First(s, "registry") /\ Inside(Tail(s)) /\ Even(Tail(s), h)
    \/ \E b, o : s = Guarded(b, o) /\ Body(b) /\ Outside(o, NoLocks, was)
    \/ First(s, "class") /\ Outside(Tail(s), [h EXCEPT !["class"] = 1], ever)
    \/ s = on_class_file_load

Shape(s, h, was, ever) ==
    \/ h["registry"] = 1 /\ Owning(s, h, was, ever)
    \/ h["registry"] = 0 /\ Free(h) /\ Coming(s, h, was, ever)
    \/ h["registry"] = 0 /\ Outside(s, h, ever)
    \/ /\ h["registry"] = 0 /\ h["cache"] = 1 /\ h["watch"] = 0 /\ h["class"] = 0
       /\ s = <<<<"unlock", "cache">>>>

-----------------------------------------------------------------------------
(* The invariant *)

Holds(t) == [l \in Locks |-> IF owner[l] = t THEN depth[l] ELSE 0]

\* The library is initialised, or has been.
Was == initialized \/ released

Shapes == \A t \in Threads : Shape(todo[t], Holds(t), Was, released)

\* The thread that has stopped the others has the registry lock.
StoppedByOwner ==
    stopped # {} => /\ owner["registry"] \in Threads \ stopped
                    /\ Open(todo[owner["registry"]])

\* The library is initialised once: the step that marks it is the only one, and
\* nothing that follows an initialisation has happened before.
OneSession ==
    /\ released => ~initialized
    /\ initialized \/ released => inits > 0
    /\ \A t \in Threads :
          /\ Has(todo[t], "release") => inits > 0
          /\ Has(todo[t], "initialize") =>
                /\ inits > 0 /\ ~initialized /\ ~released
                /\ \A u \in Threads :
                      ~Has(todo[u], "release") /\ (Has(todo[u], "initialize") => u = t)

LockInv == TypeOK /\ Shapes /\ StoppedByOwner /\ OneSession

-----------------------------------------------------------------------------
(* Sequences of steps *)

LEMMA StepsTail ==
    ASSUME NEW s \in Seq(Steps), s # <<>>
    PROVE  /\ Len(s) \in Nat /\ Len(s) >= 1 /\ Head(s) = s[1]
           /\ Tail(s) \in Seq(Steps) /\ Len(Tail(s)) = Len(s) - 1
           /\ \A i \in 1..(Len(s) - 1) : Tail(s)[i] = s[i + 1]
  OBVIOUS

LEMMA StepsConcat ==
    ASSUME NEW s \in Seq(Steps), NEW u \in Seq(Steps)
    PROVE  /\ s \o u \in Seq(Steps) /\ Len(s \o u) = Len(s) + Len(u)
           /\ Len(s) \in Nat /\ Len(u) \in Nat
           /\ \A i \in 1..Len(s) : (s \o u)[i] = s[i]
           /\ \A i \in 1..Len(u) : (s \o u)[Len(s) + i] = u[i]
  OBVIOUS

LEMMA StepsNone ==
    ASSUME NEW s \in Seq(Steps), Len(s) = 0
    PROVE  s = <<>>
  OBVIOUS

LEMMA StepsOne ==
    ASSUME NEW a \in Steps
    PROVE  <<a>> \in Seq(Steps) /\ Len(<<a>>) = 1 /\ <<a>>[1] = a
  OBVIOUS

LEMMA ConsTail ==
    ASSUME NEW a \in Steps, NEW u \in Seq(Steps)
    PROVE  /\ <<a>> \o u \in Seq(Steps) /\ <<a>> \o u # <<>> /\ Len(<<a>> \o u) = Len(u) + 1
           /\ Head(<<a>> \o u) = a /\ (<<a>> \o u)[1] = a /\ Tail(<<a>> \o u) = u
<1> DEFINE w == <<a>> \o u
<1>1. <<a>> \in Seq(Steps) /\ Len(<<a>>) = 1 /\ <<a>>[1] = a
  BY StepsOne
<1>2. /\ w \in Seq(Steps) /\ Len(w) = 1 + Len(u) /\ Len(u) \in Nat
      /\ w[1] = a /\ \A i \in 1..Len(u) : w[1 + i] = u[i]
  BY <1>1, StepsConcat
<1> HIDE DEF w
<1>3. w # <<>>
  BY <1>2
<1>4. /\ Head(w) = w[1] /\ Tail(w) \in Seq(Steps) /\ Len(Tail(w)) = Len(u)
      /\ \A i \in 1..Len(u) : Tail(w)[i] = u[i]
  BY <1>2, <1>3, StepsTail
<1>5. Tail(w) = u
  BY <1>4
<1>6. Len(w) = Len(u) + 1
  BY <1>2
<1> QED
  BY <1>2, <1>3, <1>4, <1>5, <1>6 DEF w

LEMMA DeltaType == \A a, l : Delta(a, l) \in Int
  BY DEF Delta

LEMMA DeltaLock ==
    ASSUME NEW k, NEW l
    PROVE  /\ k = l => Delta(<<"lock", k>>, l) = 1 /\ Delta(<<"unlock", k>>, l) = -1
           /\ k # l => Delta(<<"lock", k>>, l) = 0 /\ Delta(<<"unlock", k>>, l) = 0
  BY DEF Delta

LEMMA BalanceTail ==
    ASSUME NEW s \in Seq(Steps), s # <<>>, NEW l, NEW x \in Nat, Balances(s, l, x)
    PROVE  x + Delta(s[1], l) \in Nat /\ Balances(Tail(s), l, x + Delta(s[1], l))
<1>1. PICK d \in [1..(Len(s) + 1) -> Nat] :
          /\ d[1] = x /\ d[Len(s) + 1] = 0
          /\ \A i \in 1..Len(s) : d[i + 1] = d[i] + Delta(s[i], l)
  BY DEF Balances
<1> DEFINE e == [i \in 1..Len(s) |-> d[i + 1]]
<1>2. /\ Len(s) \in Nat /\ Len(s) >= 1 /\ Len(Tail(s)) + 1 = Len(s)
      /\ \A i \in 1..(Len(s) - 1) : Tail(s)[i] = s[i + 1]
  BY StepsTail
<1>3. e \in [1..(Len(Tail(s)) + 1) -> Nat]
  BY <1>2
<1>4. e[1] = x + Delta(s[1], l) /\ e[1] \in Nat /\ e[Len(Tail(s)) + 1] = 0
  BY <1>1, <1>2
<1>5. \A i \in 1..Len(Tail(s)) : e[i + 1] = e[i] + Delta(Tail(s)[i], l)
  <2> SUFFICES ASSUME NEW i \in 1..Len(Tail(s)) PROVE e[i + 1] = e[i] + Delta(Tail(s)[i], l)
    OBVIOUS
  <2>1. i \in 1..(Len(s) - 1) /\ i + 1 \in 1..Len(s) /\ i \in 1..Len(s)
    BY <1>2
  <2>2. d[i + 1 + 1] = d[i + 1] + Delta(s[i + 1], l)
    BY <1>1, <2>1
  <2>3. e[i + 1] = d[i + 1 + 1] /\ e[i] = d[i + 1] /\ Tail(s)[i] = s[i + 1]
    BY <1>2, <2>1
  <2> QED
    BY <2>2, <2>3
<1> QED
  BY <1>3, <1>4, <1>5 DEF Balances

LEMMA BalanceConcat ==
    ASSUME NEW s \in Seq(Steps), NEW u \in Seq(Steps), NEW l, NEW x \in Nat,
           Balances(s, l, 0), Balances(u, l, x)
    PROVE  Balances(s \o u, l, x)
<1>1. PICK d \in [1..(Len(s) + 1) -> Nat] :
          /\ d[1] = 0 /\ d[Len(s) + 1] = 0
          /\ \A i \in 1..Len(s) : d[i + 1] = d[i] + Delta(s[i], l)
  BY DEF Balances
<1>2. PICK e \in [1..(Len(u) + 1) -> Nat] :
          /\ e[1] = x /\ e[Len(u) + 1] = 0
          /\ \A i \in 1..Len(u) : e[i + 1] = e[i] + Delta(u[i], l)
  BY DEF Balances
<1>3. /\ Len(s) \in Nat /\ Len(u) \in Nat /\ Len(s \o u) = Len(s) + Len(u)
      /\ \A i \in 1..Len(s) : (s \o u)[i] = s[i]
      /\ \A i \in 1..Len(u) : (s \o u)[Len(s) + i] = u[i]
  BY StepsConcat
<1> DEFINE f == [i \in 1..(Len(s) + Len(u) + 1) |-> IF i <= Len(s) THEN d[i] + x ELSE e[i - Len(s)]]
<1>4. f \in [1..(Len(s \o u) + 1) -> Nat]
  <2> SUFFICES ASSUME NEW i \in 1..(Len(s) + Len(u) + 1) PROVE f[i] \in Nat
    BY <1>3
  <2>1. CASE i <= Len(s)
    <3>1. i \in 1..(Len(s) + 1)
      BY <1>3, <2>1
    <3> QED
      BY <2>1, <3>1
  <2>2. CASE ~(i <= Len(s))
    <3>1. i - Len(s) \in 1..(Len(u) + 1)
      BY <1>3, <2>2
    <3> QED
      BY <2>2, <3>1
  <2> QED
    BY <2>1, <2>2
<1>5. f[1] = x
  <2>1. CASE Len(s) = 0
    BY <1>1, <1>2, <1>3, <2>1
  <2>2. CASE Len(s) # 0
    BY <1>1, <1>3, <2>2
  <2> QED
    BY <2>1, <2>2
<1>6. f[Len(s \o u) + 1] = 0
  BY <1>2, <1>3
<1>7. ASSUME NEW i \in 1..Len(s \o u) PROVE f[i + 1] = f[i] + Delta((s \o u)[i], l)
  <2>1. CASE i < Len(s)
    <3>1. i \in 1..Len(s) /\ f[i] = d[i] + x /\ f[i + 1] = d[i + 1] + x
      BY <1>3, <2>1
    <3>2. d[i + 1] = d[i] + Delta(s[i], l) /\ (s \o u)[i] = s[i]
      BY <1>1, <1>3, <3>1
    <3>3. d[i] \in Nat /\ d[i + 1] \in Nat /\ Delta(s[i], l) \in Int
      <4>1. i \in 1..(Len(s) + 1) /\ i + 1 \in 1..(Len(s) + 1)
        BY <1>3, <3>1
      <4> QED
        BY <4>1, DeltaType
    <3> HIDE DEF f
    <3> QED
      BY <3>1, <3>2, <3>3
  <2>2. CASE i = Len(s)
    <3>1. i \in 1..Len(s) /\ f[i] = d[i] + x /\ f[i + 1] = e[1]
      BY <1>3, <2>2
    <3>2. d[i + 1] = d[i] + Delta(s[i], l) /\ d[i + 1] = 0 /\ (s \o u)[i] = s[i]
      BY <1>1, <1>3, <2>2, <3>1
    <3>3. d[i] \in Nat /\ Delta(s[i], l) \in Int
      <4>1. i \in 1..(Len(s) + 1)
        BY <1>3, <3>1
      <4> QED
        BY <4>1, DeltaType
    <3>4. e[1] = x
      BY <1>2
    <3> HIDE DEF f
    <3>5. PICK a \in Int : a = d[i]
      BY <3>3
    <3>6. PICK b \in Int : b = Delta(s[i], l)
      BY <3>3
    <3>7. a + b = 0
      BY <3>2, <3>5, <3>6
    <3>8. (a + x) + b = x
      BY <3>7
    <3> QED
      BY <3>1, <3>2, <3>4, <3>5, <3>6, <3>8
  <2>3. CASE i > Len(s)
    <3>1. i - Len(s) \in 1..Len(u) /\ f[i] = e[i - Len(s)] /\ f[i + 1] = e[i + 1 - Len(s)]
      BY <1>3, <2>3
    <3>2. e[i - Len(s) + 1] = e[i - Len(s)] + Delta(u[i - Len(s)], l)
      BY <1>2, <3>1
    <3>3. Len(s) + (i - Len(s)) = i /\ i - Len(s) + 1 = i + 1 - Len(s)
      BY <1>3
    <3>4. (s \o u)[i] = u[i - Len(s)]
      BY <1>3, <3>1, <3>3
    <3> QED
      BY <3>1, <3>2, <3>3, <3>4
  <2> QED
    BY <1>3, <2>1, <2>2, <2>3
<1> QED
  BY <1>4, <1>5, <1>6, <1>7 DEF Balances

LEMMA BalanceNone ==
    ASSUME NEW l, NEW x, Balances(<<>>, l, x)
    PROVE  x = 0
<1>1. Len(<<>>) = 0
  OBVIOUS
<1> QED
  BY <1>1 DEF Balances

LEMMA BalanceEmpty == \A l : Balances(<<>>, l, 0)
<1> SUFFICES ASSUME NEW l PROVE Balances(<<>>, l, 0)
  OBVIOUS
<1> DEFINE d == [i \in 1..1 |-> 0]
<1>1. Len(<<>>) = 0
  OBVIOUS
<1>2. d \in [1..(Len(<<>>) + 1) -> Nat] /\ d[1] = 0 /\ d[Len(<<>>) + 1] = 0
  BY <1>1
<1>3. \A i \in 1..Len(<<>>) : d[i + 1] = d[i] + Delta(<<>>[i], l)
  BY <1>1
<1> HIDE DEF d
<1> QED
  BY <1>2, <1>3 DEF Balances

LEMMA BalanceOne ==
    ASSUME NEW a \in Steps, NEW l, Delta(a, l) = 0
    PROVE  Balances(<<a>>, l, 0)
<1> DEFINE d == [i \in 1..2 |-> 0]
<1>1. Len(<<a>>) = 1 /\ <<a>>[1] = a
  OBVIOUS
<1>2. d \in [1..(Len(<<a>>) + 1) -> Nat] /\ d[1] = 0 /\ d[Len(<<a>>) + 1] = 0
  BY <1>1
<1>3. \A i \in 1..Len(<<a>>) : d[i + 1] = d[i] + Delta(<<a>>[i], l)
  BY <1>1
<1> QED
  BY <1>2, <1>3 DEF Balances

LEMMA HoldingAt ==
    ASSUME NEW k \in Locks, NEW s \in Seq(Steps)
    PROVE  /\ Holding(k, s) \in Seq(Steps) /\ Len(Holding(k, s)) = Len(s) + 2 /\ Len(s) \in Nat
           /\ Holding(k, s)[1] = <<"lock", k>> /\ Holding(k, s)[Len(s) + 2] = <<"unlock", k>>
           /\ \A i \in 1..Len(s) : Holding(k, s)[i + 1] = s[i]
<1> DEFINE a == <<"lock", k>>
           z == <<"unlock", k>>
<1>1. a \in Steps /\ z \in Steps
  BY DEF Steps, StepKinds
<1> HIDE DEF a, z
<1>2. /\ <<a>> \in Seq(Steps) /\ Len(<<a>>) = 1 /\ <<a>>[1] = a
      /\ <<z>> \in Seq(Steps) /\ Len(<<z>>) = 1 /\ <<z>>[1] = z
  BY <1>1, StepsOne
<1> DEFINE m == <<a>> \o s
<1>3. /\ m \in Seq(Steps) /\ Len(m) = 1 + Len(s) /\ Len(s) \in Nat /\ m[1] = a
      /\ \A i \in 1..Len(s) : m[1 + i] = s[i]
  BY <1>2, StepsConcat
<1> HIDE DEF m
<1>4. /\ m \o <<z>> \in Seq(Steps) /\ Len(m \o <<z>>) = Len(m) + 1
      /\ \A i \in 1..Len(m) : (m \o <<z>>)[i] = m[i]
      /\ (m \o <<z>>)[Len(m) + 1] = z
  BY <1>2, <1>3, StepsConcat
<1>5. Holding(k, s) = m \o <<z>>
  BY DEF Holding, m, a, z
<1>6. (m \o <<z>>)[1] = a /\ (m \o <<z>>)[Len(s) + 2] = z /\ Len(m) + 1 = Len(s) + 2
  BY <1>3, <1>4
<1>7. ASSUME NEW i \in 1..Len(s) PROVE (m \o <<z>>)[i + 1] = s[i]
  <2>1. i + 1 \in 1..Len(m) /\ 1 + i = i + 1
    BY <1>3
  <2> QED
    BY <1>3, <1>4, <2>1
<1> QED
  BY <1>3, <1>4, <1>5, <1>6, <1>7 DEF a, z

LEMMA BalanceHolding ==
    ASSUME NEW k \in Locks, NEW s \in Seq(Steps), NEW l, Balances(s, l, 0)
    PROVE  Balances(Holding(k, s), l, 0)
<1>1. PICK d \in [1..(Len(s) + 1) -> Nat] :
          /\ d[1] = 0 /\ d[Len(s) + 1] = 0
          /\ \A i \in 1..Len(s) : d[i + 1] = d[i] + Delta(s[i], l)
  BY DEF Balances
<1> DEFINE n == Len(s)
           w == Holding(k, s)
           x == IF k = l THEN 1 ELSE 0
           e == [i \in 1..(n + 3) |-> IF i = 1 \/ i = n + 3 THEN 0 ELSE d[i - 1] + x]
<1>2. /\ n \in Nat /\ Len(w) = n + 2 /\ w[1] = <<"lock", k>> /\ w[n + 2] = <<"unlock", k>>
      /\ \A i \in 1..n : w[i + 1] = s[i]
  BY HoldingAt
<1>3. x \in {0, 1} /\ Delta(<<"lock", k>>, l) = x /\ Delta(<<"unlock", k>>, l) = 0 - x
  <2>1. CASE k = l
    BY <2>1, DeltaLock
  <2>2. CASE k # l
    BY <2>2, DeltaLock
  <2> QED
    BY <2>1, <2>2
<1> HIDE DEF n, w, x
<1>4. e[1] = 0 /\ e[n + 3] = 0 /\ \A i \in 2..(n + 2) : e[i] = d[i - 1] + x /\ e[i] \in Nat
  <2>0. e[1] = 0 /\ e[n + 3] = 0
    <3>1. 1 \in 1..(n + 3) /\ n + 3 \in 1..(n + 3)
      BY <1>2
    <3> QED
      BY <3>1
  <2> SUFFICES ASSUME NEW i \in 2..(n + 2) PROVE e[i] = d[i - 1] + x /\ e[i] \in Nat
    BY <2>0
  <2>1. i - 1 \in 1..(n + 1) /\ i # 1 /\ i # n + 3 /\ i \in 1..(n + 3)
    BY <1>2
  <2>2. d[i - 1] \in Nat
    BY <2>1 DEF n
  <2> QED
    BY <1>3, <2>1, <2>2
<1>5. e \in [1..(n + 3) -> Nat]
  <2> SUFFICES ASSUME NEW i \in 1..(n + 3) PROVE e[i] \in Nat
    OBVIOUS
  <2>1. i = 1 \/ i = n + 3 \/ i \in 2..(n + 2)
    BY <1>2
  <2> HIDE DEF e
  <2> QED
    BY <1>4, <2>1
<1> HIDE DEF e
<1>6. ASSUME NEW i \in 1..(n + 2) PROVE e[i + 1] = e[i] + Delta(w[i], l)
  <2>1. CASE i = 1
    <3>1. e[2] = d[1] + x /\ d[1] = 0 /\ e[1] = 0
      BY <1>1, <1>2, <1>4
    <3>2. Delta(w[1], l) = x
      BY <1>2, <1>3
    <3> QED
      BY <1>3, <2>1, <3>1, <3>2
  <2>2. CASE i = n + 2
    <3>1. e[n + 2] = d[n + 1] + x /\ i + 1 = n + 3
      BY <1>2, <1>4, <2>2
    <3>2. d[n + 1] = 0 /\ e[n + 3] = 0
      BY <1>1, <1>4 DEF n
    <3>3. Delta(w[n + 2], l) = 0 - x
      BY <1>2, <1>3
    <3> QED
      BY <1>3, <2>2, <3>1, <3>2, <3>3
  <2>3. CASE i # 1 /\ i # n + 2
    <3>1. PICK j \in 1..n : j = i - 1
      BY <1>2, <2>3
    <3>2. i \in 2..(n + 2) /\ i + 1 \in 2..(n + 2) /\ i = j + 1 /\ i + 1 - 1 = j + 1 /\ i - 1 = j
      BY <1>2, <2>3, <3>1
    <3>3. e[i] = d[j] + x /\ e[i + 1] = d[j + 1] + x /\ w[i] = s[j]
      BY <1>2, <1>4, <3>2
    <3>4. d[j + 1] = d[j] + Delta(s[j], l)
      BY <1>1, <3>1 DEF n
    <3>5. d[j] \in Nat
      <4>1. j \in 1..(n + 1)
        BY <1>2
      <4> QED
        BY <4>1 DEF n
    <3>6. PICK a \in Int : a = d[j]
      BY <3>5
    <3>7. PICK b \in Int : b = Delta(s[j], l)
      BY DeltaType
    <3>8. (a + b) + x = (a + x) + b
      BY <1>3
    <3> QED
      BY <3>3, <3>4, <3>6, <3>7, <3>8
  <2> QED
    BY <2>1, <2>2, <2>3
<1>7. Len(w) + 1 = n + 3
  BY <1>2
<1> QED
  BY <1>2, <1>4, <1>5, <1>6, <1>7 DEF Balances, w

-----------------------------------------------------------------------------
(* Windows in which the others are stopped *)

LEMMA WindowsConcat ==
    ASSUME NEW s \in Seq(Steps), NEW u \in Seq(Steps), Windows(s), Windows(u)
    PROVE  Windows(s \o u)
<1> DEFINE v == s \o u
           n == Len(s)
           m == Len(u)
<1>1. /\ n \in Nat /\ m \in Nat /\ Len(v) = n + m
      /\ \A i \in 1..n : v[i] = s[i]
      /\ \A i \in 1..m : v[n + i] = u[i]
  BY StepsConcat
<1> HIDE DEF v
<1> SUFFICES ASSUME NEW i \in 1..Len(v), v[i][1] = "suspend"
             PROVE  \E j \in (i + 1)..Len(v) :
                        v[j][1] = "resume" /\ \A k \in (i + 1)..(j - 1) : IsQuiet(v[k])
  BY DEF Windows, v
<1>2. CASE i <= n
  <2>1. i \in 1..n /\ s[i][1] = "suspend"
    BY <1>1, <1>2
  <2>2. PICK j \in (i + 1)..n : s[j][1] = "resume" /\ \A k \in (i + 1)..(j - 1) : IsQuiet(s[k])
    BY <2>1 DEF Windows
  <2>3. j \in (i + 1)..Len(v) /\ j \in 1..n
    BY <1>1, <2>1
  <2>4. v[j][1] = "resume"
    BY <1>1, <2>2, <2>3
  <2>5. ASSUME NEW k \in (i + 1)..(j - 1) PROVE IsQuiet(v[k])
    <3>1. k \in 1..n
      BY <1>1, <2>1, <2>3
    <3> QED
      BY <1>1, <2>2, <3>1
  <2> QED
    BY <2>3, <2>4, <2>5
<1>3. CASE ~(i <= n)
  <2>0. i - n \in 1..m
    BY <1>1, <1>3
  <2>1. PICK x \in 1..m : x = i - n
    BY <2>0
  <2>2. i = n + x /\ u[x][1] = "suspend"
    BY <1>1, <2>1
  <2>3. PICK y \in (x + 1)..m : u[y][1] = "resume" /\ \A k \in (x + 1)..(y - 1) : IsQuiet(u[k])
    BY <2>1, <2>2 DEF Windows
  <2>4. n + y \in (i + 1)..Len(v) /\ y \in 1..m
    BY <1>1, <2>2
  <2>5. v[n + y][1] = "resume"
    BY <1>1, <2>3, <2>4
  <2>6. ASSUME NEW k \in (i + 1)..((n + y) - 1) PROVE IsQuiet(v[k])
    <3>0. k - n \in (x + 1)..(y - 1)
      BY <1>1, <2>2, <2>4
    <3>1. PICK z \in (x + 1)..(y - 1) : z = k - n
      BY <3>0
    <3>2. z \in 1..m /\ k = n + z
      BY <1>1, <2>4, <3>1
    <3>3. v[n + z] = u[z]
      BY <1>1, <3>2
    <3> QED
      BY <2>3, <3>1, <3>2, <3>3
  <2> QED
    BY <2>4, <2>5, <2>6
<1> QED
  BY <1>2, <1>3

LEMMA WindowsTail ==
    ASSUME NEW s \in Seq(Steps), s # <<>>, Windows(s)
    PROVE  Windows(Tail(s)) /\ (s[1][1] = "suspend" => Open(Tail(s)))
<1> DEFINE u == Tail(s)
           n == Len(s)
<1>1. n \in Nat /\ n >= 1 /\ Len(u) = n - 1 /\ \A i \in 1..(n - 1) : u[i] = s[i + 1]
  BY StepsTail
<1> HIDE DEF u
<1>2. ASSUME NEW i \in 1..n, s[i][1] = "suspend"
      PROVE  \E j \in i..Len(u) : u[j][1] = "resume" /\ \A k \in i..(j - 1) : IsQuiet(u[k])
  <2>1. PICK j \in (i + 1)..n : s[j][1] = "resume" /\ \A k \in (i + 1)..(j - 1) : IsQuiet(s[k])
    BY <1>2 DEF Windows
  <2>2. PICK x \in i..Len(u) : x = j - 1
    BY <1>1
  <2>3. x \in 1..(n - 1) /\ x + 1 = j
    BY <1>1, <2>2
  <2>4. u[x][1] = "resume"
    BY <1>1, <2>1, <2>3
  <2>5. ASSUME NEW k \in i..(x - 1) PROVE IsQuiet(u[k])
    <3>1. k \in 1..(n - 1) /\ k + 1 \in (i + 1)..(j - 1)
      BY <1>1, <2>3
    <3>2. u[k] = s[k + 1]
      BY <1>1, <3>1
    <3> QED
      BY <2>1, <3>1, <3>2
  <2> QED
    BY <2>4, <2>5
<1>3. ASSUME NEW i \in 1..Len(u), u[i][1] = "suspend"
      PROVE  \E j \in (i + 1)..Len(u) : u[j][1] = "resume" /\ \A k \in (i + 1)..(j - 1) : IsQuiet(u[k])
  <2>1. i + 1 \in 1..n /\ s[i + 1][1] = "suspend"
    BY <1>1, <1>3
  <2> QED
    BY <1>2, <2>1
<1>4. s[1][1] = "suspend" => Open(u)
  <2> SUFFICES ASSUME s[1][1] = "suspend" PROVE Open(u)
    OBVIOUS
  <2>1. 1 \in 1..n
    BY <1>1
  <2> QED
    BY <1>2, <2>1 DEF Open
<1> QED
  BY <1>3, <1>4 DEF Windows, u

LEMMA NoWindow ==
    ASSUME NEW s, \A i \in 1..Len(s) : s[i][1] # "suspend"
    PROVE  Windows(s)
  BY DEF Windows

LEMMA OpenTail ==
    ASSUME NEW s \in Seq(Steps), Open(s)
    PROVE  /\ s # <<>> /\ (s[1][1] = "resume" \/ IsQuiet(s[1]))
           /\ s[1][1] # "resume" => Open(Tail(s))
<1> DEFINE u == Tail(s)
           n == Len(s)
<1>1. PICK j \in 1..n : s[j][1] = "resume" /\ \A k \in 1..(j - 1) : IsQuiet(s[k])
  BY DEF Open
<1>2. s # <<>>
  BY <1>1
<1>3. n \in Nat /\ n >= 1 /\ Len(u) = n - 1 /\ \A i \in 1..(n - 1) : u[i] = s[i + 1]
  BY <1>2, StepsTail
<1> HIDE DEF u
<1>4. s[1][1] = "resume" \/ IsQuiet(s[1])
  <2>1. j = 1 \/ 1 \in 1..(j - 1)
    BY <1>3
  <2> QED
    BY <1>1, <2>1
<1>5. ASSUME s[1][1] # "resume" PROVE Open(u)
  <2>1. PICK x \in 1..Len(u) : x = j - 1
    <3>1. j # 1
      BY <1>1, <1>5
    <3> QED
      BY <1>3, <3>1
  <2>2. x \in 1..(n - 1) /\ x + 1 = j
    BY <1>3, <2>1
  <2>3. u[x][1] = "resume"
    BY <1>1, <1>3, <2>2
  <2>4. ASSUME NEW k \in 1..(x - 1) PROVE IsQuiet(u[k])
    <3>1. k \in 1..(n - 1) /\ k + 1 \in 1..(j - 1)
      BY <1>3, <2>2
    <3>2. u[k] = s[k + 1]
      BY <1>3, <3>1
    <3> QED
      BY <1>1, <3>1, <3>2
  <2> QED
    BY <2>3, <2>4 DEF Open
<1> QED
  BY <1>2, <1>4, <1>5 DEF u

LEMMA OpenConcat ==
    ASSUME NEW s \in Seq(Steps), NEW u \in Seq(Steps), \A i \in 1..Len(s) : IsQuiet(s[i]), Open(u)
    PROVE  Open(s \o u)
<1> DEFINE v == s \o u
           n == Len(s)
           m == Len(u)
<1>1. /\ n \in Nat /\ m \in Nat /\ Len(v) = n + m
      /\ \A i \in 1..n : v[i] = s[i]
      /\ \A i \in 1..m : v[n + i] = u[i]
  BY StepsConcat
<1> HIDE DEF v
<1>2. PICK j \in 1..m : u[j][1] = "resume" /\ \A k \in 1..(j - 1) : IsQuiet(u[k])
  BY DEF Open
<1>3. n + j \in 1..Len(v)
  BY <1>1
<1>4. v[n + j][1] = "resume"
  BY <1>1, <1>2
<1>5. ASSUME NEW k \in 1..((n + j) - 1) PROVE IsQuiet(v[k])
  <2>1. CASE k <= n
    BY <1>1, <2>1
  <2>2. CASE ~(k <= n)
    <3>0. k - n \in 1..(j - 1)
      BY <1>1, <2>2
    <3>1. PICK z \in 1..(j - 1) : z = k - n
      BY <3>0
    <3>2. z \in 1..m /\ k = n + z
      BY <1>1, <3>1
    <3> QED
      BY <1>1, <1>2, <3>1, <3>2
  <2> QED
    BY <2>1, <2>2
<1> QED
  BY <1>3, <1>4, <1>5 DEF Open, v

-----------------------------------------------------------------------------
(* The calls are made of parts that give back what they take *)

LEMMA HasConcat ==
    ASSUME NEW s \in Seq(Steps), NEW u \in Seq(Steps), NEW kind, Has(s \o u, kind)
    PROVE  Has(s, kind) \/ Has(u, kind)
<1>1. /\ Len(s) \in Nat /\ Len(u) \in Nat /\ Len(s \o u) = Len(s) + Len(u)
      /\ \A i \in 1..Len(s) : (s \o u)[i] = s[i]
      /\ \A i \in 1..Len(u) : (s \o u)[Len(s) + i] = u[i]
  BY StepsConcat
<1>2. PICK i \in 1..Len(s \o u) : (s \o u)[i][1] = kind
  BY DEF Has
<1>3. CASE i <= Len(s)
  <2>1. i \in 1..Len(s)
    BY <1>1, <1>3
  <2> QED
    BY <1>1, <1>2, <2>1 DEF Has
<1>4. CASE ~(i <= Len(s))
  <2>1. i - Len(s) \in 1..Len(u) /\ Len(s) + (i - Len(s)) = i
    BY <1>1, <1>4
  <2>2. (s \o u)[i] = u[i - Len(s)]
    BY <1>1, <2>1
  <2> QED
    BY <1>2, <2>1, <2>2 DEF Has
<1> QED
  BY <1>3, <1>4

LEMMA HasTail ==
    ASSUME NEW s \in Seq(Steps), s # <<>>, NEW kind, Has(Tail(s), kind)
    PROVE  Has(s, kind)
<1>1. /\ Len(s) \in Nat /\ Len(s) >= 1 /\ Len(Tail(s)) = Len(s) - 1
      /\ \A i \in 1..(Len(s) - 1) : Tail(s)[i] = s[i + 1]
  BY StepsTail
<1>2. PICK i \in 1..Len(Tail(s)) : Tail(s)[i][1] = kind
  BY DEF Has
<1>3. i + 1 \in 1..Len(s) /\ Tail(s)[i] = s[i + 1]
  BY <1>1
<1> QED
  BY <1>2, <1>3 DEF Has

LEMMA AllConcat ==
    ASSUME NEW s \in Seq(Steps), NEW u \in Seq(Steps), NEW i \in 1..Len(s \o u)
    PROVE  \/ i \in 1..Len(s) /\ (s \o u)[i] = s[i]
           \/ i - Len(s) \in 1..Len(u) /\ (s \o u)[i] = u[i - Len(s)]
<1>1. /\ Len(s) \in Nat /\ Len(u) \in Nat /\ Len(s \o u) = Len(s) + Len(u)
      /\ \A j \in 1..Len(s) : (s \o u)[j] = s[j]
      /\ \A j \in 1..Len(u) : (s \o u)[Len(s) + j] = u[j]
  BY StepsConcat
<1>2. CASE i <= Len(s)
  BY <1>1, <1>2
<1>3. CASE ~(i <= Len(s))
  <2>1. i - Len(s) \in 1..Len(u) /\ Len(s) + (i - Len(s)) = i
    BY <1>1, <1>3
  <2> QED
    BY <1>1, <2>1
<1> QED
  BY <1>2, <1>3

LEMMA NoLocksAre == \A l \in InnerLocks : NoLocks[l] = 0 /\ l \in Locks /\ l # "registry"
  BY DEF NoLocks, InnerLocks, Locks

LEMMA PartEmpty == Part(<<>>)
<1>1. <<>> \in Seq(Steps) /\ Len(<<>>) = 0
  OBVIOUS
<1> QED
  BY <1>1, BalanceEmpty, NoLocksAre DEF Part, Complete, Even, Windows

LEMMA CompleteOne ==
    ASSUME NEW a \in Steps, a[1] \notin {"lock", "unlock", "suspend"}
    PROVE  Complete(<<a>>)
<1>1. <<a>> \in Seq(Steps) /\ Len(<<a>>) = 1 /\ <<a>>[1] = a
  BY StepsOne
<1>2. Windows(<<a>>)
  BY <1>1, NoWindow
<1>3. \A l : Delta(a, l) = 0
  BY DEF Delta
<1> QED
  BY <1>1, <1>2, <1>3, BalanceOne, NoLocksAre DEF Complete, Even

LEMMA PartOne ==
    ASSUME NEW a \in Steps, a[1] \notin {"lock", "unlock", "suspend"}, IsInner(a)
    PROVE  Part(<<a>>)
<1>1. <<a>> \in Seq(Steps) /\ Len(<<a>>) = 1 /\ <<a>>[1] = a
  BY StepsOne
<1> QED
  BY <1>1, CompleteOne DEF Part

LEMMA CompleteConcat ==
    ASSUME NEW b, NEW c, Complete(b), Complete(c)
    PROVE  Complete(b \o c)
<1>1. b \in Seq(Steps) /\ c \in Seq(Steps) /\ Windows(b) /\ Windows(c)
  BY DEF Complete
<1>2. b \o c \in Seq(Steps) /\ Windows(b \o c)
  BY <1>1, StepsConcat, WindowsConcat
<1>3. ASSUME NEW l \in InnerLocks PROVE Balances(b \o c, l, NoLocks[l])
  <2>1. Balances(b, l, 0) /\ Balances(c, l, 0) /\ NoLocks[l] = 0
    BY <1>3, NoLocksAre DEF Complete, Even
  <2> QED
    BY <1>1, <2>1, BalanceConcat
<1> QED
  BY <1>2, <1>3 DEF Complete, Even

LEMMA PartConcat ==
    ASSUME NEW b, NEW c, Part(b), Part(c)
    PROVE  Part(b \o c)
<1>1. b \in Seq(Steps) /\ c \in Seq(Steps)
  BY DEF Part, Complete
<1>2. \A i \in 1..Len(b \o c) : IsInner((b \o c)[i])
  BY <1>1, AllConcat DEF Part
<1> QED
  BY <1>2, CompleteConcat DEF Part

LEMMA PartHolding ==
    ASSUME NEW k \in {"cache", "watch"}, NEW b, Part(b)
    PROVE  Part(Holding(k, b))
<1> DEFINE w == Holding(k, b)
<1>1. b \in Seq(Steps) /\ k \in Locks /\ Windows(b)
  BY DEF Part, Complete, Locks
<1>2. /\ w \in Seq(Steps) /\ Len(w) = Len(b) + 2 /\ Len(b) \in Nat
      /\ w[1] = <<"lock", k>> /\ w[Len(b) + 2] = <<"unlock", k>>
      /\ \A i \in 1..Len(b) : w[i + 1] = b[i]
  BY <1>1, HoldingAt
<1>3. ASSUME NEW l \in InnerLocks PROVE Balances(w, l, NoLocks[l])
  <2>1. Balances(b, l, 0) /\ NoLocks[l] = 0
    BY <1>3, NoLocksAre DEF Part, Complete, Even
  <2> QED
    BY <1>1, <2>1, BalanceHolding
<1>4. ASSUME NEW i \in 1..Len(w) PROVE IsInner(w[i])
  <2>1. CASE i = 1
    BY <1>2, <2>1 DEF IsInner
  <2>2. CASE i = Len(b) + 2
    BY <1>2, <2>2 DEF IsInner
  <2>3. CASE i # 1 /\ i # Len(b) + 2
    <3>1. i - 1 \in 1..Len(b) /\ (i - 1) + 1 = i
      BY <1>2, <2>3
    <3>2. w[i] = b[i - 1]
      BY <1>2, <3>1
    <3> QED
      BY <3>1, <3>2 DEF Part
  <2> QED
    BY <2>1, <2>2, <2>3
<1>5. Windows(w)
  <2> DEFINE a == <<"lock", k>>
             z == <<"unlock", k>>
  <2>1. a \in Steps /\ z \in Steps /\ a[1] = "lock" /\ z[1] = "unlock"
    BY <1>1 DEF Steps, StepKinds
  <2> HIDE DEF a, z
  <2>2. Windows(<<a>>) /\ Windows(<<z>>) /\ <<a>> \in Seq(Steps) /\ <<z>> \in Seq(Steps)
    BY <2>1, StepsOne, NoWindow
  <2>3. Windows((<<a>> \o b) \o <<z>>)
    BY <1>1, <2>2, StepsConcat, WindowsConcat
  <2> QED
    BY <2>3 DEF Holding, a, z
<1> QED
  BY <1>2, <1>3, <1>4, <1>5 DEF Part, Complete, Even

LEMMA WholeEnd ==
    ASSUME NEW b, Part(b), NEW a \in Steps, a[1] \in {"initialize", "release"}
    PROVE  Whole(b \o <<a>>) /\ (a[1] = "release" => Body(b \o <<a>>))
<1> DEFINE w == b \o <<a>>
<1>1. b \in Seq(Steps) /\ <<a>> \in Seq(Steps) /\ Len(<<a>>) = 1 /\ <<a>>[1] = a
  BY StepsOne DEF Part, Complete
<1>2. /\ w \in Seq(Steps) /\ Len(w) = Len(b) + 1 /\ Len(b) \in Nat
      /\ \A i \in 1..Len(b) : w[i] = b[i]
      /\ w[Len(b) + 1] = a
  BY <1>1, StepsConcat
<1>3. Complete(w)
  BY CompleteOne, CompleteConcat DEF Part
<1> HIDE DEF w
<1>4. \A i \in 1..Len(w) : (i \in 1..Len(b) /\ IsInner(w[i])) \/ (i = Len(w) /\ w[i] = a)
  BY <1>2 DEF Part
<1>5. a[1] = "release" => ~Has(w, "initialize")
  BY <1>4 DEF Has, IsInner
<1> QED
  BY <1>3, <1>4, <1>5 DEF Whole, Body, w

LEMMA PartIsBody ==
    ASSUME NEW b, Part(b)
    PROVE  Body(b) /\ ~Has(b, "initialize") /\ ~Has(b, "release")
  BY DEF Part, Body, Whole, Has, IsInner

LEMMA VmPart == \A kind \in VmKinds : Part(EnterVM(kind))
<1> SUFFICES ASSUME NEW kind \in VmKinds PROVE Part(EnterVM(kind))
  OBVIOUS
<1> DEFINE a == <<"vm", kind>>
<1>1. a \in Steps /\ a[1] = "vm" /\ a[2] = kind
  BY DEF Steps, StepKinds
<1> HIDE DEF a
<1>2. Part(<<a>>)
  BY <1>1, PartOne DEF IsInner
<1> QED
  BY <1>2 DEF EnterVM, a

LEMMA PlainPart == Part(Plain)
  BY VmPart DEF Plain, VmKinds

LEMMA EventsPart == Part(class_cache_set_watch_events)
<1> DEFINE a == <<"events", "">>
<1>1. a \in Steps /\ a[1] = "events"
  BY DEF Steps, StepKinds
<1> HIDE DEF a
<1>2. Part(<<a>>)
  BY <1>1, PartOne DEF IsInner
<1> QED
  BY <1>2 DEF class_cache_set_watch_events, a

LEMMA CacheParts ==
    /\ Part(on_class_file_load) /\ Part(CaptureClass) /\ Part(class_cache_start)
    /\ Part(class_cache_stop) /\ Part(class_cache_clear) /\ Part(class_cache_get)
  BY PlainPart, PartEmpty, PartHolding DEF on_class_file_load, CaptureClass, class_cache_start,
     class_cache_stop, class_cache_clear, class_cache_get

LEMMA LoadParts ==
    /\ Part(class_watch_on_class_file_load) /\ Part(class_watch_on_class_prepare)
    /\ Part(LoadClass) /\ Part(LoadInner)
<1>1. Part(class_watch_on_class_file_load) /\ Part(class_watch_on_class_prepare)
  BY PlainPart, VmPart, PartHolding DEF class_watch_on_class_file_load, class_watch_on_class_prepare,
     VmKinds
<1>2. Part(Holding("watch", Plain))
  BY PlainPart, PartHolding
<1> QED
  BY <1>1, <1>2, PartConcat DEF LoadClass, LoadInner

LEMMA WatchParts ==
    /\ Part(class_watch_create) /\ Part(class_watch_get) /\ Part(class_watch_resolve_loaded)
    /\ Part(class_watch_clear) /\ \A isLast \in BOOLEAN : Part(class_watch_destroy(isLast))
<1>1. \A isLast \in BOOLEAN : Part(IF isLast THEN class_cache_set_watch_events ELSE <<>>)
  BY EventsPart, PartEmpty
<1>2. \A isLast \in BOOLEAN : Part(class_watch_destroy(isLast))
  BY <1>1, PartHolding DEF class_watch_destroy
<1> QED
  BY <1>2, PlainPart, PartEmpty, EventsPart, PartHolding DEF class_watch_create, class_watch_get,
     class_watch_resolve_loaded, class_watch_clear

LEMMA EnsurePart == \A cached \in BOOLEAN : Part(class_cache_ensure(cached))
<1> SUFFICES ASSUME NEW cached \in BOOLEAN PROVE Part(class_cache_ensure(cached))
  OBVIOUS
<1>1. Part(class_cache_start \o EnterVM("retransform"))
  BY CacheParts, VmPart, PartConcat DEF VmKinds
<1>2. Part(Plain \o (IF cached THEN <<>> ELSE class_cache_start \o EnterVM("retransform")))
  BY <1>1, PlainPart, PartEmpty, PartConcat
<1> QED
  BY <1>2, PartHolding DEF class_cache_ensure

\* The threads are stopped for two calls of the VM.
LEMMA WindowPart ==
    ASSUME NEW g, Part(g)
    PROVE  Part(g \o <<<<"suspend", "">>>> \o <<<<"vm", "redefine">>>>
                  \o <<<<"vm", "initialize">>>> \o <<<<"resume", "">>>>)
<1> DEFINE S == <<"suspend", "">>
           R == <<"vm", "redefine">>
           I == <<"vm", "initialize">>
           Z == <<"resume", "">>
<1>1. /\ S \in Steps /\ R \in Steps /\ I \in Steps /\ Z \in Steps
      /\ S[1] = "suspend" /\ R[1] = "vm" /\ I[1] = "vm" /\ Z[1] = "resume"
      /\ R[2] = "redefine" /\ I[2] = "initialize"
  BY DEF Steps, StepKinds, VmKinds
<1> HIDE DEF S, R, I, Z
<1>2. ASSUME NEW a \in {S, R, I, Z}
      PROVE  /\ <<a>> \in Seq(Steps) /\ Len(<<a>>) = 1 /\ <<a>>[1] = a /\ IsInner(a)
             /\ \A l \in InnerLocks : Balances(<<a>>, l, 0)
  <2>1. a \in Steps /\ a[1] \notin {"lock", "unlock"} /\ IsInner(a)
    BY <1>1 DEF IsInner, VmKinds
  <2>2. \A l : Delta(a, l) = 0
    BY <2>1 DEF Delta
  <2> QED
    BY <2>1, <2>2, StepsOne, BalanceOne
<1>3. ASSUME NEW s \in Seq(Steps), NEW a \in {S, R, I, Z}
      PROVE  /\ s \o <<a>> \in Seq(Steps) /\ Len(s \o <<a>>) = Len(s) + 1 /\ Len(s) \in Nat
             /\ \A i \in 1..Len(s) : (s \o <<a>>)[i] = s[i]
             /\ (s \o <<a>>)[Len(s) + 1] = a
  BY <1>2, StepsConcat
<1> DEFINE A == g \o <<S>>
           B == A \o <<R>>
           C == B \o <<I>>
           D == C \o <<Z>>
           n == Len(g)
<1>4. g \in Seq(Steps) /\ Windows(g) /\ \A l \in InnerLocks : Balances(g, l, 0)
  BY NoLocksAre DEF Part, Complete, Even
<1>5. A \in Seq(Steps) /\ B \in Seq(Steps) /\ C \in Seq(Steps) /\ D \in Seq(Steps)
  BY <1>3, <1>4
<1>6. \A l \in InnerLocks : Balances(D, l, 0)
  <2> SUFFICES ASSUME NEW l \in InnerLocks PROVE Balances(D, l, 0)
    OBVIOUS
  <2>1. Balances(A, l, 0)
    BY <1>2, <1>4, BalanceConcat
  <2> HIDE DEF A
  <2>2. Balances(B, l, 0)
    BY <1>2, <1>5, <2>1, BalanceConcat
  <2> HIDE DEF B
  <2>3. Balances(C, l, 0)
    BY <1>2, <1>5, <2>2, BalanceConcat
  <2> HIDE DEF C
  <2> QED
    BY <1>2, <1>5, <2>3, BalanceConcat
<1>7. n \in Nat /\ Len(A) = n + 1 /\ A[n + 1] = S /\ \A i \in 1..n : A[i] = g[i]
  BY <1>3, <1>4
<1> HIDE DEF A
<1>8. Len(B) = n + 2 /\ B[n + 2] = R /\ \A i \in 1..(n + 1) : B[i] = A[i]
  BY <1>3, <1>5, <1>7
<1> HIDE DEF B
<1>9. Len(C) = n + 3 /\ C[n + 3] = I /\ \A i \in 1..(n + 2) : C[i] = B[i]
  BY <1>3, <1>5, <1>7, <1>8
<1> HIDE DEF C
<1>10. Len(D) = n + 4 /\ D[n + 4] = Z /\ \A i \in 1..(n + 3) : D[i] = C[i]
  BY <1>3, <1>5, <1>7, <1>9
<1> HIDE DEF D, n
<1>11. /\ \A i \in 1..n : D[i] = g[i]
       /\ D[n + 1] = S /\ D[n + 2] = R /\ D[n + 3] = I
  BY <1>7, <1>8, <1>9, <1>10
<1>12. ASSUME NEW i \in 1..Len(D) PROVE IsInner(D[i])
  <2>1. i \in 1..n \/ i = n + 1 \/ i = n + 2 \/ i = n + 3 \/ i = n + 4
    BY <1>7, <1>10
  <2> QED
    BY <1>2, <1>10, <1>11, <2>1 DEF Part, n
<1>13. Windows(D)
  <2> SUFFICES ASSUME NEW i \in 1..Len(D), D[i][1] = "suspend"
               PROVE  \E j \in (i + 1)..Len(D) :
                          D[j][1] = "resume" /\ \A k \in (i + 1)..(j - 1) : IsQuiet(D[k])
    BY DEF Windows
  <2>1. i \in 1..n \/ i = n + 1
    BY <1>1, <1>7, <1>10, <1>11
  <2>2. CASE i \in 1..n
    <3>1. PICK j \in (i + 1)..n : g[j][1] = "resume" /\ \A k \in (i + 1)..(j - 1) : IsQuiet(g[k])
      BY <1>4, <1>11, <2>2 DEF Windows, n
    <3>2. j \in (i + 1)..Len(D) /\ j \in 1..n /\ \A k \in (i + 1)..(j - 1) : k \in 1..n
      BY <1>7, <1>10, <2>2
    <3> QED
      BY <1>11, <3>1, <3>2
  <2>3. CASE i = n + 1
    <3>1. n + 4 \in (i + 1)..Len(D) /\ D[n + 4][1] = "resume"
      BY <1>1, <1>7, <1>10, <2>3
    <3>2. ASSUME NEW k \in (i + 1)..((n + 4) - 1) PROVE IsQuiet(D[k])
      <4>1. k = n + 2 \/ k = n + 3
        BY <1>7, <2>3
      <4> QED
        BY <1>1, <1>11, <4>1 DEF IsQuiet
    <3> QED
      BY <3>1, <3>2
  <2> QED
    BY <2>1, <2>2, <2>3
<1>14. Part(D)
  BY <1>5, <1>6, <1>12, <1>13, NoLocksAre DEF Part, Complete, Even, D
<1> QED
  BY <1>14 DEF A, B, C, D, S, R, I, Z

LEMMA ReapplyPart == Part(reapply(0)) /\ Part(reapply(1))
<1>1. Part(class_cache_get) /\ Part(EnterVM("redefine")) /\ class_cache_get \in Seq(Steps)
  BY CacheParts, VmPart DEF VmKinds, Part, Complete
<1>2. Part(reapply(1))
  <2>1. 1 # 0
    OBVIOUS
  <2>2. Part(class_cache_get \o suspend_others \o EnterVM("redefine") \o EnterVM("initialize")
                \o resume_others)
    BY <1>1, WindowPart DEF suspend_others, resume_others, EnterVM
  <2> QED
    BY <2>1, <2>2, Zenon DEF reapply
<1>3. Part(reapply(0))
  <2>1. Part(class_cache_get \o <<>>)
    BY <1>1, PartEmpty, PartConcat
  <2>2. Part((class_cache_get \o <<>>) \o EnterVM("redefine"))
    BY <1>1, <2>1, PartConcat
  <2>3. Part((((class_cache_get \o <<>>) \o EnterVM("redefine")) \o <<>>) \o <<>>)
    BY <2>2, PartEmpty, PartConcat
  <2> QED
    BY <2>3 DEF reapply
<1> QED
  BY <1>2, <1>3

LEMMA ShutdownBody == \A hooked \in BOOLEAN : Body(JNI2Hook_Shutdown(hooked))
<1> SUFFICES ASSUME NEW hooked \in BOOLEAN PROVE Body(JNI2Hook_Shutdown(hooked))
  OBVIOUS
<1> DEFINE a == <<"release", "">>
           r == IF hooked THEN reapply(0) ELSE <<>>
<1>1. a \in Steps /\ a[1] = "release"
  BY DEF Steps, StepKinds
<1>2. Part(r)
  BY ReapplyPart, PartEmpty
<1> HIDE DEF a, r
<1>3. Part(((r \o class_watch_clear) \o class_cache_clear) \o class_cache_stop)
  BY <1>2, WatchParts, CacheParts, PartConcat
<1>4. Body((((r \o class_watch_clear) \o class_cache_clear) \o class_cache_stop) \o <<a>>)
  BY <1>1, <1>3, WholeEnd
<1> QED
  BY <1>4 DEF JNI2Hook_Shutdown, a, r

LEMMA BodiesAre == \A b \in Bodies : Body(b)
<1>1. \A cached, undone \in BOOLEAN : Part(install(cached, undone))
  <2> SUFFICES ASSUME NEW cached \in BOOLEAN, NEW undone \in BOOLEAN PROVE Part(install(cached, undone))
    OBVIOUS
  <2>1. Part(IF undone THEN reapply(1) ELSE <<>>)
    BY ReapplyPart, PartEmpty
  <2>2. Part(class_cache_ensure(cached) \o reapply(1))
    BY EnsurePart, ReapplyPart, PartConcat
  <2> QED
    BY <2>1, <2>2, PartConcat DEF install
<1>2. \A left \in 0..1 : Part(uninstall_matching(left))
  <2> SUFFICES ASSUME NEW left \in 0..1 PROVE Part(reapply(left))
    BY DEF uninstall_matching
  <2>1. left = 0 \/ left = 1
    OBVIOUS
  <2> QED
    BY <2>1, ReapplyPart
<1>3. \A found \in BOOLEAN : Part(JNI2Hook_WatchMethod(found))
  <2> SUFFICES ASSUME NEW found \in BOOLEAN PROVE Part(JNI2Hook_WatchMethod(found))
    OBVIOUS
  <2>1. Part(IF found THEN class_watch_resolve_loaded ELSE <<>>)
    BY WatchParts, PartEmpty
  <2>2. Part(class_watch_create \o Plain)
    BY WatchParts, PlainPart, PartConcat
  <2> QED
    BY <2>1, <2>2, PartConcat DEF JNI2Hook_WatchMethod
<1>4. /\ Part(find_method) /\ Part(JNI2Hook_IsInstalled) /\ Part(JNI2Hook_FindFieldInClass)
      /\ Part(JNI2Hook_FindLoadedClass) /\ Part(JNI2Hook_GetClassLoader)
      /\ Part(JNI2Hook_DefineClass) /\ Part(JNI2Hook_RedefineClass)
  BY PlainPart, PartEmpty, VmPart DEF find_method, JNI2Hook_IsInstalled, JNI2Hook_FindFieldInClass,
     JNI2Hook_FindLoadedClass, JNI2Hook_GetClassLoader, JNI2Hook_DefineClass, JNI2Hook_RedefineClass,
     VmKinds
<1>5. Part(class_watch_create) /\ Part(class_watch_get)
  BY WatchParts
<1> SUFFICES ASSUME NEW b \in Bodies, \A hooked \in BOOLEAN : b # JNI2Hook_Shutdown(hooked)
             PROVE  Part(b)
  BY PartIsBody, ShutdownBody
<1> QED
  BY <1>1, <1>2, <1>3, <1>4, <1>5 DEF Bodies

LEMMA InitWhole ==
    LET w == Plain \o class_cache_start \o <<<<"initialize", "">>>> IN Whole(w) /\ ~Has(w, "release")
<1> DEFINE a == <<"initialize", "">>
           b == Plain \o class_cache_start
<1>1. a \in Steps /\ a[1] = "initialize"
  BY DEF Steps, StepKinds
<1> HIDE DEF a
<1>2. Part(b)
  BY PlainPart, CacheParts, PartConcat
<1> HIDE DEF b
<1>3. Whole(b \o <<a>>)
  BY <1>1, <1>2, WholeEnd
<1>4. ~Has(b \o <<a>>, "release")
  <2>1. ~Has(b, "release") /\ b \in Seq(Steps)
    BY <1>2, PartIsBody DEF Part, Complete
  <2>2. <<a>> \in Seq(Steps) /\ ~Has(<<a>>, "release")
    BY <1>1, StepsOne DEF Has
  <2> QED
    BY <2>1, <2>2, HasConcat
<1> QED
  BY <1>3, <1>4 DEF a, b

-----------------------------------------------------------------------------
(* The steps outside the registry lock *)

AllOuter(s) == \A i \in 1..Len(s) : IsOuter(s[i])

LEMMA OuterConcat ==
    ASSUME NEW s \in Seq(Steps), NEW u \in Seq(Steps), AllOuter(s), AllOuter(u)
    PROVE  AllOuter(s \o u)
  BY AllConcat DEF AllOuter

LEMMA AllHolding ==
    ASSUME NEW k \in Locks, NEW s \in Seq(Steps), NEW i \in 1..Len(Holding(k, s))
    PROVE  \/ Holding(k, s)[i] = <<"lock", k>> \/ Holding(k, s)[i] = <<"unlock", k>>
           \/ \E j \in 1..Len(s) : Holding(k, s)[i] = s[j]
<1>1. /\ Len(Holding(k, s)) = Len(s) + 2 /\ Len(s) \in Nat
      /\ Holding(k, s)[1] = <<"lock", k>> /\ Holding(k, s)[Len(s) + 2] = <<"unlock", k>>
      /\ \A j \in 1..Len(s) : Holding(k, s)[j + 1] = s[j]
  BY HoldingAt
<1>2. i = 1 \/ i = Len(s) + 2 \/ (i - 1 \in 1..Len(s) /\ (i - 1) + 1 = i)
  BY <1>1
<1> QED
  BY <1>1, <1>2

LEMMA OuterHolding ==
    ASSUME NEW s \in Seq(Steps), AllOuter(s)
    PROVE  AllOuter(Holding("watch", s)) /\ (Has(Holding("watch", s), "events") => Has(s, "events"))
<1>1. "watch" \in Locks
  BY DEF Locks
<1>2. ASSUME NEW i \in 1..Len(Holding("watch", s))
      PROVE  /\ IsOuter(Holding("watch", s)[i])
             /\ Holding("watch", s)[i][1] = "events" => Has(s, "events")
  <2>1. CASE Holding("watch", s)[i] = <<"lock", "watch">> \/ Holding("watch", s)[i] = <<"unlock", "watch">>
    BY <2>1 DEF IsOuter
  <2>2. CASE \E j \in 1..Len(s) : Holding("watch", s)[i] = s[j]
    BY <2>2 DEF AllOuter, Has
  <2> QED
    BY <1>1, <2>1, <2>2, AllHolding
<1> QED
  BY <1>2 DEF AllOuter, Has

LEMMA OuterOne ==
    ASSUME NEW a \in Steps, IsOuter(a)
    PROVE  /\ <<a>> \in Seq(Steps) /\ AllOuter(<<a>>)
           /\ a[1] # "events" => ~Has(<<a>>, "events")
  BY StepsOne DEF AllOuter, Has

LEMMA VmOuter ==
    ASSUME NEW kind \in {"plain", "initialize"}
    PROVE  EnterVM(kind) \in Seq(Steps) /\ AllOuter(EnterVM(kind)) /\ ~Has(EnterVM(kind), "events")
<1> DEFINE a == <<"vm", kind>>
<1>1. a \in Steps /\ a[1] = "vm" /\ a[2] = kind
  BY DEF Steps, StepKinds, VmKinds
<1> HIDE DEF a
<1>2. <<a>> \in Seq(Steps) /\ AllOuter(<<a>>) /\ ~Has(<<a>>, "events")
  BY <1>1, OuterOne DEF IsOuter
<1> QED
  BY <1>2 DEF EnterVM, a

LEMMA NoneOuter == <<>> \in Seq(Steps) /\ AllOuter(<<>>) /\ \A k : ~Has(<<>>, k)
<1>1. <<>> \in Seq(Steps) /\ Len(<<>>) = 0
  OBVIOUS
<1> QED
  BY <1>1 DEF AllOuter, Has

LEMMA LoadsOuter ==
    /\ AllOuter(LoadClass) /\ ~Has(LoadClass, "events")
    /\ AllOuter(LoadInner) /\ ~Has(LoadInner, "events")
<1> DEFINE p == Holding("watch", Plain)
           q == Holding("watch", EnterVM("initialize"))
<1>1. p \in Seq(Steps) /\ AllOuter(p) /\ ~Has(p, "events")
  <2>1. Plain \in Seq(Steps) /\ AllOuter(Plain) /\ ~Has(Plain, "events") /\ "watch" \in Locks
    BY VmOuter DEF Plain, Locks
  <2> QED
    BY <2>1, HoldingAt, OuterHolding
<1>2. q \in Seq(Steps) /\ AllOuter(q) /\ ~Has(q, "events")
  <2>1. /\ EnterVM("initialize") \in Seq(Steps) /\ AllOuter(EnterVM("initialize"))
        /\ ~Has(EnterVM("initialize"), "events") /\ "watch" \in Locks
    BY VmOuter DEF Locks
  <2> QED
    BY <2>1, HoldingAt, OuterHolding
<1> HIDE DEF p, q
<1>3. AllOuter(p \o q) /\ ~Has(p \o q, "events") /\ AllOuter(p \o p) /\ ~Has(p \o p, "events")
  BY <1>1, <1>2, OuterConcat, HasConcat
<1> QED
  BY <1>3 DEF LoadClass, LoadInner, class_watch_on_class_file_load, class_watch_on_class_prepare, p, q

LEMMA DestroyOuter ==
    ASSUME NEW isLast \in BOOLEAN
    PROVE  AllOuter(class_watch_destroy(isLast))
<1> DEFINE a == <<"events", "">>
<1>1. a \in Steps /\ a[1] = "events"
  BY DEF Steps, StepKinds
<1> HIDE DEF a
<1>2. <<a>> \in Seq(Steps) /\ AllOuter(<<a>>)
  BY <1>1, OuterOne DEF IsOuter
<1>3. class_cache_set_watch_events \in Seq(Steps) /\ AllOuter(class_cache_set_watch_events)
  BY <1>2 DEF class_cache_set_watch_events, a
<1> DEFINE b == IF isLast THEN class_cache_set_watch_events ELSE <<>>
<1>4. b \in Seq(Steps) /\ AllOuter(b)
  BY <1>3, NoneOuter
<1> HIDE DEF b
<1>5. AllOuter(Holding("watch", b))
  BY <1>4, OuterHolding
<1> QED
  BY <1>5 DEF class_watch_destroy, b

\* A part of a call that is outside in its steps is outside.
LEMMA PartOutside ==
    ASSUME NEW s, Part(s), AllOuter(s), NEW h, Free(h), NEW ever, Has(s, "events") => ever
    PROVE  Outside(s, h, ever)
  BY NoLocksAre DEF Part, Complete, Even, AllOuter, Free, InnerLocks, Outside

-----------------------------------------------------------------------------
(* How a step changes what a thread still has to do *)

LEMMA LocksAre ==
    /\ "registry" \in Locks /\ "cache" \in Locks /\ "watch" \in Locks /\ "class" \in Locks
    /\ "cache" \in InnerLocks /\ "watch" \in InnerLocks /\ "class" \in InnerLocks
    /\ \A l \in InnerLocks : l \in Locks /\ l # "registry"
    /\ \A l \in Locks : l = "registry" \/ l \in InnerLocks
  BY DEF Locks, InnerLocks

LEMMA EvenTail ==
    ASSUME NEW s \in Seq(Steps), s # <<>>, NEW h \in [Locks -> Nat], NEW g, Even(s, h),
           \A l \in InnerLocks : g[l] = h[l] + Delta(s[1], l)
    PROVE  Even(Tail(s), g) /\ \A l \in InnerLocks : g[l] \in Nat
<1> SUFFICES ASSUME NEW l \in InnerLocks PROVE Balances(Tail(s), l, g[l]) /\ g[l] \in Nat
  BY DEF Even
<1>1. h[l] \in Nat /\ Balances(s, l, h[l])
  BY LocksAre DEF Even
<1>2. h[l] + Delta(s[1], l) \in Nat /\ Balances(Tail(s), l, h[l] + Delta(s[1], l))
  BY <1>1, BalanceTail
<1> QED
  BY <1>2

LEMMA EvenSame ==
    ASSUME NEW s, NEW h, NEW g, Even(s, h), \A l \in InnerLocks : g[l] = h[l]
    PROVE  Even(s, g)
  BY DEF Even

LEMMA DeltaStep ==
    ASSUME NEW a, NEW l
    PROVE  /\ a[1] \notin {"lock", "unlock"} => Delta(a, l) = 0
           /\ a[1] = "lock" => Delta(a, l) = IF a[2] = l THEN 1 ELSE 0
           /\ a[1] = "unlock" => Delta(a, l) = IF a[2] = l THEN -1 ELSE 0
  BY DEF Delta

LEMMA InsideTail ==
    ASSUME NEW s, Inside(s)
    PROVE  /\ s \in Seq(Steps) /\ s # <<>> /\ Head(s) = s[1]
           /\ \/ Len(s) = 1 /\ Tail(s) = <<>> /\ s[1][1] = "unlock" /\ s[1][2] = "registry"
              \/ /\ Inside(Tail(s))
                 /\ IsInner(s[1]) \/ (s[1][1] \in {"initialize", "release"} /\ Len(s) = 2)
<1>1. s \in Seq(Steps) /\ s # <<>> /\ Windows(s)
  BY DEF Inside
<1>2. /\ Len(s) \in Nat /\ Len(s) >= 1 /\ Head(s) = s[1]
      /\ Tail(s) \in Seq(Steps) /\ Len(Tail(s)) = Len(s) - 1
      /\ \A i \in 1..(Len(s) - 1) : Tail(s)[i] = s[i + 1]
  BY <1>1, StepsTail
<1>3. Windows(Tail(s))
  BY <1>1, WindowsTail
<1>4. CASE Len(s) = 1
  <2>1. Tail(s) = <<>>
    <3>1. Len(Tail(s)) = 0
      BY <1>2, <1>4
    <3> QED
      BY <1>2, <3>1, StepsNone
  <2> QED
    BY <1>1, <1>2, <1>4, <2>1 DEF Inside
<1>5. CASE Len(s) # 1
  <2>1. Tail(s) # <<>>
    BY <1>2, <1>5
  <2>2. Tail(s)[Len(Tail(s))] = s[Len(s)]
    <3>1. Len(s) - 1 \in 1..(Len(s) - 1) /\ (Len(s) - 1) + 1 = Len(s)
      BY <1>2, <1>5
    <3> QED
      BY <1>2, <3>1
  <2>3. ASSUME NEW i \in 1..(Len(Tail(s)) - 1)
        PROVE  \/ IsInner(Tail(s)[i])
               \/ i = Len(Tail(s)) - 1 /\ Tail(s)[i][1] \in {"initialize", "release"}
    <3>1. i \in 1..(Len(s) - 1) /\ i + 1 \in 1..(Len(s) - 1)
      BY <1>2
    <3>2. IsInner(s[i + 1]) \/ (i + 1 = Len(s) - 1 /\ s[i + 1][1] \in {"initialize", "release"})
      BY <3>1 DEF Inside
    <3>3. i + 1 = Len(s) - 1 => i = Len(Tail(s)) - 1
      <4>1. PICK n \in Nat : n = Len(s)
        BY <1>2
      <4>2. i \in Int
        BY <3>1, <4>1
      <4>3. i + 1 = n - 1 => i = (n - 1) - 1
        BY <4>2
      <4> QED
        BY <1>2, <4>1, <4>3
    <3> QED
      BY <1>2, <3>1, <3>2, <3>3
  <2>4. Inside(Tail(s))
    BY <1>2, <1>3, <2>1, <2>2, <2>3 DEF Inside
  <2>5. 1 \in 1..(Len(s) - 1) /\ (1 = Len(s) - 1 => Len(s) = 2)
    BY <1>2, <1>5
  <2>6. IsInner(s[1]) \/ (s[1][1] \in {"initialize", "release"} /\ Len(s) = 2)
    BY <2>5 DEF Inside
  <2> QED
    BY <1>1, <1>2, <2>4, <2>6
<1> QED
  BY <1>4, <1>5

LEMMA OutsideTail ==
    ASSUME NEW s, NEW h \in [Locks -> Nat], NEW g, NEW ever, Outside(s, h, ever), s # <<>>,
           \A l \in InnerLocks : g[l] = h[l] + Delta(s[1], l)
    PROVE  /\ s \in Seq(Steps) /\ Head(s) = s[1] /\ IsOuter(s[1])
           /\ Outside(Tail(s), g, ever) /\ g["watch"] \in Nat /\ g["class"] \in Nat
<1>1. s \in Seq(Steps)
  BY DEF Outside
<1>2. /\ Len(s) \in Nat /\ Len(s) >= 1 /\ Head(s) = s[1]
      /\ Tail(s) \in Seq(Steps) /\ Len(Tail(s)) = Len(s) - 1
      /\ \A i \in 1..(Len(s) - 1) : Tail(s)[i] = s[i + 1]
  BY <1>1, StepsTail
<1>3. 1 \in 1..Len(s)
  BY <1>2
<1>4. IsOuter(s[1])
  BY <1>3 DEF Outside
<1>5. \A i \in 1..Len(Tail(s)) : IsOuter(Tail(s)[i])
  <2> SUFFICES ASSUME NEW i \in 1..Len(Tail(s)) PROVE IsOuter(Tail(s)[i])
    OBVIOUS
  <2>1. i \in 1..(Len(s) - 1) /\ i + 1 \in 1..Len(s)
    BY <1>2
  <2> QED
    BY <1>2, <2>1 DEF Outside
<1>6. Has(Tail(s), "events") => ever
  BY <1>1, HasTail DEF Outside
<1>7. Delta(s[1], "cache") = 0
  BY <1>4 DEF IsOuter, Delta
<1>8. g["cache"] = 0
  <2>1. h["cache"] = 0
    BY DEF Outside
  <2>2. g["cache"] = h["cache"] + Delta(s[1], "cache")
    BY LocksAre
  <2> QED
    BY <1>7, <2>1, <2>2
<1>9. ASSUME NEW l \in {"watch", "class"}
      PROVE  g[l] \in Nat /\ Balances(Tail(s), l, g[l])
  <2>1. h[l] \in Nat /\ Balances(s, l, h[l]) /\ l \in InnerLocks
    BY LocksAre DEF Outside
  <2> QED
    BY <1>1, <2>1, BalanceTail
<1> QED
  BY <1>1, <1>2, <1>4, <1>5, <1>6, <1>8, <1>9 DEF Outside

LEMMA OutsideSame ==
    ASSUME NEW s, NEW h, NEW g, NEW was, NEW ever, Outside(s, h, was), was => ever,
           \A l \in InnerLocks : g[l] = h[l]
    PROVE  Outside(s, g, ever)
  BY LocksAre DEF Outside

LEMMA OutsideNone ==
    ASSUME NEW h, Free(h), NEW ever
    PROVE  Outside(<<>>, h, ever)
  BY PartEmpty, NoneOuter, PartOutside

\* What is done first, of the calls that have not taken a lock.
LEMMA GuardedIs ==
    ASSUME NEW b, NEW o
    PROVE  LET s == Guarded(b, o) IN
           /\ s # <<>> /\ Head(s) = <<"lock", "registry">> /\ Tail(s) = <<<<"check", <<b, o>>>>>>
           /\ \A k \in {"initialize", "release"} : ~Has(s, k)
  BY DEF Guarded, Has

LEMMA CheckIs ==
    ASSUME NEW s, NEW x, s = <<<<"check", x>>>>
    PROVE  /\ s # <<>> /\ Head(s) = <<"check", x>> /\ Tail(s) = <<>> /\ ~Open(s)
           /\ \A k \in {"initialize", "release"} : ~Has(s, k)
<1>1. Len(s) = 1 /\ s[1] = <<"check", x>>
  OBVIOUS
<1> QED
  BY <1>1 DEF Has, Open

LEMMA LoadFileIs ==
    /\ on_class_file_load # <<>> /\ Head(on_class_file_load) = <<"lock", "cache">>
    /\ Tail(on_class_file_load) = <<<<"unlock", "cache">>>>
<1> DEFINE a == <<"lock", "cache">>
           z == <<"unlock", "cache">>
<1> HIDE DEF a, z
<1>1. a \in Steps /\ z \in Steps
  BY DEF a, z, Steps, StepKinds, Locks
<1>2. <<a>> \o <<>> = <<a>>
  BY <1>1
<1>3. on_class_file_load = <<a>> \o <<z>>
  BY <1>2, Zenon DEF on_class_file_load, Holding, a, z
<1>4. on_class_file_load # <<>> /\ Head(on_class_file_load) = a /\ Tail(on_class_file_load) = <<z>>
  BY <1>1, <1>3, StepsOne, ConsTail
<1> QED
  BY <1>4 DEF a, z

LEMMA ShapeGrows ==
    ASSUME NEW s, NEW h, NEW was, NEW ever, NEW was2, NEW ever2,
           Shape(s, h, was, ever), was => was2, ever => ever2
    PROVE  Shape(s, h, was2, ever2)
<1>1. \A x, g : (Outside(x, g, was) => Outside(x, g, was2)) /\ (Outside(x, g, ever) => Outside(x, g, ever2))
  BY OutsideSame
<1>2. Owning(s, h, was, ever) => Owning(s, h, was2, ever2)
  BY <1>1 DEF Owning, Checking, Leaving
<1>3. Coming(s, h, was, ever) => Coming(s, h, was2, ever2)
  BY <1>1 DEF Coming
<1> QED
  BY <1>1, <1>2, <1>3 DEF Shape

\* The head of what is left tells where the thread is.
LEMMA ComingHead ==
    ASSUME NEW s, NEW h, NEW was, NEW ever, Coming(s, h, was, ever)
    PROVE  s # <<>> /\ Head(s)[1] = "lock"
<1>1. \A l : First(s, l) => s # <<>> /\ Head(s)[1] = "lock"
  BY StepsTail DEF First
<1> QED
  BY <1>1, GuardedIs, LoadFileIs DEF Coming

LEMMA ShapeLock ==
    ASSUME NEW s, NEW h \in [Locks -> Nat], NEW was, NEW ever, Shape(s, h, was, ever),
           s # <<>>, Head(s)[1] = "lock", NEW l, l = Head(s)[2]
    PROVE  /\ l \in Locks /\ (l = "registry" => h["registry"] = 0)
           /\ Shape(Tail(s), [h EXCEPT ![l] = @ + 1], was, ever)
<1> DEFINE g == [h EXCEPT ![l] = @ + 1]
<1>0. \A k \in Locks : g[k] = (IF k = l THEN h[k] + 1 ELSE h[k]) /\ h[k] \in Nat
  OBVIOUS
<1> HIDE DEF g
<1>1. CASE h["registry"] = 1 /\ Owning(s, h, was, ever)
  <2>1. Inside(s) /\ Even(s, h)
    BY <1>1, CheckIs, StepsTail DEF Owning, Checking, Leaving
  <2>2. s \in Seq(Steps) /\ Head(s) = s[1] /\ Inside(Tail(s)) /\ IsInner(s[1])
    BY <2>1, InsideTail
  <2>3. l \in {"cache", "watch"}
    BY <2>2 DEF IsInner
  <2>4. \A k \in InnerLocks : g[k] = h[k] + Delta(s[1], k)
    <3> SUFFICES ASSUME NEW k \in InnerLocks PROVE g[k] = h[k] + Delta(s[1], k)
      OBVIOUS
    <3>1. Delta(s[1], k) = IF k = l THEN 1 ELSE 0
      BY <2>2, DeltaStep
    <3>2. g[k] = (IF k = l THEN h[k] + 1 ELSE h[k]) /\ h[k] \in Nat
      BY <1>0, LocksAre
    <3> QED
      BY <3>1, <3>2
  <2>5. Even(Tail(s), g)
    BY <2>1, <2>2, <2>4, EvenTail
  <2>6. g["registry"] = 1
    BY <1>0, <1>1, <2>3, LocksAre
  <2> QED
    BY <2>2, <2>3, <2>5, <2>6, LocksAre DEF Shape, Owning, g
<1>2. CASE h["registry"] = 0 /\ Free(h) /\ First(s, "registry") /\ Inside(Tail(s)) /\ Even(Tail(s), h)
  <2>1. l = "registry"
    BY <1>2, StepsTail DEF First
  <2>2. g["registry"] = 1 /\ \A k \in InnerLocks : g[k] = h[k]
    BY <1>0, <1>2, <2>1, LocksAre
  <2>3. Even(Tail(s), g)
    BY <1>2, <2>2, EvenSame
  <2> QED
    BY <1>2, <2>1, <2>2, <2>3, LocksAre DEF Shape, Owning, g
<1>3. ASSUME h["registry"] = 0, Free(h), NEW b, NEW o, s = Guarded(b, o), Body(b), Outside(o, NoLocks, was)
      PROVE  /\ l \in Locks /\ (l = "registry" => h["registry"] = 0)
             /\ Shape(Tail(s), [h EXCEPT ![l] = @ + 1], was, ever)
  <2>1. l = "registry" /\ Tail(s) = <<<<"check", <<b, o>>>>>>
    BY <1>3, GuardedIs
  <2>2. g["registry"] = 1 /\ \A k \in InnerLocks : g[k] = h[k]
    BY <1>0, <1>3, <2>1, LocksAre
  <2>3. Free(g)
    BY <1>3, <2>2 DEF Free
  <2>4. Checking(Tail(s), was)
    BY <1>3, <2>1, Zenon DEF Checking
  <2> QED
    BY <1>3, <2>1, <2>2, <2>3, <2>4, LocksAre DEF Shape, Owning, g
<1>4. CASE /\ h["registry"] = 0 /\ Free(h) /\ First(s, "class")
           /\ Outside(Tail(s), [h EXCEPT !["class"] = 1], ever)
  <2>1. l = "class"
    BY <1>4, StepsTail DEF First
  <2>2. g["registry"] = 0 /\ g = [h EXCEPT !["class"] = 1]
    <3>1. h["class"] = 0
      BY <1>4, LocksAre DEF Free
    <3>2. h["class"] + 1 = 1
      BY <3>1
    <3>3. g = [h EXCEPT !["class"] = h["class"] + 1]
      BY <2>1 DEF g
    <3>4. g["registry"] = 0
      BY <1>0, <1>4, <2>1, LocksAre
    <3> QED
      BY <3>2, <3>3, <3>4
  <2> QED
    BY <1>4, <2>1, <2>2, LocksAre DEF Shape, g
<1>5. CASE h["registry"] = 0 /\ Free(h) /\ s = on_class_file_load
  <2>1. l = "cache" /\ Tail(s) = <<<<"unlock", "cache">>>>
    BY <1>5, LoadFileIs
  <2>2. h["cache"] = 0 /\ h["watch"] = 0 /\ h["class"] = 0
    BY <1>5, LocksAre DEF Free
  <2>3. g["registry"] = 0 /\ g["cache"] = 1 /\ g["watch"] = 0 /\ g["class"] = 0
    BY <1>0, <1>5, <2>1, <2>2, LocksAre
  <2> QED
    BY <2>1, <2>3, LocksAre DEF Shape, g
<1>6. CASE h["registry"] = 0 /\ Outside(s, h, ever)
  <2>1. s \in Seq(Steps) /\ s[1] = Head(s)
    BY StepsTail, <1>6 DEF Outside
  <2>2. \A k \in InnerLocks : g[k] = h[k] + Delta(s[1], k)
    <3> SUFFICES ASSUME NEW k \in InnerLocks PROVE g[k] = h[k] + Delta(s[1], k)
      OBVIOUS
    <3>1. Delta(s[1], k) = IF k = l THEN 1 ELSE 0
      BY <2>1, DeltaStep
    <3>2. g[k] = (IF k = l THEN h[k] + 1 ELSE h[k]) /\ h[k] \in Nat
      BY <1>0, LocksAre
    <3> QED
      BY <3>1, <3>2
  <2>3. IsOuter(s[1]) /\ Outside(Tail(s), g, ever)
    BY <1>6, <2>2, OutsideTail
  <2>4. l = "watch"
    BY <2>1, <2>3 DEF IsOuter
  <2>5. g["registry"] = 0
    BY <1>0, <1>6, <2>4, LocksAre
  <2> QED
    BY <2>3, <2>4, <2>5, LocksAre DEF Shape, g
<1>7. s # <<<<"unlock", "cache">>>>
  OBVIOUS
<1> QED
  BY <1>1, <1>2, <1>3, <1>4, <1>5, <1>6, <1>7 DEF Shape, Coming

LEMMA ShapeUnlock ==
    ASSUME NEW s, NEW h \in [Locks -> Nat], NEW was, NEW ever, Shape(s, h, was, ever),
           s # <<>>, Head(s)[1] = "unlock", NEW l, l = Head(s)[2]
    PROVE  /\ l \in Locks /\ h[l] >= 1
           /\ Shape(Tail(s), [h EXCEPT ![l] = @ - 1], was, ever)
<1> DEFINE g == [h EXCEPT ![l] = @ - 1]
<1>0. \A k \in Locks : g[k] = (IF k = l THEN h[k] - 1 ELSE h[k]) /\ h[k] \in Nat
  OBVIOUS
<1> HIDE DEF g
<1>1. ASSUME s[1] = Head(s), NEW k \in InnerLocks PROVE g[k] = h[k] + Delta(s[1], k)
  <2>1. Delta(s[1], k) = IF k = l THEN -1 ELSE 0
    BY <1>1, DeltaStep
  <2>2. g[k] = (IF k = l THEN h[k] - 1 ELSE h[k]) /\ h[k] \in Nat
    BY <1>0, LocksAre
  <2> QED
    BY <2>1, <2>2
<1>2. ASSUME l \in Locks, g[l] \in Nat PROVE h[l] >= 1
  <2>1. g[l] = h[l] - 1 /\ h[l] \in Nat
    BY <1>0, <1>2
  <2>2. PICK n \in Nat : n = h[l]
    BY <2>1
  <2>3. n - 1 \in Nat
    BY <1>2, <2>1, <2>2
  <2> QED
    BY <2>2, <2>3
<1>3. CASE h["registry"] = 1 /\ Inside(s) /\ Even(s, h)
  <2>1. /\ s \in Seq(Steps) /\ Head(s) = s[1]
        /\ \/ Tail(s) = <<>> /\ l = "registry"
           \/ Inside(Tail(s)) /\ IsInner(s[1])
    BY <1>3, InsideTail
  <2>2. Even(Tail(s), g) /\ \A k \in InnerLocks : g[k] \in Nat
    <3>1. \A k \in InnerLocks : g[k] = h[k] + Delta(s[1], k)
      BY <1>1, <2>1
    <3> QED
      BY <1>3, <2>1, <3>1, EvenTail
  <2>3. CASE Tail(s) = <<>> /\ l = "registry"
    <3>1. Free(g)
      BY <2>2, <2>3, BalanceNone DEF Free, Even
    <3>2. g["registry"] = 0
      BY <1>0, <1>3, <2>3, LocksAre
    <3>3. Outside(Tail(s), g, ever)
      BY <2>3, <3>1, OutsideNone
    <3> QED
      BY <1>3, <2>3, <3>2, <3>3, LocksAre DEF Shape, g
  <2>4. CASE Inside(Tail(s)) /\ IsInner(s[1])
    <3>1. l \in {"cache", "watch"}
      BY <2>1, <2>4 DEF IsInner
    <3>2. g["registry"] = 1 /\ l \in Locks /\ h[l] >= 1
      BY <1>0, <1>2, <1>3, <2>2, <3>1, LocksAre
    <3> QED
      BY <2>2, <2>4, <3>2 DEF Shape, Owning, g
  <2> QED
    BY <2>1, <2>3, <2>4
<1>4. CASE h["registry"] = 1 /\ Free(h) /\ Leaving(s, h, ever)
  <2>1. l = "registry" /\ Outside(Tail(s), h, ever)
    BY <1>4, StepsTail DEF Leaving
  <2>2. g["registry"] = 0 /\ \A k \in InnerLocks : g[k] = h[k]
    BY <1>0, <1>4, <2>1, LocksAre
  <2>3. Outside(Tail(s), g, ever)
    BY <2>1, <2>2, OutsideSame
  <2> QED
    BY <1>4, <2>1, <2>2, <2>3, LocksAre DEF Shape, g
<1>5. CASE h["registry"] = 0 /\ Outside(s, h, ever)
  <2>1. s \in Seq(Steps) /\ s[1] = Head(s)
    BY StepsTail, <1>5 DEF Outside
  <2>2. \A k \in InnerLocks : g[k] = h[k] + Delta(s[1], k)
    BY <1>1, <2>1
  <2>3. IsOuter(s[1]) /\ Outside(Tail(s), g, ever) /\ g["watch"] \in Nat /\ g["class"] \in Nat
    BY <1>5, <2>2, OutsideTail
  <2>4. l \in {"watch", "class"}
    BY <2>1, <2>3 DEF IsOuter
  <2>5. g["registry"] = 0 /\ l \in Locks /\ g[l] \in Nat
    BY <1>0, <1>5, <2>3, <2>4, LocksAre
  <2> QED
    BY <1>2, <2>3, <2>5 DEF Shape, g
<1>6. CASE /\ h["registry"] = 0 /\ h["cache"] = 1 /\ h["watch"] = 0 /\ h["class"] = 0
           /\ s = <<<<"unlock", "cache">>>>
  <2>1. l = "cache" /\ Tail(s) = <<>>
    BY <1>6
  <2>2. g["registry"] = 0 /\ g["cache"] = 0 /\ g["watch"] = 0 /\ g["class"] = 0 /\ h[l] >= 1
    BY <1>0, <1>6, <2>1, LocksAre
  <2>3. Free(g)
    BY <2>2 DEF Free, InnerLocks
  <2> QED
    BY <2>1, <2>2, <2>3, OutsideNone, LocksAre DEF Shape, g
<1>7. ~Coming(s, h, was, ever)
  BY ComingHead
<1>8. ~Checking(s, was)
  BY CheckIs DEF Checking
<1> QED
  BY <1>3, <1>4, <1>5, <1>6, <1>7, <1>8 DEF Shape, Owning

\* Marking the library, stopping and resuming: only under the registry lock.
LEMMA ShapeMark ==
    ASSUME NEW s, NEW h \in [Locks -> Nat], NEW was, NEW ever, Shape(s, h, was, ever),
           s # <<>>, Head(s)[1] \in {"initialize", "release", "suspend", "resume"}
    PROVE  /\ h["registry"] = 1 /\ s \in Seq(Steps) /\ Windows(s) /\ Head(s) = s[1]
           /\ Shape(Tail(s), h, was, ever)
           /\ Head(s)[1] \in {"initialize", "release"} => Len(s) = 2 /\ s[2][1] = "unlock"
<1>1. ~Coming(s, h, was, ever)
  BY ComingHead
<1>2. ~Checking(s, was)
  BY CheckIs DEF Checking
<1>3. ~Outside(s, h, ever)
  <2> SUFFICES ASSUME Outside(s, h, ever) PROVE FALSE
    OBVIOUS
  <2>1. s \in Seq(Steps)
    BY DEF Outside
  <2>2. s[1] = Head(s) /\ 1 \in 1..Len(s)
    BY <2>1, StepsTail
  <2>3. IsOuter(s[1])
    BY <2>2 DEF Outside
  <2> QED
    BY <2>2, <2>3 DEF IsOuter
<1>4. ~Leaving(s, h, ever) /\ s # <<<<"unlock", "cache">>>>
  BY StepsTail DEF Leaving
<1>5. h["registry"] = 1 /\ Inside(s) /\ Even(s, h)
  BY <1>1, <1>2, <1>3, <1>4 DEF Shape, Owning
<1>6. /\ s \in Seq(Steps) /\ Head(s) = s[1] /\ Inside(Tail(s))
      /\ IsInner(s[1]) \/ (s[1][1] \in {"initialize", "release"} /\ Len(s) = 2)
  BY <1>5, InsideTail
<1>7. Head(s)[1] \in {"initialize", "release"} => Len(s) = 2 /\ s[2][1] = "unlock"
  BY <1>5, <1>6 DEF IsInner, Inside
<1>8. \A k \in InnerLocks : h[k] = h[k] + Delta(s[1], k)
  <2> SUFFICES ASSUME NEW k \in InnerLocks PROVE h[k] = h[k] + Delta(s[1], k)
    OBVIOUS
  <2>1. Delta(s[1], k) = 0 /\ h[k] \in Nat
    BY <1>6, DeltaStep, LocksAre
  <2> QED
    BY <2>1
<1>9. Even(Tail(s), h)
  BY <1>5, <1>6, <1>8, EvenTail
<1> QED
  BY <1>5, <1>6, <1>7, <1>9 DEF Shape, Owning, Inside

\* A step into the VM, or one that switches the events.
LEMMA ShapeEnters ==
    ASSUME NEW s, NEW h \in [Locks -> Nat], NEW was, NEW ever, Shape(s, h, was, ever),
           s # <<>>, Head(s)[1] \in {"vm", "events"}
    PROVE  /\ s \in Seq(Steps) /\ Head(s) = s[1]
           /\ \/ /\ h["registry"] = 1 /\ Inside(Tail(s)) /\ Even(Tail(s), h)
                 /\ s[1][1] = "vm" => s[1][2] \in VmKinds
              \/ /\ h["registry"] = 0 /\ Outside(Tail(s), h, ever)
                 /\ s[1][1] = "vm" => s[1][2] \in {"plain", "initialize"}
                 /\ s[1][1] = "events" => ever
<1>1. ~Coming(s, h, was, ever)
  BY ComingHead
<1>2. ~Checking(s, was)
  BY CheckIs DEF Checking
<1>3. ~Leaving(s, h, ever) /\ s # <<<<"unlock", "cache">>>>
  BY StepsTail DEF Leaving
<1>4. ASSUME s[1] = Head(s), NEW k \in InnerLocks PROVE h[k] = h[k] + Delta(s[1], k)
  <2>1. Delta(s[1], k) = 0 /\ h[k] \in Nat
    BY <1>4, DeltaStep, LocksAre
  <2> QED
    BY <2>1
<1>5. CASE h["registry"] = 1 /\ Inside(s) /\ Even(s, h)
  <2>1. s \in Seq(Steps) /\ Head(s) = s[1] /\ Inside(Tail(s)) /\ IsInner(s[1])
    BY <1>5, InsideTail
  <2>2. Even(Tail(s), h)
    BY <1>4, <1>5, <2>1, EvenTail
  <2> QED
    BY <1>5, <2>1, <2>2 DEF IsInner
<1>6. CASE h["registry"] = 0 /\ Outside(s, h, ever)
  <2>1. s \in Seq(Steps) /\ s[1] = Head(s)
    BY StepsTail, <1>6 DEF Outside
  <2>2. IsOuter(s[1]) /\ Outside(Tail(s), h, ever) /\ (s[1][1] = "events" => ever)
    <3>1. PICK g : g = h
      OBVIOUS
    <3>2. \A k \in InnerLocks : g[k] = h[k] + Delta(s[1], k)
      BY <1>4, <2>1, <3>1
    <3>3. IsOuter(s[1]) /\ Outside(Tail(s), g, ever)
      <4>1. Outside(s, h, ever) /\ s # <<>> /\ h \in [Locks -> Nat]
        BY <1>6
      <4> QED
        BY ONLY <3>2, <4>1, OutsideTail
    <3>4. 1 \in 1..Len(s)
      BY <2>1, StepsTail
    <3>5. s[1][1] = "events" => ever
      BY <1>6, <3>4 DEF Outside, Has
    <3> QED
      BY <3>1, <3>3, <3>5
  <2> QED
    BY <1>6, <2>1, <2>2 DEF IsOuter
<1> QED
  BY <1>1, <1>2, <1>3, <1>5, <1>6 DEF Shape, Owning

LEMMA InsideConcat ==
    ASSUME NEW p, Part(p), NEW u, Inside(u)
    PROVE  Inside(p \o u)
<1> DEFINE v == p \o u
<1>1. p \in Seq(Steps) /\ u \in Seq(Steps) /\ u # <<>> /\ Windows(p) /\ Windows(u)
  BY DEF Part, Complete, Inside
<1>2. /\ v \in Seq(Steps) /\ Len(v) = Len(p) + Len(u) /\ Len(p) \in Nat /\ Len(u) \in Nat
      /\ \A i \in 1..Len(u) : v[Len(p) + i] = u[i]
  BY <1>1, StepsConcat
<1>3. Len(u) >= 1 /\ Len(u) \in 1..Len(u)
  BY <1>1, StepsTail
<1>4. Windows(v)
  BY <1>1, WindowsConcat
<1>5. v[Len(v)] = u[Len(u)] /\ v # <<>>
  BY <1>2, <1>3
<1>6. ASSUME NEW i \in 1..(Len(v) - 1)
      PROVE  IsInner(v[i]) \/ (i = Len(v) - 1 /\ v[i][1] \in {"initialize", "release"})
  <2>1. i \in 1..Len(v)
    BY <1>2
  <2>2. CASE i \in 1..Len(p) /\ v[i] = p[i]
    BY <2>2 DEF Part
  <2>3. CASE i - Len(p) \in 1..Len(u) /\ v[i] = u[i - Len(p)]
    <3>1. PICK j \in Int : j = i - Len(p)
      BY <2>3
    <3>2. j \in 1..(Len(u) - 1) /\ (j = Len(u) - 1 => i = Len(v) - 1)
      BY <1>2, <1>3, <2>1, <2>3, <3>1
    <3>3. IsInner(u[j]) \/ (j = Len(u) - 1 /\ u[j][1] \in {"initialize", "release"})
      BY <3>2 DEF Inside
    <3> QED
      BY <2>3, <3>1, <3>2, <3>3
  <2> QED
    BY <1>1, <2>1, <2>2, <2>3, AllConcat
<1> HIDE DEF v
<1> QED
  BY <1>2, <1>4, <1>5, <1>6 DEF Inside, v

LEMMA EvenConcat ==
    ASSUME NEW p, Complete(p), NEW u \in Seq(Steps), NEW h \in [Locks -> Nat], Even(u, h)
    PROVE  Even(p \o u, h)
<1> SUFFICES ASSUME NEW l \in InnerLocks PROVE Balances(p \o u, l, h[l])
  BY DEF Even
<1>1. p \in Seq(Steps) /\ Balances(p, l, 0) /\ Balances(u, l, h[l]) /\ h[l] \in Nat
  BY NoLocksAre, LocksAre DEF Complete, Even
<1> QED
  BY <1>1, BalanceConcat

LEMMA OutsideConcat ==
    ASSUME NEW p, Part(p), AllOuter(p), ~Has(p, "events"), NEW h \in [Locks -> Nat],
           NEW u, NEW ever, Outside(u, h, ever)
    PROVE  Outside(p \o u, h, ever)
<1>1. p \in Seq(Steps) /\ u \in Seq(Steps) /\ AllOuter(u)
  BY DEF Part, Complete, Outside, AllOuter
<1>2. p \o u \in Seq(Steps) /\ AllOuter(p \o u) /\ (Has(p \o u, "events") => ever)
  BY <1>1, StepsConcat, OuterConcat, HasConcat DEF Outside
<1>3. ASSUME NEW l \in {"watch", "class"} PROVE Balances(p \o u, l, h[l])
  <2>1. Balances(p, l, 0) /\ Balances(u, l, h[l]) /\ h[l] \in Nat
    BY NoLocksAre, LocksAre DEF Part, Complete, Even, Outside
  <2> QED
    BY <1>1, <2>1, BalanceConcat
<1> QED
  BY <1>2, <1>3 DEF Outside, AllOuter

LEMMA ShapePush ==
    ASSUME NEW s, NEW h \in [Locks -> Nat], NEW was, NEW ever, Shape(s, h, was, ever),
           s # <<>>, Head(s)[1] \in {"vm", "events"},
           NEW p, Part(p), h["registry"] = 0 => AllOuter(p) /\ ~Has(p, "events")
    PROVE  Shape(p \o Tail(s), h, was, ever)
<1>1. CASE h["registry"] = 1 /\ Inside(Tail(s)) /\ Even(Tail(s), h)
  <2>1. Inside(p \o Tail(s)) /\ Tail(s) \in Seq(Steps) /\ Complete(p)
    BY <1>1, InsideConcat DEF Inside, Part
  <2>2. Even(p \o Tail(s), h)
    BY <1>1, <2>1, EvenConcat
  <2> QED
    BY <1>1, <2>1, <2>2 DEF Shape, Owning
<1>2. CASE h["registry"] = 0 /\ Outside(Tail(s), h, ever)
  <2>1. Outside(p \o Tail(s), h, ever)
    BY <1>2, OutsideConcat
  <2> QED
    BY <1>2, <2>1 DEF Shape
<1> QED
  BY <1>1, <1>2, ShapeEnters

\* The rest of a call that has found the library initialised, or has not.
UnlockRegistry == <<"unlock", "registry">>

LEMMA WholeInside ==
    ASSUME NEW b, Whole(b), NEW h \in [Locks -> Nat], Free(h)
    PROVE  Inside(b \o <<UnlockRegistry>>) /\ Even(b \o <<UnlockRegistry>>, h)
<1> DEFINE a == UnlockRegistry
           v == b \o <<a>>
<1>1. a \in Steps /\ a[1] = "unlock" /\ a[2] = "registry"
  BY DEF UnlockRegistry, Steps, StepKinds, Locks
<1> HIDE DEF a
<1>2. b \in Seq(Steps) /\ <<a>> \in Seq(Steps) /\ Len(<<a>>) = 1 /\ <<a>>[1] = a /\ Windows(b) /\ Complete(b)
  BY <1>1, StepsOne DEF Whole, Complete
<1>3. /\ v \in Seq(Steps) /\ Len(v) = Len(b) + 1 /\ Len(b) \in Nat
      /\ \A i \in 1..Len(b) : v[i] = b[i]
      /\ v[Len(b) + 1] = a
  BY <1>2, StepsConcat
<1>4. Windows(<<a>>)
  BY <1>1, <1>2, NoWindow
<1>5. Windows(v) /\ v # <<>>
  <2>1. Windows(v)
    BY <1>2, <1>4, WindowsConcat
  <2>2. Len(v) # 0
    BY <1>3
  <2> HIDE DEF v
  <2>3. v # <<>>
    BY <1>3, <2>2
  <2> QED
    BY <2>1, <2>3
<1>6. Even(<<a>>, h)
  <2> SUFFICES ASSUME NEW l \in InnerLocks PROVE Balances(<<a>>, l, h[l])
    BY DEF Even
  <2>1. h[l] = 0 /\ l # "registry"
    BY LocksAre DEF Free
  <2>2. Delta(a, l) = 0
    BY <1>1, <2>1, DeltaStep
  <2> QED
    BY <1>1, <2>1, <2>2, BalanceOne
<1>7. Even(v, h)
  BY <1>2, <1>6, EvenConcat
<1>8. Inside(v)
  <2>1. Len(v) - 1 = Len(b)
    BY <1>3
  <2> HIDE DEF v
  <2> QED
    BY <1>1, <1>3, <1>5, <2>1 DEF Inside, Whole
<1> QED
  BY <1>7, <1>8 DEF a

LEMMA ShapeCheck ==
    ASSUME NEW s, NEW h \in [Locks -> Nat], NEW was, NEW ever, Shape(s, h, was, ever),
           s # <<>>, Head(s)[1] = "check"
    PROVE  \E b, o :
               /\ Head(s)[2] = <<b, o>> /\ Tail(s) = <<>> /\ s = <<<<"check", <<b, o>>>>>>
               /\ h["registry"] = 1 /\ Body(b) /\ Outside(o, NoLocks, was)
               /\ Shape(b \o <<UnlockRegistry>>, h, was, ever)
               /\ (was => ever) => Shape(<<UnlockRegistry>> \o o, h, was, ever)
<1>1. ~Coming(s, h, was, ever)
  BY ComingHead
<1>2. ~Outside(s, h, ever)
  <2> SUFFICES ASSUME Outside(s, h, ever) PROVE FALSE
    OBVIOUS
  <2>1. s \in Seq(Steps)
    BY DEF Outside
  <2>2. s[1] = Head(s) /\ 1 \in 1..Len(s)
    BY <2>1, StepsTail
  <2>3. IsOuter(s[1])
    BY <2>2 DEF Outside
  <2> QED
    BY <2>2, <2>3 DEF IsOuter
<1>3. ~Leaving(s, h, ever) /\ s # <<<<"unlock", "cache">>>>
  BY StepsTail DEF Leaving
<1>4. ~Inside(s)
  BY InsideTail DEF IsInner
<1>5. h["registry"] = 1 /\ Free(h) /\ Checking(s, was)
  BY <1>1, <1>2, <1>3, <1>4 DEF Shape, Owning
<1>6. PICK b, o : s = <<<<"check", <<b, o>>>>>> /\ Body(b) /\ Outside(o, NoLocks, was)
  BY <1>5 DEF Checking
<1>7. Head(s)[2] = <<b, o>> /\ Tail(s) = <<>>
  BY <1>6, CheckIs
<1>8. Shape(b \o <<UnlockRegistry>>, h, was, ever)
  BY <1>5, <1>6, WholeInside DEF Body, Shape, Owning
<1>9. ASSUME was => ever PROVE Shape(<<UnlockRegistry>> \o o, h, was, ever)
  <2>1. UnlockRegistry \in Steps /\ UnlockRegistry[1] = "unlock" /\ UnlockRegistry[2] = "registry"
    BY DEF UnlockRegistry, Steps, StepKinds, Locks
  <2>2. Outside(o, h, ever)
    BY <1>5, <1>6, <1>9, OutsideSame, NoLocksAre DEF Free
  <2>3. o \in Seq(Steps)
    BY <1>6 DEF Outside
  <2>4. Leaving(<<UnlockRegistry>> \o o, h, ever)
    BY <2>1, <2>2, <2>3, ConsTail DEF Leaving
  <2> QED
    BY <1>5, <2>4 DEF Shape, Owning
<1> QED
  BY <1>5, <1>6, <1>7, <1>8, <1>9, Zenon

-----------------------------------------------------------------------------
(* What a step leaves alone *)

LEMMA HoldsType ==
    ASSUME TypeOK, NEW t \in Threads
    PROVE  /\ Holds(t) \in [Locks -> Nat] /\ t # Nobody
           /\ \A l \in Locks : /\ Holds(t)[l] = IF owner[l] = t THEN depth[l] ELSE 0
                               /\ Holds(t)[l] # 0 <=> owner[l] = t
  BY LockOrderAssumption DEF TypeOK, Holds, Threads

LEMMA ShapesFrame ==
    ASSUME TypeOK, Shapes, NEW t \in Threads, NEW s, todo' = [todo EXCEPT ![t] = s],
           \A u \in Threads \ {t} : Holds(u)' = Holds(u),
           Shape(s, Holds(t)', Was', released'), Was => Was', released => released'
    PROVE  Shapes'
<1> SUFFICES ASSUME NEW u \in Threads PROVE Shape(todo[u]', Holds(u)', Was', released')
  BY DEF Shapes
<1>1. CASE u = t
  BY <1>1 DEF TypeOK
<1>2. CASE u # t
  <2>1. todo[u]' = todo[u] /\ Holds(u)' = Holds(u)
    BY <1>2
  <2>2. Shape(todo[u], Holds(u), Was, released)
    BY DEF Shapes
  <2>3. Shape(todo[u], Holds(u), Was', released')
    BY <2>2, ShapeGrows
  <2> QED
    BY <2>1, <2>3
<1> QED
  BY <1>1, <1>2

LEMMA SessionFrame ==
    ASSUME TypeOK, OneSession, NEW t \in Threads, NEW s, todo' = [todo EXCEPT ![t] = s],
           \A k \in {"initialize", "release"} : Has(s, k) => Has(todo[t], k),
           UNCHANGED <<initialized, released, inits>>
    PROVE  OneSession'
<1>1. ASSUME NEW u \in Threads, NEW k \in {"initialize", "release"}, Has(todo'[u], k)
      PROVE  Has(todo[u], k)
  BY <1>1 DEF TypeOK
<1> QED
  BY <1>1 DEF OneSession

LEMMA StopFrame ==
    ASSUME TypeOK, StoppedByOwner, NEW t \in Threads, NEW s, todo' = [todo EXCEPT ![t] = s],
           stopped' = stopped,
           stopped # {} => owner'["registry"] = owner["registry"],
           stopped # {} /\ t = owner["registry"] => Open(s)
    PROVE  StoppedByOwner'
  BY DEF TypeOK, StoppedByOwner

\* While the others are stopped, what the owner has next is quiet or the resume.
LEMMA OpenInside ==
    ASSUME NEW s, NEW h, NEW was, NEW ever, Shape(s, h, was, ever), h["registry"] # 0, Open(s)
    PROVE  /\ Inside(s) /\ Even(s, h) /\ s \in Seq(Steps) /\ s # <<>> /\ Head(s) = s[1]
           /\ s[1][1] = "resume" \/ IsQuiet(s[1])
           /\ s[1][1] # "resume" => Open(Tail(s))
<1>1. Owning(s, h, was, ever)
  BY DEF Shape
<1>2. ~Checking(s, was)
  BY CheckIs DEF Checking
<1>3. ~Leaving(s, h, ever)
  BY OpenTail DEF Leaving, IsQuiet
<1>4. Inside(s) /\ Even(s, h) /\ s \in Seq(Steps)
  BY <1>1, <1>2, <1>3 DEF Owning, Inside
<1> QED
  BY <1>4, OpenTail, StepsTail

LEMMA QuietOwner ==
    ASSUME LockInv, stopped # {}, NEW t, t = owner["registry"]
    PROVE  LET s == todo[t] IN
           /\ t \in Threads \ stopped /\ Holds(t)["registry"] # 0
           /\ Inside(s) /\ Even(s, Holds(t)) /\ s \in Seq(Steps) /\ s # <<>> /\ Head(s) = s[1]
           /\ s[1][1] = "resume" \/ IsQuiet(s[1])
           /\ s[1][1] # "resume" => Open(Tail(s))
<1>1. t \in Threads \ stopped /\ Open(todo[t])
  BY DEF LockInv, StoppedByOwner
<1>2. Holds(t)["registry"] # 0
  BY <1>1, HoldsType, LocksAre DEF LockInv
<1>3. Shape(todo[t], Holds(t), Was, released)
  BY <1>1 DEF LockInv, Shapes
<1> QED
  BY <1>1, <1>2, <1>3, OpenInside

LEMMA ShapeHasTail ==
    ASSUME NEW s, NEW h, NEW was, NEW ever, Shape(s, h, was, ever), s # <<>>,
           NEW k \in {"initialize", "release"}, Has(Tail(s), k)
    PROVE  Has(s, k)
<1>1. CASE s \in Seq(Steps)
  BY <1>1, HasTail
<1>2. CASE s \notin Seq(Steps)
  <2>1. ASSUME NEW b, NEW o, s = Guarded(b, o) PROVE FALSE
    <3>1. Tail(s) = <<<<"check", <<b, o>>>>>>
      BY <2>1, GuardedIs
    <3> QED
      BY <3>1, CheckIs
  <2>2. ~Checking(s, was)
    BY CheckIs, NoneOuter DEF Checking
  <2>3. s # on_class_file_load
    BY <1>2, CacheParts DEF Part, Complete
  <2>4. s # <<<<"unlock", "cache">>>>
    <3>1. PICK a \in Steps : a = <<"unlock", "cache">>
      BY DEF Steps, StepKinds, Locks
    <3>2. s # <<a>>
      BY <1>2, StepsOne
    <3> QED
      BY <3>1, <3>2
  <2> QED
    BY <1>2, <2>1, <2>2, <2>3, <2>4 DEF Shape, Owning, Coming, Inside, Leaving, First, Outside
<1> QED
  BY <1>1, <1>2

-----------------------------------------------------------------------------
(* Every step preserves the invariant *)

LEMMA LockNext ==
    ASSUME LockInv, NEW t \in Threads, hook_mutex_lock(t)
    PROVE  LockInv'
<1> DEFINE s == todo[t]
           l == Head(s)[2]
           h == Holds(t)
<1>1. /\ s # <<>> /\ Head(s)[1] = "lock" /\ owner[l] \in {Nobody, t}
      /\ owner' = [owner EXCEPT ![l] = t] /\ depth' = [depth EXCEPT ![l] = @ + 1]
      /\ todo' = [todo EXCEPT ![t] = Tail(s)] /\ stopped' = stopped
      /\ UNCHANGED <<initialized, released, can_suspend, calls, inits>>
  BY DEF hook_mutex_lock, Is, Done
<1>2. TypeOK /\ Shapes /\ StoppedByOwner /\ OneSession
  BY DEF LockInv
<1>3. /\ h \in [Locks -> Nat] /\ t # Nobody
      /\ \A k \in Locks : h[k] = (IF owner[k] = t THEN depth[k] ELSE 0) /\ (h[k] # 0 <=> owner[k] = t)
  BY <1>2, HoldsType
<1>4. Shape(s, h, Was, released)
  BY <1>2 DEF Shapes
<1>5. /\ l \in Locks /\ (l = "registry" => h["registry"] = 0)
      /\ Shape(Tail(s), [h EXCEPT ![l] = @ + 1], Was, released)
  BY <1>1, <1>3, <1>4, ShapeLock
<1>6. TypeOK'
  BY <1>1, <1>2, <1>3, <1>5 DEF TypeOK
<1>7. \A u \in Threads \ {t} : Holds(u)' = Holds(u)
  <2> SUFFICES ASSUME NEW u \in Threads \ {t}, NEW k \in Locks
               PROVE  (IF owner'[k] = u THEN depth'[k] ELSE 0) = (IF owner[k] = u THEN depth[k] ELSE 0)
    BY DEF Holds
  <2>1. u # Nobody
    BY <1>2, HoldsType
  <2> QED
    BY <1>1, <1>2, <1>5, <2>1 DEF TypeOK
<1>8. Holds(t)' = [h EXCEPT ![l] = @ + 1]
  <2>1. \A k \in Locks : Holds(t)'[k] = IF k = l THEN h[k] + 1 ELSE h[k]
    <3> SUFFICES ASSUME NEW k \in Locks
                 PROVE  (IF owner'[k] = t THEN depth'[k] ELSE 0) = IF k = l THEN h[k] + 1 ELSE h[k]
      BY DEF Holds
    <3>1. CASE k = l
      <4>1. depth'[k] = depth[k] + 1 /\ owner'[k] = t /\ h[k] = depth[k]
        BY <1>1, <1>2, <1>3, <3>1 DEF TypeOK
      <4> QED
        BY <3>1, <4>1
    <3>2. CASE k # l
      <4>1. depth'[k] = depth[k] /\ owner'[k] = owner[k]
        BY <1>1, <1>2, <3>2 DEF TypeOK
      <4> QED
        BY <1>3, <3>2, <4>1
    <3> QED
      BY <3>1, <3>2
  <2>2. Holds(t)' \in [Locks -> Nat]
    BY <1>6 DEF TypeOK, Holds
  <2> HIDE DEF h, l
  <2> QED
    BY <1>3, <2>1, <2>2
<1>9. Was' = Was /\ released' = released /\ (Was => Was') /\ (released => released')
  BY <1>1 DEF Was
<1>10. Shapes'
  <2>1. Shape(Tail(s), Holds(t)', Was', released')
    BY <1>5, <1>8, <1>9
  <2> QED
    BY <1>1, <1>2, <1>7, <1>9, <2>1, ShapesFrame, Zenon
<1>11. StoppedByOwner'
  <2>1. ASSUME stopped # {} PROVE l # "registry" /\ owner'["registry"] = owner["registry"]
    <3>1. owner["registry"] \in Threads
      BY <1>2, <2>1 DEF StoppedByOwner
    <3>2. l # "registry"
      BY <1>1, <1>3, <1>5, <3>1, LockOrderAssumption, LocksAre DEF Threads
    <3> QED
      BY <1>1, <3>2
  <2>2. ASSUME stopped # {}, t = owner["registry"] PROVE Open(Tail(s))
    BY <1>1, <2>2, QuietOwner
  <2> QED
    BY <1>1, <1>2, <2>1, <2>2, StopFrame
<1>12. OneSession'
  BY <1>1, <1>2, <1>4, ShapeHasTail, SessionFrame
<1> QED
  BY <1>6, <1>10, <1>11, <1>12 DEF LockInv

LEMMA UnlockNext ==
    ASSUME LockInv, NEW t \in Threads, hook_mutex_unlock(t)
    PROVE  LockInv'
<1> DEFINE s == todo[t]
           l == Head(s)[2]
           h == Holds(t)
<1>1. /\ s # <<>> /\ Head(s)[1] = "unlock"
      /\ owner' = [owner EXCEPT ![l] = IF depth[l] = 1 THEN Nobody ELSE @]
      /\ depth' = [depth EXCEPT ![l] = @ - 1]
      /\ todo' = [todo EXCEPT ![t] = Tail(s)] /\ stopped' = stopped
      /\ UNCHANGED <<initialized, released, can_suspend, calls, inits>>
  BY DEF hook_mutex_unlock, Is, Done
<1>2. TypeOK /\ Shapes /\ StoppedByOwner /\ OneSession
  BY DEF LockInv
<1>3. /\ h \in [Locks -> Nat] /\ t # Nobody
      /\ \A k \in Locks : h[k] = (IF owner[k] = t THEN depth[k] ELSE 0) /\ (h[k] # 0 <=> owner[k] = t)
  BY <1>2, HoldsType
<1>4. Shape(s, h, Was, released)
  BY <1>2 DEF Shapes
<1>5. l \in Locks /\ h[l] >= 1 /\ Shape(Tail(s), [h EXCEPT ![l] = @ - 1], Was, released)
  BY <1>1, <1>3, <1>4, ShapeUnlock
<1>6. owner[l] = t /\ depth[l] = h[l] /\ depth[l] \in Nat /\ depth[l] >= 1
  BY <1>2, <1>3, <1>5 DEF TypeOK
<1>7. TypeOK'
  <2>1. \A k \in Locks : depth'[k] = 0 <=> owner'[k] = Nobody
    BY <1>1, <1>2, <1>3, <1>5, <1>6 DEF TypeOK
  <2>2. owner' \in [Locks -> Threads \union {Nobody}] /\ depth' \in [Locks -> Nat]
    BY <1>1, <1>2, <1>5, <1>6 DEF TypeOK
  <2> QED
    BY <1>1, <1>2, <2>1, <2>2 DEF TypeOK
<1>8. \A u \in Threads \ {t} : Holds(u)' = Holds(u)
  <2> SUFFICES ASSUME NEW u \in Threads \ {t}, NEW k \in Locks
               PROVE  (IF owner'[k] = u THEN depth'[k] ELSE 0) = (IF owner[k] = u THEN depth[k] ELSE 0)
    BY DEF Holds
  <2>1. u # Nobody
    BY <1>2, HoldsType
  <2> QED
    BY <1>1, <1>2, <1>5, <1>6, <2>1 DEF TypeOK
<1>9. Holds(t)' = [h EXCEPT ![l] = @ - 1]
  <2>1. \A k \in Locks : Holds(t)'[k] = IF k = l THEN h[k] - 1 ELSE h[k]
    <3> SUFFICES ASSUME NEW k \in Locks
                 PROVE  (IF owner'[k] = t THEN depth'[k] ELSE 0) = IF k = l THEN h[k] - 1 ELSE h[k]
      BY DEF Holds
    <3>1. CASE k = l
      <4>1. depth'[k] = depth[k] - 1 /\ owner'[k] = IF depth[k] = 1 THEN Nobody ELSE t
        BY <1>1, <1>2, <1>6, <3>1 DEF TypeOK
      <4> QED
        BY <1>3, <1>6, <3>1, <4>1
    <3>2. CASE k # l
      <4>1. depth'[k] = depth[k] /\ owner'[k] = owner[k]
        BY <1>1, <1>2, <3>2 DEF TypeOK
      <4> QED
        BY <1>3, <3>2, <4>1
    <3> QED
      BY <3>1, <3>2
  <2>2. Holds(t)' \in [Locks -> Nat]
    BY <1>7 DEF TypeOK, Holds
  <2> HIDE DEF h, l
  <2> QED
    BY <1>3, <2>1, <2>2
<1>10. Was' = Was /\ released' = released /\ (Was => Was') /\ (released => released')
  BY <1>1 DEF Was
<1>11. Shapes'
  <2>1. Shape(Tail(s), Holds(t)', Was', released')
    BY <1>5, <1>9, <1>10
  <2> QED
    BY <1>1, <1>2, <1>8, <1>10, <2>1, ShapesFrame, Zenon
<1>12. StoppedByOwner'
  <2>1. ASSUME stopped # {} PROVE owner'["registry"] = owner["registry"]
    <3>1. l # "registry"
      <4> SUFFICES ASSUME l = "registry" PROVE FALSE
        OBVIOUS
      <4>1. t = owner["registry"]
        BY <1>6
      <4> QED
        BY <1>1, <2>1, <4>1, QuietOwner DEF IsQuiet
    <3> QED
      BY <1>1, <3>1
  <2>2. ASSUME stopped # {}, t = owner["registry"] PROVE Open(Tail(s))
    BY <1>1, <2>2, QuietOwner
  <2> QED
    BY <1>1, <1>2, <2>1, <2>2, StopFrame
<1>13. OneSession'
  BY <1>1, <1>2, <1>4, ShapeHasTail, SessionFrame
<1> QED
  BY <1>7, <1>11, <1>12, <1>13 DEF LockInv

\* A step that takes and gives no lock, and marks nothing.
LEMMA QuietNext ==
    ASSUME LockInv, NEW t \in Threads, NEW s, todo' = [todo EXCEPT ![t] = s],
           UNCHANGED <<owner, depth, initialized, released, can_suspend, calls, inits>>,
           Shape(s, Holds(t), Was, released),
           \A k \in {"initialize", "release"} : Has(s, k) => Has(todo[t], k)
    PROVE  /\ Shapes' /\ OneSession'
           /\ stopped' \subseteq Threads => TypeOK'
           /\ stopped' = stopped /\ (stopped # {} /\ t = owner["registry"] => Open(s)) => StoppedByOwner'
<1>1. TypeOK /\ Shapes /\ StoppedByOwner /\ OneSession
  BY DEF LockInv
<1>2. Was' = Was /\ released' = released /\ (Was => Was') /\ (released => released')
  BY DEF Was
<1>3. \A u \in Threads : Holds(u)' = Holds(u)
  BY DEF Holds
<1>4. Shape(s, Holds(t)', Was', released')
  BY <1>2, <1>3
<1>5. Shapes'
  BY <1>1, <1>2, <1>3, <1>4, ShapesFrame, Zenon
<1>6. OneSession'
  BY <1>1, SessionFrame
<1>7. stopped' \subseteq Threads => TypeOK'
  BY <1>1 DEF TypeOK
<1>8. stopped' = stopped /\ (stopped # {} /\ t = owner["registry"] => Open(s)) => StoppedByOwner'
  BY <1>1, StopFrame
<1> QED
  BY <1>5, <1>6, <1>7, <1>8

LEMMA SuspendNext ==
    ASSUME LockInv, NEW t \in Threads, SuspendThreadList(t) \/ ResumeThreadList(t)
    PROVE  LockInv'
<1> DEFINE s == todo[t]
           h == Holds(t)
<1>1. /\ s # <<>> /\ Head(s)[1] \in {"suspend", "resume"} /\ t \notin stopped
      /\ todo' = [todo EXCEPT ![t] = Tail(s)]
      /\ UNCHANGED <<owner, depth, initialized, released, can_suspend, calls, inits>>
      /\ Head(s)[1] = "suspend" => stopped' = IF can_suspend THEN Threads \ {t} ELSE stopped
      /\ Head(s)[1] = "resume" => stopped' = {}
  BY DEF SuspendThreadList, ResumeThreadList, Is, Done
<1>2. TypeOK /\ Shape(s, h, Was, released)
  BY DEF LockInv, Shapes
<1>3. h \in [Locks -> Nat] /\ (h["registry"] # 0 <=> owner["registry"] = t)
  BY <1>2, HoldsType, LocksAre
<1>4. /\ h["registry"] = 1 /\ s \in Seq(Steps) /\ Windows(s) /\ Head(s) = s[1]
      /\ Shape(Tail(s), h, Was, released)
  BY <1>1, <1>2, <1>3, ShapeMark
<1>5. owner["registry"] = t /\ owner'["registry"] = t
  BY <1>1, <1>3, <1>4
<1>6. \A k \in {"initialize", "release"} : Has(Tail(s), k) => Has(s, k)
  BY <1>1, <1>2, ShapeHasTail
<1>7. stopped' \subseteq Threads
  BY <1>1, <1>2 DEF TypeOK
<1>8. Shapes' /\ OneSession' /\ TypeOK'
  BY <1>1, <1>4, <1>6, <1>7, QuietNext
<1>9. StoppedByOwner'
  <2>1. CASE Head(s)[1] = "resume"
    BY <1>1, <2>1 DEF StoppedByOwner
  <2>2. CASE Head(s)[1] = "suspend"
    <3>1. stopped = {}
      BY <1>4, <1>5, <2>2, QuietOwner DEF IsQuiet
    <3>2. Open(Tail(s)) /\ todo'[t] = Tail(s)
      BY <1>1, <1>2, <1>4, <2>2, WindowsTail DEF TypeOK
    <3>3. t \notin stopped'
      BY <1>1, <2>2, <3>1
    <3> QED
      BY <1>5, <3>2, <3>3 DEF StoppedByOwner
  <2> QED
    BY <1>1, <2>1, <2>2
<1> QED
  BY <1>8, <1>9 DEF LockInv

\* What comes in the place of a step into the VM, or of one that switches the
\* events.
LEMMA PushNext ==
    ASSUME LockInv, NEW t \in Threads, todo[t] # <<>>, Head(todo[t])[1] \in {"vm", "events"},
           NEW p, Part(p), Instead(t, p),
           UNCHANGED <<owner, depth, stopped, initialized, released, can_suspend, calls, inits>>,
           Holds(t)["registry"] = 0 => AllOuter(p) /\ ~Has(p, "events"),
           stopped # {} /\ t = owner["registry"] =>
               Head(todo[t])[1] = "vm" /\ \A i \in 1..Len(p) : IsQuiet(p[i])
    PROVE  LockInv'
<1> DEFINE s == todo[t]
           h == Holds(t)
           x == p \o Tail(s)
<1>1. TypeOK /\ Shape(s, h, Was, released)
  BY DEF LockInv, Shapes
<1>2. h \in [Locks -> Nat]
  BY <1>1, HoldsType
<1>3. s \in Seq(Steps) /\ Head(s) = s[1] /\ Tail(s) \in Seq(Steps) /\ p \in Seq(Steps)
  BY <1>1, <1>2, ShapeEnters, StepsTail DEF Part, Complete
<1>4. Shape(x, h, Was, released)
  BY <1>1, <1>2, ShapePush
<1>5. \A k \in {"initialize", "release"} : Has(x, k) => Has(s, k)
  <2> SUFFICES ASSUME NEW k \in {"initialize", "release"}, Has(x, k) PROVE Has(s, k)
    OBVIOUS
  <2>1. ~Has(p, k)
    BY PartIsBody
  <2>2. Has(Tail(s), k)
    BY <1>3, <2>1, HasConcat
  <2> QED
    BY <1>3, <2>2, HasTail
<1>6. ASSUME stopped # {}, t = owner["registry"] PROVE Open(x)
  <2>1. Open(Tail(s))
    BY <1>6, QuietOwner
  <2> QED
    BY <1>3, <1>6, <2>1, OpenConcat
<1>7. todo' = [todo EXCEPT ![t] = x]
  BY DEF Instead
<1>8. stopped' = stopped /\ stopped' \subseteq Threads
  BY <1>1 DEF TypeOK
<1> HIDE DEF x
<1>9. Shapes' /\ OneSession' /\ TypeOK' /\ StoppedByOwner'
  BY <1>4, <1>5, <1>6, <1>7, <1>8, QuietNext
<1> QED
  BY <1>9 DEF LockInv

LEMMA EventsNext ==
    ASSUME LockInv, NEW t \in Threads, SwitchEvents(t)
    PROVE  LockInv'
<1> DEFINE p == IF initialized THEN Holding("cache", Plain) ELSE <<>>
           s == todo[t]
           h == Holds(t)
<1>1. /\ s # <<>> /\ Head(s)[1] = "events" /\ Instead(t, p)
      /\ UNCHANGED <<owner, depth, stopped, initialized, released, can_suspend, calls, inits>>
  BY DEF SwitchEvents, Is
<1>2. TypeOK /\ Shape(s, h, Was, released) /\ (released => ~initialized) /\ h \in [Locks -> Nat]
  BY HoldsType DEF LockInv, Shapes, OneSession
<1>3. Part(p)
  BY PlainPart, PartEmpty, PartHolding
<1>4. h["registry"] = 0 => AllOuter(p) /\ ~Has(p, "events")
  <2> SUFFICES ASSUME h["registry"] = 0 PROVE p = <<>>
    BY NoneOuter
  <2>1. released
    BY <1>1, <1>2, ShapeEnters
  <2> QED
    BY <1>2, <2>1
<1>5. ~(stopped # {} /\ t = owner["registry"])
  BY <1>1, QuietOwner DEF IsQuiet
<1> HIDE DEF p
<1> QED
  BY <1>1, <1>3, <1>4, <1>5, PushNext

LEMMA CallbacksAre ==
    ASSUME Environment = {}, NEW kind \in VmKinds, NEW p \in Callbacks(kind)
    PROVE  /\ Part(p)
           /\ kind \in {"plain", "initialize"} => AllOuter(p) /\ ~Has(p, "events")
           /\ stopped # {} /\ kind \in {"redefine", "initialize"} => \A i \in 1..Len(p) : IsQuiet(p[i])
<1>1. CASE kind = "plain"
  <2>1. p = <<>>
    BY <1>1 DEF Callbacks
  <2> QED
    BY <1>1, <2>1, PartEmpty, NoneOuter
<1>2. CASE kind = "define"
  BY <1>2, PartEmpty, LoadParts DEF Callbacks
<1>3. CASE kind = "retransform"
  <2>1. Part(CaptureClass \o LoadClass)
    BY CacheParts, LoadParts, PartConcat
  <2> QED
    BY <1>3, <2>1, CacheParts DEF Callbacks
<1>4. CASE kind = "redefine"
  <2>1. p \in {<<>>, on_class_file_load} \/ (p = LoadClass /\ stopped = {})
    BY <1>4 DEF Callbacks, MayLoad
  <2>2. \A i \in 1..Len(on_class_file_load) : IsQuiet(on_class_file_load[i])
    <3> DEFINE e == <<>>
    <3>1. e \in Seq(Steps) /\ Len(e) = 0
      OBVIOUS
    <3> HIDE DEF e
    <3> SUFFICES ASSUME NEW i \in 1..Len(Holding("cache", e)) PROVE IsQuiet(Holding("cache", e)[i])
      BY DEF on_class_file_load, e
    <3>2. Holding("cache", e)[i] = <<"lock", "cache">> \/ Holding("cache", e)[i] = <<"unlock", "cache">>
      <4>1. ~\E j \in 1..Len(e) : Holding("cache", e)[i] = e[j]
        BY <3>1
      <4> QED
        BY <3>1, <4>1, AllHolding, LocksAre
    <3> QED
      BY <3>2 DEF IsQuiet
  <2>3. \A i \in 1..Len(<<>>) : IsQuiet(<<>>[i])
    OBVIOUS
  <2> QED
    BY <1>4, <2>1, <2>2, <2>3, PartEmpty, CacheParts, LoadParts
<1>5. CASE kind = "initialize"
  <2>1. p = <<>> \/ (p = LoadInner /\ stopped = {})
    BY <1>5 DEF Callbacks, MayLoad
  <2>2. \A i \in 1..Len(<<>>) : IsQuiet(<<>>[i])
    OBVIOUS
  <2> QED
    BY <1>5, <2>1, <2>2, PartEmpty, NoneOuter, LoadParts, LoadsOuter
<1> QED
  BY <1>1, <1>2, <1>3, <1>4, <1>5 DEF VmKinds

LEMMA EnterNext ==
    ASSUME LockInv, Environment = {}, NEW t \in Threads, EnterVMStep(t)
    PROVE  LockInv'
<1> DEFINE s == todo[t]
           h == Holds(t)
           kind == Head(s)[2]
<1>1. PICK p \in Callbacks(kind) : Instead(t, p)
  BY DEF EnterVMStep
<1>2. /\ s # <<>> /\ Head(s)[1] = "vm"
      /\ UNCHANGED <<owner, depth, stopped, initialized, released, can_suspend, calls, inits>>
  BY DEF EnterVMStep, Is
<1>3. TypeOK /\ Shape(s, h, Was, released) /\ h \in [Locks -> Nat]
  BY HoldsType DEF LockInv, Shapes
<1>4. kind \in VmKinds /\ (h["registry"] = 0 => kind \in {"plain", "initialize"})
  BY <1>2, <1>3, ShapeEnters DEF VmKinds
<1>5. ASSUME stopped # {}, t = owner["registry"] PROVE kind \in {"redefine", "initialize"}
  BY <1>2, <1>5, QuietOwner DEF IsQuiet
<1> HIDE DEF kind
<1>6. /\ Part(p) /\ (h["registry"] = 0 => AllOuter(p) /\ ~Has(p, "events"))
      /\ stopped # {} /\ t = owner["registry"] => \A i \in 1..Len(p) : IsQuiet(p[i])
  BY <1>4, <1>5, CallbacksAre
<1> QED
  BY <1>1, <1>2, <1>6, PushNext

LEMMA SetNext ==
    ASSUME LockInv, NEW t \in Threads, SetInitialized(t)
    PROVE  LockInv'
<1> DEFINE s == todo[t]
           h == Holds(t)
           k == Head(s)[1]
<1>1. /\ s # <<>> /\ k \in {"initialize", "release"}
      /\ todo' = [todo EXCEPT ![t] = Tail(s)]
      /\ UNCHANGED <<owner, depth, stopped, can_suspend, calls, inits>>
      /\ k = "initialize" => initialized' = TRUE /\ released' = released
      /\ k = "release" => initialized' = FALSE /\ released' = TRUE
  BY DEF SetInitialized, Is, Done
<1>2. TypeOK /\ Shapes /\ StoppedByOwner /\ OneSession /\ Shape(s, h, Was, released) /\ h \in [Locks -> Nat]
  BY HoldsType DEF LockInv, Shapes
<1>3. /\ s \in Seq(Steps) /\ Head(s) = s[1] /\ Shape(Tail(s), h, Was, released)
      /\ Len(s) = 2 /\ s[2][1] = "unlock"
  BY <1>1, <1>2, ShapeMark
<1>4. Has(s, k) /\ \A j \in {"initialize", "release"} : ~Has(Tail(s), j)
  <2>1. Len(Tail(s)) = 1 /\ Tail(s)[1] = s[2] /\ 1 \in 1..Len(s)
    <3>1. /\ Len(Tail(s)) = Len(s) - 1 /\ \A i \in 1..(Len(s) - 1) : Tail(s)[i] = s[i + 1]
      BY <1>1, <1>3, StepsTail
    <3> QED
      BY <1>3, <3>1
  <2> QED
    BY <1>3, <2>1 DEF Has
<1>5. TypeOK'
  BY <1>1, <1>2 DEF TypeOK
<1>6. (Was => Was') /\ (released => released')
  BY <1>1, <1>2 DEF Was, TypeOK
<1>7. \A u \in Threads : Holds(u)' = Holds(u)
  BY <1>1 DEF Holds
<1>8. Shapes'
  <2>1. Shape(Tail(s), Holds(t)', Was', released')
    BY <1>3, <1>6, <1>7, ShapeGrows
  <2> QED
    BY <1>1, <1>2, <1>6, <1>7, <2>1, ShapesFrame, Zenon
<1>9. StoppedByOwner'
  <2>1. ~(stopped # {} /\ t = owner["registry"])
    BY <1>1, QuietOwner DEF IsQuiet
  <2> QED
    BY <1>1, <1>2, <2>1, StopFrame
<1>10. OneSession'
  <2>1. ASSUME NEW u \in Threads, NEW j \in {"initialize", "release"}, Has(todo'[u], j)
        PROVE  u # t /\ Has(todo[u], j)
    BY <1>1, <1>2, <1>4, <2>1 DEF TypeOK
  <2>2. inits' > 0
    BY <1>1, <1>2, <1>4 DEF OneSession
  <2>3. released' => ~initialized'
    BY <1>1, <1>2, <1>4 DEF OneSession
  <2>4. ASSUME NEW u \in Threads PROVE ~Has(todo'[u], "initialize")
    <3> SUFFICES ASSUME Has(todo'[u], "initialize") PROVE FALSE
      OBVIOUS
    <3>1. u # t /\ Has(todo[u], "initialize")
      BY <2>1
    <3> QED
      BY <1>1, <1>2, <1>4, <3>1 DEF OneSession
  <2> QED
    BY <2>2, <2>3, <2>4 DEF OneSession
<1> QED
  BY <1>5, <1>8, <1>9, <1>10 DEF LockInv

LEMMA CheckNext ==
    ASSUME LockInv, NEW t \in Threads, lock_if_initialized(t)
    PROVE  LockInv'
<1> DEFINE s == todo[t]
           h == Holds(t)
<1>1. /\ s # <<>> /\ Head(s)[1] = "check"
      /\ UNCHANGED <<owner, depth, stopped, initialized, released, can_suspend, calls, inits>>
      /\ Instead(t, IF initialized THEN Head(s)[2][1] \o <<UnlockRegistry>>
                                   ELSE <<UnlockRegistry>> \o Head(s)[2][2])
  BY DEF lock_if_initialized, Is, UnlockRegistry
<1>2. TypeOK /\ Shapes /\ StoppedByOwner /\ OneSession /\ Shape(s, h, Was, released) /\ h \in [Locks -> Nat]
  BY HoldsType DEF LockInv, Shapes
<1>3. PICK b, o :
          /\ Head(s)[2] = <<b, o>> /\ Tail(s) = <<>> /\ s = <<<<"check", <<b, o>>>>>>
          /\ h["registry"] = 1 /\ Body(b) /\ Outside(o, NoLocks, Was)
          /\ Shape(b \o <<UnlockRegistry>>, h, Was, released)
          /\ (Was => released) => Shape(<<UnlockRegistry>> \o o, h, Was, released)
  <2> HIDE DEF s, h
  <2>1. s # <<>> /\ Head(s)[1] = "check" /\ Shape(s, h, Was, released) /\ h \in [Locks -> Nat]
    BY <1>1, <1>2
  <2> QED
    BY <2>1, ShapeCheck
<1> DEFINE x == IF initialized THEN b \o <<UnlockRegistry>> ELSE <<UnlockRegistry>> \o o
<1>4. UnlockRegistry \in Steps /\ UnlockRegistry[1] = "unlock"
  BY DEF UnlockRegistry, Steps, StepKinds, Locks
<1>5. b \in Seq(Steps) /\ o \in Seq(Steps) /\ <<UnlockRegistry>> \in Seq(Steps)
  BY <1>3, <1>4, StepsOne DEF Body, Whole, Complete, Outside
<1>6. x \in Seq(Steps)
  BY <1>5, StepsConcat
<1>7. Shape(x, h, Was, released)
  BY <1>2, <1>3 DEF TypeOK, Was
<1>8. todo' = [todo EXCEPT ![t] = x]
  <2>1. Head(s)[2][1] = b /\ Head(s)[2][2] = o
    BY <1>3
  <2>2. Instead(t, x)
    BY <1>1, <2>1
  <2>3. x \o Tail(s) = x
    BY <1>3, <1>6
  <2> QED
    BY <2>2, <2>3 DEF Instead
<1>9. ASSUME NEW k \in {"initialize", "release"}, Has(x, k) PROVE initialized /\ k = "release"
  <2>1. \A j \in {"initialize", "release"} : ~Has(<<UnlockRegistry>>, j) /\ ~Has(o, j)
    BY <1>3, <1>4, StepsOne DEF Has, Outside, IsOuter
  <2>2. ~Has(b, "initialize")
    BY <1>3 DEF Body
  <2> QED
    BY <1>5, <1>9, <2>1, <2>2, HasConcat
<1> HIDE DEF x
<1>10. TypeOK'
  BY <1>1, <1>2, <1>8 DEF TypeOK
<1>11. Shapes'
  <2>1. Was' = Was /\ released' = released /\ (Was => Was') /\ (released => released')
    BY <1>1 DEF Was
  <2>2. \A u \in Threads : Holds(u)' = Holds(u)
    BY <1>1 DEF Holds
  <2>3. Shape(x, Holds(t)', Was', released')
    BY <1>7, <2>1, <2>2
  <2> QED
    BY <1>2, <1>8, <2>1, <2>2, <2>3, ShapesFrame, Zenon
<1>12. StoppedByOwner'
  <2>1. ~(stopped # {} /\ t = owner["registry"])
    BY <1>1, QuietOwner DEF IsQuiet
  <2> QED
    BY <1>1, <1>2, <1>8, <2>1, StopFrame
<1>13. OneSession'
  <2>1. CASE initialized
    <3>1. inits > 0 /\ ~released
      BY <1>2, <2>1 DEF OneSession
    <3>2. ASSUME NEW u \in Threads PROVE ~Has(todo'[u], "initialize")
      <4>1. ~Has(todo[u], "initialize")
        BY <1>2, <2>1 DEF OneSession
      <4>2. CASE u = t
        BY <1>2, <1>8, <1>9, <4>2 DEF TypeOK
      <4>3. CASE u # t
        BY <1>8, <4>1, <4>3
      <4> QED
        BY <4>2, <4>3
    <3> QED
      BY <1>1, <3>1, <3>2 DEF OneSession
  <2>2. CASE ~initialized
    BY <1>1, <1>2, <1>8, <1>9, <2>2, SessionFrame
  <2> QED
    BY <2>1, <2>2
<1> QED
  BY <1>10, <1>11, <1>12, <1>13 DEF LockInv

LEMMA ShapeIdle ==
    ASSUME NEW h, NEW was, NEW ever, Shape(<<>>, h, was, ever)
    PROVE  h["registry"] = 0 /\ Free(h)
<1>1. ~Coming(<<>>, h, was, ever)
  BY ComingHead
<1>2. ~Owning(<<>>, h, was, ever)
  BY CheckIs DEF Owning, Inside, Checking, Leaving
<1>3. h["registry"] = 0 /\ Outside(<<>>, h, ever)
  BY <1>1, <1>2 DEF Shape
<1>4. h["cache"] = 0 /\ h["watch"] = 0 /\ h["class"] = 0
  BY <1>3, BalanceNone DEF Outside
<1> QED
  BY <1>3, <1>4 DEF Free, InnerLocks

LEMMA CallNext ==
    ASSUME LockInv, NEW t \in Threads, NEW steps, Call(t, steps), inits' \in 0..MaxInits,
           \A h \in [Locks -> Nat] :
               h["registry"] = 0 /\ Free(h) => Shape(steps, h, Was, released)
    PROVE  /\ TypeOK' /\ Shapes' /\ StoppedByOwner' /\ todo' = [todo EXCEPT ![t] = steps]
           /\ UNCHANGED <<initialized, released>> /\ todo[t] = <<>>
<1> DEFINE h == Holds(t)
<1>1. /\ todo[t] = <<>> /\ t \notin stopped /\ calls < MaxCalls /\ calls' = calls + 1
      /\ todo' = [todo EXCEPT ![t] = steps]
      /\ UNCHANGED <<owner, depth, stopped, initialized, released, can_suspend>>
  BY DEF Call
<1>2. TypeOK /\ Shapes /\ StoppedByOwner /\ Shape(<<>>, h, Was, released) /\ h \in [Locks -> Nat]
  BY <1>1, HoldsType DEF LockInv, Shapes
<1>3. Shape(steps, h, Was, released)
  BY <1>2, ShapeIdle
<1>4. TypeOK'
  BY <1>1, <1>2, LockOrderAssumption DEF TypeOK
<1>5. Shapes'
  <2>1. Was' = Was /\ released' = released /\ (Was => Was') /\ (released => released')
    BY <1>1 DEF Was
  <2>2. \A u \in Threads : Holds(u)' = Holds(u)
    BY <1>1 DEF Holds
  <2>3. Shape(steps, Holds(t)', Was', released')
    BY <1>3, <2>1, <2>2
  <2> QED
    BY <1>1, <1>2, <2>1, <2>2, <2>3, ShapesFrame, Zenon
<1>6. StoppedByOwner'
  <2>1. ~(stopped # {} /\ t = owner["registry"])
    BY <1>1, QuietOwner
  <2> QED
    BY <1>1, <1>2, <2>1, StopFrame
<1> QED
  BY <1>1, <1>4, <1>5, <1>6

LEMMA HoldingTail ==
    ASSUME NEW k \in Locks, NEW s \in Seq(Steps)
    PROVE  /\ Holding(k, s) \in Seq(Steps) /\ Holding(k, s) # <<>> /\ Holding(k, s)[1] = <<"lock", k>>
           /\ Tail(Holding(k, s)) = s \o <<<<"unlock", k>>>>
<1> DEFINE z == <<"unlock", k>>
           w == Holding(k, s)
           v == s \o <<z>>
<1>1. z \in Steps
  BY DEF Steps, StepKinds
<1>2. /\ w \in Seq(Steps) /\ Len(w) = Len(s) + 2 /\ Len(s) \in Nat
      /\ w[1] = <<"lock", k>> /\ w[Len(s) + 2] = z
      /\ \A i \in 1..Len(s) : w[i + 1] = s[i]
  BY HoldingAt
<1> HIDE DEF z
<1>3. /\ v \in Seq(Steps) /\ Len(v) = Len(s) + 1 /\ \A i \in 1..Len(s) : v[i] = s[i]
      /\ v[Len(s) + 1] = z
  <2>1. <<z>> \in Seq(Steps) /\ Len(<<z>>) = 1 /\ <<z>>[1] = z
    BY <1>1, StepsOne
  <2> QED
    BY <2>1, StepsConcat
<1> HIDE DEF w, v
<1>4. w # <<>>
  BY <1>2
<1>5. /\ Tail(w) \in Seq(Steps) /\ Len(Tail(w)) = Len(v)
      /\ \A i \in 1..(Len(s) + 1) : Tail(w)[i] = w[i + 1]
  BY <1>2, <1>3, <1>4, StepsTail
<1>6. ASSUME NEW i \in 1..Len(v) PROVE Tail(w)[i] = v[i]
  <2>1. i \in 1..Len(s) \/ i = Len(s) + 1
    BY <1>2, <1>3
  <2>2. CASE i \in 1..Len(s)
    BY <1>2, <1>3, <1>5, <2>2
  <2>3. CASE i = Len(s) + 1
    <3>1. Tail(w)[i] = w[i + 1] /\ i + 1 = Len(s) + 2
      BY <1>2, <1>5, <2>3
    <3> QED
      BY <1>2, <1>3, <2>3, <3>1
  <2> QED
    BY <2>1, <2>2, <2>3
<1>7. Tail(w) = v
  BY <1>3, <1>5, <1>6
<1> QED
  BY <1>2, <1>4, <1>7 DEF w, v, z

LEMMA InitNext ==
    ASSUME LockInv, MaxInits <= 1, NEW t \in Threads, JNI2Hook_Init(t)
    PROVE  LockInv'
<1> DEFINE w == Plain \o class_cache_start \o <<<<"initialize", "">>>>
           s == Holding("registry", w)
<1>1. inits < MaxInits /\ inits' = inits + 1 /\ Call(t, s)
  BY DEF JNI2Hook_Init
<1>2. Whole(w) /\ ~Has(w, "release")
  BY InitWhole
<1> HIDE DEF w
<1>3. w \in Seq(Steps)
  BY <1>2 DEF Whole, Complete
<1>4. /\ s \in Seq(Steps) /\ s # <<>> /\ s[1][1] = "lock" /\ s[1][2] = "registry"
      /\ Tail(s) = w \o <<UnlockRegistry>>
  BY <1>3, HoldingTail, LocksAre DEF UnlockRegistry
<1> HIDE DEF s
<1>5. ASSUME NEW h \in [Locks -> Nat], h["registry"] = 0, Free(h) PROVE Shape(s, h, Was, released)
  BY <1>2, <1>4, <1>5, WholeInside DEF Shape, Coming, First
<1>6. inits = 0 /\ inits' = 1 /\ inits' \in 0..MaxInits
  BY <1>1, LockOrderAssumption DEF LockInv, TypeOK
<1>7. /\ TypeOK' /\ Shapes' /\ StoppedByOwner' /\ todo' = [todo EXCEPT ![t] = s]
      /\ UNCHANGED <<initialized, released>>
  BY <1>1, <1>5, <1>6, CallNext
<1>8. ~initialized /\ ~released /\ \A u \in Threads : ~Has(todo[u], "initialize") /\ ~Has(todo[u], "release")
  BY <1>6 DEF LockInv, OneSession
<1>9. ~Has(s, "release")
  <2> SUFFICES ASSUME NEW i \in 1..Len(Holding("registry", w)), Holding("registry", w)[i][1] = "release"
               PROVE  FALSE
    BY DEF Has, s
  <2>1. \E j \in 1..Len(w) : w[j][1] = "release"
    BY <1>3, AllHolding, LocksAre
  <2> QED
    BY <1>2, <2>1 DEF Has
<1>10. OneSession'
  <2>1. ASSUME NEW u \in Threads
        PROVE  ~Has(todo'[u], "release") /\ (Has(todo'[u], "initialize") => u = t)
    BY <1>7, <1>8, <1>9 DEF LockInv, TypeOK
  <2> QED
    BY <1>6, <1>7, <1>8, <2>1 DEF OneSession
<1> QED
  BY <1>7, <1>10 DEF LockInv

\* A call that marks nothing itself.
LEMMA PlainCallNext ==
    ASSUME LockInv, NEW t \in Threads, NEW steps, Call(t, steps), UNCHANGED inits,
           ~Has(steps, "initialize"), ~Has(steps, "release"),
           \A h \in [Locks -> Nat] :
               h["registry"] = 0 /\ Free(h) => Shape(steps, h, Was, released)
    PROVE  LockInv'
<1>1. TypeOK /\ OneSession /\ inits' \in 0..MaxInits
  BY DEF LockInv, TypeOK
<1>2. /\ TypeOK' /\ Shapes' /\ StoppedByOwner' /\ todo' = [todo EXCEPT ![t] = steps]
      /\ UNCHANGED <<initialized, released>>
  BY <1>1, CallNext
<1>3. OneSession'
  BY <1>1, <1>2, SessionFrame
<1> QED
  BY <1>2, <1>3 DEF LockInv

LEMMA GuardedNext ==
    ASSUME LockInv, NEW t \in Threads, NEW b, NEW o, Call(t, Guarded(b, o)), UNCHANGED inits,
           Body(b), Outside(o, NoLocks, Was)
    PROVE  LockInv'
<1>1. ASSUME NEW h \in [Locks -> Nat], h["registry"] = 0, Free(h)
      PROVE  Shape(Guarded(b, o), h, Was, released)
  BY <1>1 DEF Shape, Coming
<1>2. ~Has(Guarded(b, o), "initialize") /\ ~Has(Guarded(b, o), "release")
  BY GuardedIs
<1> QED
  BY <1>1, <1>2, PlainCallNext

LEMMA NoLocksFree == Free(NoLocks)
  BY NoLocksAre DEF Free

LEMMA CallLibraryNext ==
    ASSUME LockInv, NEW t \in Threads, CallLibrary(t)
    PROVE  LockInv'
<1>1. PICK b \in Bodies : Call(t, Guarded(b, <<>>))
  BY DEF CallLibrary
<1>2. Body(b) /\ Outside(<<>>, NoLocks, Was)
  BY BodiesAre, OutsideNone, NoLocksFree
<1>3. UNCHANGED inits
  BY DEF CallLibrary
<1> QED
  BY <1>1, <1>2, <1>3, GuardedNext

LEMMA DestroyNext ==
    ASSUME LockInv, NEW t \in Threads, JNI2Hook_DestroyMethodWatch(t)
    PROVE  LockInv'
<1>1. PICK isLast \in BOOLEAN :
          Call(t, IF initialized THEN Guarded(class_watch_destroy(isLast), class_watch_destroy(isLast))
                                 ELSE class_watch_destroy(isLast))
  BY DEF JNI2Hook_DestroyMethodWatch
<1> DEFINE d == class_watch_destroy(isLast)
<1>2. UNCHANGED inits /\ (initialized \/ released)
  BY DEF JNI2Hook_DestroyMethodWatch
<1>3. Part(d) /\ AllOuter(d)
  BY WatchParts, DestroyOuter
<1> HIDE DEF d
<1>4. CASE initialized
  <2>1. Was
    BY <1>4 DEF Was
  <2>2. Body(d) /\ Outside(d, NoLocks, Was)
    BY <1>3, <2>1, PartIsBody, PartOutside, NoLocksFree
  <2>3. Call(t, Guarded(d, d))
    BY <1>1, <1>4 DEF d
  <2> QED
    BY <1>2, <2>2, <2>3, GuardedNext
<1>5. CASE ~initialized
  <2>1. released
    BY <1>2, <1>5
  <2>2. ASSUME NEW h \in [Locks -> Nat], h["registry"] = 0, Free(h)
        PROVE  Shape(d, h, Was, released)
    BY <1>3, <2>1, <2>2, PartOutside DEF Shape
  <2>3. Call(t, d)
    BY <1>1, <1>5 DEF d
  <2>4. ~Has(d, "initialize") /\ ~Has(d, "release")
    BY <1>3, PartIsBody
  <2> QED
    BY <1>2, <2>2, <2>3, <2>4, PlainCallNext
<1> QED
  BY <1>4, <1>5

\* A class that is being initialised: its lock is taken first, and given last.
LEMMA ClassShape ==
    ASSUME NEW h \in [Locks -> Nat], h["registry"] = 0, Free(h), NEW was, NEW ever
    PROVE  Shape(Holding("class", LoadInner), h, was, ever)
<1> DEFINE z == <<"unlock", "class">>
           s == Holding("class", LoadInner)
           g == [h EXCEPT !["class"] = 1]
<1>1. Part(LoadInner) /\ AllOuter(LoadInner) /\ ~Has(LoadInner, "events") /\ LoadInner \in Seq(Steps)
  BY LoadParts, LoadsOuter DEF Part, Complete
<1>2. s \in Seq(Steps) /\ s # <<>> /\ s[1] = <<"lock", "class">> /\ Tail(s) = LoadInner \o <<z>>
  BY <1>1, HoldingTail, LocksAre
<1>3. z \in Steps /\ z[1] = "unlock" /\ z[2] = "class"
  BY DEF Steps, StepKinds, Locks
<1>4. g \in [Locks -> Nat] /\ g["class"] = 1 /\ g["cache"] = 0 /\ g["watch"] = 0
  BY LocksAre DEF Free
<1> HIDE DEF z, s, g
<1>5. <<z>> \in Seq(Steps) /\ Len(<<z>>) = 1 /\ <<z>>[1] = z
  BY <1>3, StepsOne
<1>6. Balances(<<z>>, "watch", 0)
  BY <1>3, DeltaStep, BalanceOne
<1>7. Balances(<<z>>, "class", 1)
  <2> DEFINE d == [i \in 1..2 |-> 2 - i]
  <2>1. d \in [1..(Len(<<z>>) + 1) -> Nat] /\ d[1] = 1 /\ d[Len(<<z>>) + 1] = 0
    BY <1>5
  <2>2. Delta(<<z>>[1], "class") = -1
    BY <1>3, <1>5, DeltaStep
  <2>3. \A i \in 1..Len(<<z>>) : d[i + 1] = d[i] + Delta(<<z>>[i], "class")
    BY <1>5, <2>2
  <2> HIDE DEF d
  <2> QED
    BY <2>1, <2>3 DEF Balances
<1>8. Outside(<<z>>, g, ever)
  BY <1>3, <1>4, <1>5, <1>6, <1>7 DEF Outside, IsOuter, Has
<1>9. Outside(Tail(s), g, ever)
  BY <1>1, <1>2, <1>4, <1>8, OutsideConcat
<1>10. First(s, "class")
  BY <1>2 DEF First
<1> QED
  BY <1>9, <1>10 DEF Shape, Coming, s, g

LEMMA LoaderNext ==
    ASSUME LockInv, NEW t \in Threads, LoaderRuns(t)
    PROVE  LockInv'
<1>1. PICK steps \in {LoadClass, on_class_file_load, Holding("class", LoadInner)} : Call(t, steps)
  BY DEF LoaderRuns
<1>2. UNCHANGED inits
  BY DEF LoaderRuns
<1>3. CASE steps = LoadClass
  <2>1. ~Has(steps, "initialize") /\ ~Has(steps, "release")
    BY <1>3, LoadParts, PartIsBody
  <2>2. ASSUME NEW h \in [Locks -> Nat], h["registry"] = 0, Free(h) PROVE Shape(steps, h, Was, released)
    BY <1>3, <2>2, LoadParts, LoadsOuter, PartOutside DEF Shape
  <2> QED
    BY <1>1, <1>2, <2>1, <2>2, PlainCallNext
<1>4. CASE steps = on_class_file_load
  <2>1. ~Has(steps, "initialize") /\ ~Has(steps, "release")
    BY <1>4, CacheParts, PartIsBody
  <2>2. ASSUME NEW h \in [Locks -> Nat], h["registry"] = 0, Free(h) PROVE Shape(steps, h, Was, released)
    BY <1>4, <2>2 DEF Shape, Coming
  <2> QED
    BY <1>1, <1>2, <2>1, <2>2, PlainCallNext
<1>5. CASE steps = Holding("class", LoadInner)
  <2>1. ASSUME NEW k \in {"initialize", "release"} PROVE ~Has(Holding("class", LoadInner), k)
    <3>1. ~Has(LoadInner, k) /\ LoadInner \in Seq(Steps)
      BY LoadParts, PartIsBody DEF Part, Complete
    <3> SUFFICES ASSUME NEW i \in 1..Len(Holding("class", LoadInner)), Holding("class", LoadInner)[i][1] = k
                 PROVE  FALSE
      BY DEF Has
    <3>2. \E j \in 1..Len(LoadInner) : LoadInner[j][1] = k
      BY <3>1, AllHolding, LocksAre
    <3> QED
      BY <3>1, <3>2 DEF Has
  <2>2. ASSUME NEW h \in [Locks -> Nat], h["registry"] = 0, Free(h) PROVE Shape(steps, h, Was, released)
    BY <1>5, <2>2, ClassShape
  <2>3. ~Has(steps, "initialize") /\ ~Has(steps, "release")
    BY <1>5, <2>1
  <2> QED
    BY <1>1, <1>2, <2>2, <2>3, PlainCallNext
<1> QED
  BY <1>3, <1>4, <1>5

LEMMA LockInvInit == Init => LockInv
<1> SUFFICES ASSUME Init PROVE LockInv
  OBVIOUS
<1>1. TypeOK
  <2>1. 0 \in 0..MaxCalls /\ 0 \in 0..MaxInits
    BY LockOrderAssumption
  <2>2. \A l \in Locks : depth[l] = 0 <=> owner[l] = Nobody
    BY DEF Init
  <2>3. owner \in [Locks -> Threads \union {Nobody}] /\ depth \in [Locks -> Nat]
    BY DEF Init
  <2> QED
    BY <2>1, <2>2, <2>3 DEF Init, TypeOK
<1>2. Shapes
  <2> SUFFICES ASSUME NEW t \in Threads PROVE Shape(<<>>, Holds(t), Was, released)
    BY DEF Init, Shapes
  <2>1. \A l \in Locks : Holds(t)[l] = 0
    BY DEF Init, Holds
  <2>2. Holds(t)["registry"] = 0 /\ Free(Holds(t))
    BY <2>1, LocksAre DEF Free
  <2> QED
    BY <2>2, OutsideNone DEF Shape
<1>3. StoppedByOwner
  BY DEF Init, StoppedByOwner
<1>4. OneSession
  BY NoneOuter DEF Init, OneSession
<1> QED
  BY <1>1, <1>2, <1>3, <1>4 DEF LockInv

LEMMA LockInvNext ==
    ASSUME MaxInits <= 1, Environment = {}, LockInv, [Next]_vars
    PROVE  LockInv'
<1>1. CASE UNCHANGED vars
  BY <1>1 DEF vars, LockInv, TypeOK, Shapes, Holds, Was, StoppedByOwner, OneSession
<1>2. ASSUME NEW t \in Threads, Step(t) PROVE LockInv'
  BY <1>2, LockNext, UnlockNext, CheckNext, SetNext, EventsNext, EnterNext, SuspendNext DEF Step
<1>3. ASSUME NEW t \in Callers, JNI2Hook_Init(t) \/ CallLibrary(t) \/ JNI2Hook_DestroyMethodWatch(t)
      PROVE  LockInv'
  <2>1. t \in Threads
    BY DEF Threads
  <2> QED
    BY <1>3, <2>1, InitNext, CallLibraryNext, DestroyNext
<1>4. ASSUME NEW t \in Loaders, LoaderRuns(t) PROVE LockInv'
  <2>1. t \in Threads
    BY DEF Threads
  <2> QED
    BY <1>4, <2>1, LoaderNext
<1> QED
  BY <1>1, <1>2, <1>3, <1>4 DEF Next

-----------------------------------------------------------------------------
(* Who waits for whom *)

LEMMA ShapeOf ==
    ASSUME LockInv, NEW t \in Threads
    PROVE  /\ Shape(todo[t], Holds(t), Was, released) /\ Holds(t) \in [Locks -> Nat] /\ t # Nobody
           /\ \A l \in Locks : Holds(t)[l] # 0 <=> owner[l] = t
  BY HoldsType DEF LockInv, Shapes

\* The registry lock is the first that a call takes.
LEMMA RegistryOwnerWaits ==
    ASSUME LockInv, NEW t \in Threads, owner["registry"] = t, Is(t, "lock")
    PROVE  Head(todo[t])[2] \in {"cache", "watch"}
<1> DEFINE s == todo[t]
           h == Holds(t)
<1>1. Shape(s, h, Was, released) /\ h["registry"] # 0 /\ s # <<>> /\ Head(s)[1] = "lock"
  BY ShapeOf, LocksAre DEF Is
<1>2. Owning(s, h, Was, released)
  BY <1>1 DEF Shape
<1>3. ~Checking(s, Was)
  BY <1>1, CheckIs DEF Checking
<1>4. ~Leaving(s, h, released)
  BY <1>1, StepsTail DEF Leaving
<1>5. Inside(s)
  BY <1>2, <1>3, <1>4 DEF Owning
<1>6. Head(s) = s[1] /\ IsInner(s[1])
  BY <1>1, <1>5, InsideTail
<1> QED
  BY <1>1, <1>6 DEF IsInner

\* Without the registry lock, whoever has the cache lock gives it back at once.
LEMMA CacheOwnerGoesOn ==
    ASSUME LockInv, NEW t \in Threads, owner["cache"] = t, owner["registry"] # t
    PROVE  todo[t] = <<<<"unlock", "cache">>>>
<1>1. Shape(todo[t], Holds(t), Was, released) /\ Holds(t)["cache"] # 0 /\ Holds(t)["registry"] = 0
  BY ShapeOf, LocksAre
<1> QED
  BY <1>1, LocksAre DEF Shape, Free, Outside

\* Without the registry lock, whoever has the watch lock or a class waits for
\* no other lock than the watch lock.
LEMMA OuterOwnerWaits ==
    ASSUME LockInv, NEW t \in Threads, NEW l \in {"watch", "class"}, owner[l] = t,
           owner["registry"] # t, Is(t, "lock")
    PROVE  Head(todo[t])[2] = "watch"
<1> DEFINE s == todo[t]
           h == Holds(t)
<1>1. Shape(s, h, Was, released) /\ h[l] # 0 /\ h["registry"] = 0 /\ s # <<>> /\ Head(s)[1] = "lock"
  BY ShapeOf, LocksAre DEF Is
<1>2. ~Free(h) /\ ~(h["watch"] = 0 /\ h["class"] = 0)
  BY <1>1, LocksAre DEF Free
<1>3. Outside(s, h, released)
  BY <1>1, <1>2 DEF Shape
<1>4. s \in Seq(Steps)
  BY <1>3 DEF Outside
<1>5. s[1] = Head(s) /\ 1 \in 1..Len(s)
  BY <1>1, <1>4, StepsTail
<1>6. IsOuter(s[1])
  BY <1>3, <1>5 DEF Outside
<1> QED
  BY <1>1, <1>5, <1>6 DEF IsOuter

LEMMA ParkedIsNotOwner ==
    ASSUME LockInv, NEW t \in Threads, IsParked(t)
    PROVE  owner["registry"] # t /\ owner["cache"] # t
<1>1. t \in stopped /\ (todo[t] = <<>> \/ Head(todo[t])[1] \in {"vm", "suspend", "resume"})
  BY DEF IsParked
<1>2. owner["registry"] # t
  BY <1>1 DEF LockInv, StoppedByOwner
<1>3. owner["cache"] # t
  <2> SUFFICES ASSUME owner["cache"] = t PROVE FALSE
    OBVIOUS
  <2>1. todo[t] = <<<<"unlock", "cache">>>>
    BY <1>2, CacheOwnerGoesOn
  <2>2. todo[t] # <<>> /\ Head(todo[t])[1] = "unlock"
    BY <2>1
  <2> QED
    BY <1>1, <2>2
<1> QED
  BY <1>2, <1>3

LEMMA NoRing ==
    ASSUME LockInv, NEW ring \in SUBSET Threads, ring # {},
           \A t \in ring : \E u \in ring : WaitsFor(t, u)
    PROVE  FALSE
\* The owner of the cache lock, unless it has the registry lock too.
<1>1. ASSUME NEW c \in ring, owner["cache"] = c PROVE owner["registry"] = c
  <2> SUFFICES ASSUME owner["registry"] # c PROVE FALSE
    OBVIOUS
  <2>1. todo[c] = <<<<"unlock", "cache">>>>
    BY <1>1, CacheOwnerGoesOn
  <2>2. todo[c] # <<>> /\ Head(todo[c])[1] = "unlock"
    BY <2>1
  <2> QED
    BY <2>2 DEF WaitsFor, Is, IsParked
\* The owner of the watch lock.
<1>2. ASSUME NEW w \in ring, owner["watch"] = w, owner["registry"] # w
      PROVE  IsParked(w) /\ ~Is(w, "lock")
  <2>1. ASSUME Is(w, "lock") PROVE FALSE
    <3>1. Head(todo[w])[2] = "watch"
      BY <1>2, <2>1, OuterOwnerWaits
    <3>2. ~IsParked(w)
      BY <2>1 DEF Is, IsParked
    <3> QED
      BY <1>2, <3>1, <3>2 DEF WaitsFor
  <2> QED
    BY <2>1 DEF WaitsFor
\* The owner of the registry lock.
<1>3. ASSUME NEW r \in ring, owner["registry"] = r PROVE FALSE
  <2>1. ~IsParked(r)
    BY <1>3, ParkedIsNotOwner
  <2>2. PICK u \in ring : Is(r, "lock") /\ owner[Head(todo[r])[2]] = u /\ u # r
    BY <2>1 DEF WaitsFor
  <2>3. Head(todo[r])[2] = "watch"
    BY <1>1, <1>3, <2>2, RegistryOwnerWaits
  <2>4. IsParked(u)
    BY <1>2, <1>3, <2>2, <2>3
  <2>5. stopped # {} /\ todo[r] # <<>> /\ Head(todo[r])[1] = "lock"
    BY <2>2, <2>4 DEF IsParked, Is
  <2> QED
    BY <1>3, <2>3, <2>5, QuietOwner DEF IsQuiet
\* Nobody in the circle is stopped, then: they all wait for a class.
<1>4. ASSUME NEW t \in ring PROVE Is(t, "lock") /\ Head(todo[t])[2] = "class" /\ owner["class"] \in ring
  <2>1. PICK u \in ring : WaitsFor(t, u)
    OBVIOUS
  <2>2. Is(t, "lock") /\ owner[Head(todo[t])[2]] = u
    BY <1>3, <2>1 DEF WaitsFor
  <2>3. Head(todo[t])[2] \in Locks
    BY <2>2, ShapeOf, ShapeLock DEF Is
  <2>4. ~IsParked(u)
    BY <1>3 DEF WaitsFor, IsParked, Is
  <2>5. Head(todo[t])[2] # "watch"
    BY <1>2, <1>3, <2>2, <2>4
  <2> QED
    BY <1>1, <1>3, <2>2, <2>3, <2>5 DEF Locks
<1>5. PICK t \in ring : TRUE
  OBVIOUS
<1>6. Is(owner["class"], "lock") /\ Head(todo[owner["class"]])[2] = "class" /\ owner["class"] \in ring
  BY <1>4
<1> QED
  BY <1>3, <1>6, OuterOwnerWaits

-----------------------------------------------------------------------------
(* The theorems *)

LEMMA LockInvHolds ==
    ASSUME MaxInits <= 1, Environment = {}
    PROVE  Spec => []LockInv
<1>1. LockInv /\ [Next]_vars => LockInv'
  BY LockInvNext
<1> QED
  BY <1>1, LockInvInit, PTL DEF Spec

\* Threads are stopped by a call that has the registry lock and is not stopped
\* itself, and nobody is stopped with the registry or the cache lock, which are
\* still to be taken before anybody is resumed: for any number of threads and
\* calls, in one session of the library.
THEOREM StoppedThreadsAreHarmless ==
    ASSUME MaxInits <= 1, Environment = {}
    PROVE  Spec => []StoppedThreadsHoldNoNeededLock
<1>1. LockInv => StoppedThreadsHoldNoNeededLock
  BY ParkedIsNotOwner DEF StoppedThreadsHoldNoNeededLock, LockInv, StoppedByOwner
<1> QED
  BY <1>1, LockInvHolds, PTL

\* No threads wait for one another in a circle, for any number of threads and
\* calls: the registry lock is taken before the others and keeps the two orders
\* of the cache and the watch lock apart, and nobody is stopped by a thread that
\* still has to take the watch lock.
THEOREM NoCircle ==
    ASSUME MaxInits <= 1, Environment = {}
    PROVE  Spec => []NobodyWaitsInACircle
<1>1. LockInv => NobodyWaitsInACircle
  BY NoRing DEF NobodyWaitsInACircle
<1> QED
  BY <1>1, LockInvHolds, PTL
=============================================================================
