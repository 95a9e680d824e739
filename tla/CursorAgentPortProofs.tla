------------------------- MODULE CursorAgentPortProofs -------------------------
(***************************************************************************)
(* The Cursor port leaves no process behind, drains its ledger, shares its *)
(* latch and keeps the chats of its sessions apart, for any number of      *)
(* commands, sessions and disconnects.                                     *)
(***************************************************************************)
EXTENDS CursorAgentPort, SequenceTheorems, FiniteSetTheorems, WellFoundedInduction, TLAPS

------------------------------------------------------------------------------
(* Induction over the natural numbers, for a set *)

LEMMA Least ==
    ASSUME NEW S \in SUBSET Nat, S # {}
    PROVE  \E n \in S : \A m \in S : n <= m
  <1> DEFINE T == {0..n : n \in S}
  <1>1. T \subseteq FiniteSubsetsOf(Nat)
    <2>1. \A n \in S : IsFiniteSet(0..n) /\ 0..n \subseteq Nat
      BY FS_Interval
    <2> QED
      BY <2>1 DEF FiniteSubsetsOf
  <1>2. PICK x \in T : \A y \in T : ~ (<<y, x>> \in StrictSubsetOrdering(Nat))
    <2>1. IsWellFoundedOn(StrictSubsetOrdering(Nat), FiniteSubsetsOf(Nat))
      BY FS_StrictSubsetOrderingWellFounded
    <2>2. T # {}
      OBVIOUS
    <2> HIDE DEF T
    <2> QED
      BY <1>1, <2>1, <2>2, WFMin
  <1>3. PICK n \in S : x = 0..n
    OBVIOUS
  <1>4. ASSUME NEW m \in S, m < n PROVE FALSE
    <2>1. 0..m \in T /\ 0..m \subseteq Nat /\ x \subseteq Nat
      BY <1>3
    <2>2. 0..m \subseteq x /\ n \in x /\ n \notin 0..m
      BY <1>3, <1>4
    <2> QED
      BY <1>2, <2>1, <2>2 DEF StrictSubsetOrdering
  <1> QED
    BY <1>4

LEMMA Induction ==
    ASSUME NEW S, 0 \in S, \A n \in Nat : n \in S => n + 1 \in S
    PROVE  Nat \subseteq S
  <1> SUFFICES ASSUME Nat \ S # {} PROVE FALSE
    OBVIOUS
  <1>1. PICK n \in Nat \ S : \A m \in Nat \ S : n <= m
    BY Least
  <1>2. n # 0 /\ n - 1 \in Nat
    BY <1>1
  <1> QED
    BY <1>1, <1>2
------------------------------------------------------------------------------
(* Queues: what is in them, and what precedes what *)

In(q, x)        == \E i \in 1..Len(q) : q[i] = x
Distinct(q)     == \A i, j \in 1..Len(q) : q[i] = q[j] => i = j
Before(q, x, y) == \E i, j \in 1..Len(q) : i < j /\ q[i] = x /\ q[j] = y

LEMMA QueueConcat ==
    ASSUME NEW S, NEW q \in Seq(S), NEW r \in Seq(S)
    PROVE  /\ q \o r \in Seq(S)
           /\ \A x : In(q \o r, x) <=> In(q, x) \/ In(r, x)
           /\ Distinct(q) /\ Distinct(r) /\ (\A x : ~(In(q, x) /\ In(r, x))) => Distinct(q \o r)
           /\ \A x, y : Before(q \o r, x, y) => Before(q, x, y) \/ In(r, y)
  <1> DEFINE p == q \o r  m == Len(q)  n == Len(r)
  <1>1. /\ p \in Seq(S) /\ m \in Nat /\ n \in Nat /\ Len(p) = m + n
        /\ \A i \in 1..m : p[i] = q[i]
        /\ \A i \in 1..n : p[m + i] = r[i]
    <2>1. \A i \in 1..(m + n) : p[i] = IF i <= m THEN q[i] ELSE r[i - m]
      BY ConcatProperties
    <2>2. p \in Seq(S) /\ m \in Nat /\ n \in Nat /\ Len(p) = m + n
      BY ConcatProperties, LenProperties
    <2> HIDE DEF p, m, n
    <2>3. \A i \in 1..m : p[i] = q[i]
      BY <2>1, <2>2
    <2>4. ASSUME NEW i \in 1..n PROVE p[m + i] = r[i]
      <3>1. m + i \in 1..(m + n) /\ ~(m + i <= m) /\ (m + i) - m = i
        BY <2>2
      <3> QED
        BY <2>1, <3>1
    <2> QED
      BY <2>2, <2>3, <2>4
  <1>2. \A i \in 1..Len(p) : i \in 1..m \/ (\E k \in 1..n : i = m + k)
    <2> HIDE DEF p, m, n
    <2> SUFFICES ASSUME NEW i \in 1..Len(p), i \notin 1..m PROVE i - m \in 1..n /\ i = m + (i - m)
      OBVIOUS
    <2> QED
      BY <1>1
  <1> HIDE DEF p
  <1>3. \A x : In(p, x) <=> In(q, x) \/ In(r, x)
    <2> SUFFICES ASSUME NEW x PROVE In(p, x) <=> In(q, x) \/ In(r, x)
      OBVIOUS
    <2>1. ASSUME In(p, x) PROVE In(q, x) \/ In(r, x)
      BY <1>1, <1>2, <2>1 DEF In
    <2>2. ASSUME In(q, x) PROVE In(p, x)
      BY <1>1, <2>2 DEF In
    <2>3. ASSUME In(r, x) PROVE In(p, x)
      <3>1. PICK k \in 1..n : r[k] = x
        BY <2>3 DEF In
      <3>2. m + k \in 1..Len(p) /\ p[m + k] = x
        BY <1>1, <3>1
      <3> QED
        BY <3>2 DEF In
    <2> QED
      BY <2>1, <2>2, <2>3
  <1>4. ASSUME Distinct(q), Distinct(r), \A x : ~(In(q, x) /\ In(r, x)) PROVE Distinct(p)
    <2> SUFFICES ASSUME NEW i \in 1..Len(p), NEW j \in 1..Len(p), p[i] = p[j] PROVE i = j
      BY DEF Distinct
    <2>1. CASE i \in 1..m /\ j \in 1..m
      BY <1>1, <1>4, <2>1 DEF Distinct
    <2>2. CASE i \notin 1..m /\ j \notin 1..m
      BY <1>1, <1>2, <1>4, <2>2 DEF Distinct
    <2>3. CASE i \in 1..m /\ j \notin 1..m
      <3>1. In(q, p[i]) /\ In(r, p[j])
        BY <1>1, <1>2, <2>3 DEF In
      <3> QED
        BY <1>4, <3>1
    <2>4. CASE i \notin 1..m /\ j \in 1..m
      <3>1. In(r, p[i]) /\ In(q, p[j])
        BY <1>1, <1>2, <2>4 DEF In
      <3> QED
        BY <1>4, <3>1
    <2> QED
      BY <2>1, <2>2, <2>3, <2>4
  <1>5. \A x, y : Before(p, x, y) => Before(q, x, y) \/ In(r, y)
    <2> SUFFICES ASSUME NEW x, NEW y, Before(p, x, y) PROVE Before(q, x, y) \/ In(r, y)
      OBVIOUS
    <2>1. PICK i \in 1..Len(p), j \in 1..Len(p) : i < j /\ p[i] = x /\ p[j] = y
      BY DEF Before
    <2>2. CASE j \in 1..m
      <3>1. i \in 1..m
        BY <1>1, <2>1, <2>2
      <3> QED
        BY <1>1, <2>1, <2>2, <3>1 DEF Before
    <2>3. CASE j \notin 1..m
      BY <1>1, <1>2, <2>1, <2>3 DEF In
    <2> QED
      BY <2>2, <2>3
  <1> QED
    BY <1>1, <1>3, <1>4, <1>5 DEF p

LEMMA QueueOne ==
    ASSUME NEW S, NEW e \in S
    PROVE  /\ <<e>> \in Seq(S)
           /\ \A x : In(<<e>>, x) <=> x = e
           /\ Distinct(<<e>>)
           /\ \A x, y : ~Before(<<e>>, x, y)
  BY DEF In, Distinct, Before

LEMMA QueueNone ==
    ASSUME NEW S
    PROVE  <<>> \in Seq(S) /\ Distinct(<<>>) /\ \A x, y : ~In(<<>>, x) /\ ~Before(<<>>, x, y)
  BY DEF In, Distinct, Before

LEMMA QueueAppend ==
    ASSUME NEW S, NEW q \in Seq(S), NEW e \in S
    PROVE  /\ Append(q, e) \in Seq(S)
           /\ \A x : In(Append(q, e), x) <=> In(q, x) \/ x = e
           /\ Distinct(q) /\ ~In(q, e) => Distinct(Append(q, e))
           /\ \A x, y : Before(Append(q, e), x, y) => Before(q, x, y) \/ y = e
  <1>1. Append(q, e) = q \o <<e>>
    BY AppendIsConcat
  <1>2. /\ q \o <<e>> \in Seq(S)
        /\ \A x : In(q \o <<e>>, x) <=> In(q, x) \/ In(<<e>>, x)
        /\ Distinct(q) /\ Distinct(<<e>>) /\ (\A x : ~(In(q, x) /\ In(<<e>>, x)))
              => Distinct(q \o <<e>>)
        /\ \A x, y : Before(q \o <<e>>, x, y) => Before(q, x, y) \/ In(<<e>>, y)
    BY QueueOne, QueueConcat
  <1> QED
    BY <1>1, <1>2, QueueOne

LEMMA QueueTail ==
    ASSUME NEW S, NEW q \in Seq(S), q # <<>>
    PROVE  /\ Head(q) \in S /\ Tail(q) \in Seq(S)
           /\ In(q, Head(q))
           /\ Distinct(q) => /\ Distinct(Tail(q))
                             /\ \A x : In(Tail(q), x) <=> In(q, x) /\ x # Head(q)
           /\ \A x, y : Before(Tail(q), x, y) => Before(q, x, y)
           /\ \A y : In(q, y) /\ y # Head(q) => Before(q, Head(q), y)
  <1> DEFINE t == Tail(q)
  <1>1. /\ Head(q) \in S /\ t \in Seq(S) /\ Len(q) \in Nat \ {0} /\ Len(t) = Len(q) - 1
        /\ \A i \in 1..Len(t) : t[i] = q[i + 1]
        /\ Head(q) = q[1]
    BY HeadTailProperties, EmptySeq
  <1> HIDE DEF t
  <1>2. In(q, Head(q))
    BY <1>1 DEF In
  <1>3. \A i \in 1..Len(q) : i = 1 \/ \E k \in 1..Len(t) : i = k + 1
    <2> SUFFICES ASSUME NEW i \in 1..Len(q), i # 1 PROVE i - 1 \in 1..Len(t) /\ i = (i - 1) + 1
      OBVIOUS
    <2> QED
      BY <1>1
  <1>4. \A i \in 1..Len(t) : i + 1 \in 1..Len(q) /\ i + 1 # 1
    BY <1>1
  <1>5. ASSUME Distinct(q) PROVE Distinct(t) /\ \A x : In(t, x) <=> In(q, x) /\ x # Head(q)
    <2>1. Distinct(t)
      BY <1>1, <1>4, <1>5 DEF Distinct
    <2>2. ASSUME NEW x, In(t, x) PROVE In(q, x) /\ x # Head(q)
      <3>1. PICK i \in 1..Len(t) : t[i] = x
        BY <2>2 DEF In
      <3>2. q[i + 1] = x /\ i + 1 \in 1..Len(q) /\ i + 1 # 1 /\ 1 \in 1..Len(q)
        BY <1>1, <1>4, <3>1
      <3> QED
        BY <1>1, <1>5, <3>2 DEF In, Distinct
    <2>3. ASSUME NEW x, In(q, x), x # Head(q) PROVE In(t, x)
      BY <1>1, <1>3, <2>3 DEF In
    <2> QED
      BY <2>1, <2>2, <2>3
  <1>6. ASSUME NEW x, NEW y, Before(t, x, y) PROVE Before(q, x, y)
    <2>1. PICK i \in 1..Len(t), j \in 1..Len(t) : i < j /\ t[i] = x /\ t[j] = y
      BY <1>6 DEF Before
    <2>2. i + 1 < j + 1 /\ q[i + 1] = x /\ q[j + 1] = y
      BY <1>1, <2>1
    <2> QED
      BY <1>4, <2>2 DEF Before
  <1>7. ASSUME NEW y, In(q, y), y # Head(q) PROVE Before(q, Head(q), y)
    <2>1. PICK j \in 1..Len(q) : q[j] = y
      BY <1>7 DEF In
    <2>2. 1 \in 1..Len(q) /\ 1 < j
      BY <1>1, <1>7, <2>1
    <2> QED
      BY <1>1, <2>1, <2>2 DEF Before
  <1> QED
    BY <1>1, <1>2, <1>5, <1>6, <1>7 DEF t
------------------------------------------------------------------------------
(* Keep *)

\* What Keep has made of the first i elements.
KeptUpTo(f, s, S, n) ==
    f = [i \in 0..n |->
            IF i = 0 THEN <<>> ELSE IF s[i] \in S THEN Append(f[i-1], s[i]) ELSE f[i-1]]

LEMMA KeptSteps ==
    ASSUME NEW f, NEW s, NEW S, NEW n \in Nat, KeptUpTo(f, s, S, n)
    PROVE  /\ f[0] = <<>>
           /\ \A i \in 1..n : f[i] = IF s[i] \in S THEN Append(f[i-1], s[i]) ELSE f[i-1]
  <1> DEFINE h == [i \in 0..n |->
            IF i = 0 THEN <<>> ELSE IF s[i] \in S THEN Append(f[i-1], s[i]) ELSE f[i-1]]
  <1>1. f = h
    BY DEF KeptUpTo
  <1>2. h[0] = <<>> /\ \A i \in 1..n : h[i] = IF s[i] \in S THEN Append(f[i-1], s[i]) ELSE f[i-1]
    OBVIOUS
  <1> HIDE DEF h
  <1> QED
    BY <1>1, <1>2

LEMMA KeepIsDefined ==
    ASSUME NEW s, NEW S, Len(s) \in Nat
    PROVE  \E f : KeptUpTo(f, s, S, Len(s)) /\ Keep(s, S) = f[Len(s)]
  <1> DEFINE D == {n \in Nat : \E f : KeptUpTo(f, s, S, n)}
  <1>1. 0 \in D
    <2>1. KeptUpTo([i \in 0..0 |-> <<>>], s, S, 0)
      BY DEF KeptUpTo
    <2> QED
      BY <2>1
  <1>2. ASSUME NEW n \in Nat, n \in D PROVE n + 1 \in D
    <2>1. PICK f : KeptUpTo(f, s, S, n)
      BY <1>2
    <2> DEFINE g == [i \in 0..(n + 1) |->
                       IF i <= n THEN f[i]
                       ELSE IF s[i] \in S THEN Append(f[n], s[i]) ELSE f[n]]
    <2>2. KeptUpTo(g, s, S, n + 1)
      <3> DEFINE h == [i \in 0..(n + 1) |-> IF i = 0 THEN <<>> 
                          ELSE IF s[i] \in S THEN Append(g[i-1], s[i]) ELSE g[i-1]]
      <3>1. ASSUME NEW i \in 0..(n + 1) PROVE g[i] = h[i]
        <4>1. CASE i = n + 1
          BY <4>1
        <4>2. CASE i = 0
          BY <2>1, <4>2, KeptSteps
        <4>3. CASE i \in 1..n
          <5>1. f[i] = IF s[i] \in S THEN Append(f[i-1], s[i]) ELSE f[i-1]
            BY <2>1, <4>3, KeptSteps
          <5>2. g[i] = f[i] /\ g[i-1] = f[i-1]
            BY <4>3
          <5> QED
            BY <4>3, <5>1, <5>2
        <4> QED
          BY <4>1, <4>2, <4>3
      <3>2. g = h
        BY <3>1
      <3> QED
        BY <3>2 DEF KeptUpTo
    <2> HIDE DEF g
    <2> QED
      BY <2>2
  <1>3. Len(s) \in D
    <2> HIDE DEF D
    <2> QED
      BY <1>1, <1>2, Induction
  <1> DEFINE kept == CHOOSE f : KeptUpTo(f, s, S, Len(s))
  <1>4. Keep(s, S) = kept[Len(s)]
    BY DEF Keep, KeptUpTo
  <1>5. KeptUpTo(kept, s, S, Len(s))
    BY <1>3
  <1> QED
    BY <1>4, <1>5

LEMMA KeepProperties ==
    ASSUME NEW T, NEW s \in Seq(T), NEW S
    PROVE  /\ Keep(s, S) \in Seq(T)
           /\ \A x : In(Keep(s, S), x) <=> In(s, x) /\ x \in S
           /\ Distinct(s) => Distinct(Keep(s, S))
  <1>1. PICK f : KeptUpTo(f, s, S, Len(s)) /\ Keep(s, S) = f[Len(s)]
    BY KeepIsDefined
  <1> DEFINE Good(i) ==
        /\ f[i] \in Seq(T)
        /\ \A k \in 1..Len(f[i]) : f[i][k] \in S /\ \E m \in 1..i : s[m] = f[i][k]
        /\ \A m \in 1..i : s[m] \in S => \E k \in 1..Len(f[i]) : f[i][k] = s[m]
        /\ Distinct(s) => Distinct(f[i])
  <1> DEFINE D == {n \in Nat : n <= Len(s) => Good(n)}
  <1>2. 0 \in D
    <2>1. f[0] = <<>>
      BY <1>1, KeptSteps
    <2> QED
      <3>1. Len(f[0]) = 0 /\ f[0] \in Seq(T)
        BY <2>1, EmptySeq
      <3>2. Good(0)
        BY <3>1 DEF Distinct
      <3> QED
        BY <3>2
  <1>3. ASSUME NEW n \in Nat, n \in D PROVE n + 1 \in D
    <2> SUFFICES ASSUME n + 1 <= Len(s) PROVE Good(n + 1)
      OBVIOUS
    <2>1. Good(n)
      BY <1>3
    <2> DEFINE k == f[n]  e == s[n + 1]
    <2>2. f[n + 1] = IF e \in S THEN Append(k, e) ELSE k
      <3>1. n + 1 \in 1..Len(s) /\ Len(s) \in Nat /\ (n + 1) - 1 = n
        OBVIOUS
      <3> QED
        BY <1>1, <3>1, KeptSteps
    <2>3. e \in T /\ k \in Seq(T) /\ Len(s) \in Nat
      BY <2>1
    <2>4. CASE e \notin S
      BY <2>1, <2>2, <2>4
    <2>5. CASE e \in S
      <3> DEFINE a == Append(k, e)
      <3>1. /\ f[n + 1] = a /\ a \in Seq(T) /\ Len(a) = Len(k) + 1 /\ Len(k) \in Nat
            /\ \A i \in 1..Len(k) : a[i] = k[i]
            /\ a[Len(k) + 1] = e
        BY <2>2, <2>3, <2>5, AppendProperties
      <3> HIDE DEF a
      <3>2. \A i \in 1..Len(a) : a[i] \in S /\ \E m \in 1..(n + 1) : s[m] = a[i]
        <4>1. ASSUME NEW i \in 1..Len(k) PROVE a[i] \in S /\ \E m \in 1..(n + 1) : s[m] = a[i]
          <5>1. k[i] \in S /\ \E m \in 1..n : s[m] = k[i]
            BY <2>1
          <5>2. a[i] = k[i] /\ 1..n \subseteq 1..(n + 1)
            BY <3>1
          <5> HIDE DEF k
          <5> QED
            BY <5>1, <5>2
        <4>2. a[Len(k) + 1] \in S /\ \E m \in 1..(n + 1) : s[m] = a[Len(k) + 1]
          BY <2>5, <3>1
        <4> QED
          BY <3>1, <4>1, <4>2
      <3>3. \A m \in 1..(n + 1) : s[m] \in S => \E i \in 1..Len(a) : a[i] = s[m]
        BY <2>1, <3>1
      <3>4. ASSUME Distinct(s) PROVE Distinct(a)
        <4>1. \A i \in 1..Len(k) : k[i] # e
          BY <2>1, <3>4, <2>3 DEF Distinct
        <4> QED
          <5> SUFFICES ASSUME NEW i \in 1..Len(a), NEW j \in 1..Len(a), a[i] = a[j] PROVE i = j
            BY DEF Distinct
          <5>1. Distinct(k)
            BY <2>1, <3>4
          <5>2. CASE i = Len(k) + 1 \/ j = Len(k) + 1
            BY <3>1, <4>1, <5>2
          <5>3. CASE i \in 1..Len(k) /\ j \in 1..Len(k)
            <6>1. k[i] = k[j]
              BY <3>1, <5>3
            <6> HIDE DEF k
            <6> QED
              BY <5>1, <5>3, <6>1 DEF Distinct
          <5> QED
            BY <3>1, <5>2, <5>3
      <3> QED
        BY <3>1, <3>2, <3>3, <3>4
    <2> QED
      BY <2>4, <2>5
  <1>4. Good(Len(s))
    <2> HIDE DEF Good
    <2>1. Nat \subseteq D
      <3> HIDE DEF D
      <3> QED
        BY <1>2, <1>3, Induction
    <2> QED
      BY <2>1
  <1> QED
    BY <1>1, <1>4 DEF In
------------------------------------------------------------------------------
(* Children *)

ChildTypes ==
    /\ promise \in [Commands -> {"none", "pending", "resolved", "rejected"}]
    /\ child \in [Commands -> {"none", "running", "gone"}]
    /\ signal \in [Commands -> {"none", "TERM", "KILL"}]
    /\ timers \in [Commands -> SUBSET {"timeout", "kill"}]
    /\ listening \in [Commands -> BOOLEAN]
    /\ call \in [Commands -> {"new", "awaiting", "returned", "done"}]

\* A command that has not begun has no child; only a running child has timers and
\* a handler for the abort signal.
OnlyRunningIsArmed ==
    \A c \in Commands :
        /\ call[c] = "new" => child[c] = "none"
        /\ timers[c] # {} \/ listening[c] => child[c] = "running"

ChildInv == ChildTypes /\ OnlyRunningIsArmed /\ NoChildLeftBehind

childVars == <<promise, child, signal, timers, listening>>

\* What the port sees to: neither a timeout nor an abort finds a force-kill timer armed.
KilledOnce ==
    /\ \A c \in Commands : "timeout" \in timers[c] => "kill" \notin timers[c]
    /\ ClientMayCall => \A c \in Ledger : listening[c] => "kill" \notin timers[c]

LEMMA KillOnce ==
    ASSUME NEW t, "kill" \notin t
    PROVE  KillChild(t) = t \cup {"kill"}
  BY DEF KillChild

------------------------------------------------------------------------------
(* The spawn helper *)

LEMMA SpawnKeeps ==
    ASSUME ChildInv, NEW c \in Commands, call[c] = "new",
           Spawn(c) \/ SpawnThrows(c), call' = [call EXCEPT ![c] = "awaiting"]
    PROVE  ChildInv'
  <1>1. child[c] = "none" /\ timers[c] = {} /\ ~listening[c]
    BY DEF ChildInv, ChildTypes, OnlyRunningIsArmed
  <1>2. CASE Spawn(c)
    BY <1>1, <1>2 DEF Spawn, ChildInv, ChildTypes, OnlyRunningIsArmed,
                      NoChildLeftBehind
  <1>3. CASE SpawnThrows(c)
    BY <1>1, <1>3 DEF SpawnThrows, ChildInv, ChildTypes, OnlyRunningIsArmed,
                      NoChildLeftBehind
  <1> QED
    BY <1>2, <1>3

\* An abort signals every child that hears it and arms its force-kill timer.
LEMMA AbortKeeps ==
    ASSUME ChildInv, NEW more, AbortAll(inFlight, more), UNCHANGED call,
           \A c \in Ledger : listening[c] => "kill" \notin timers[c]
    PROVE  ChildInv'
  <1> DEFINE Hit == {inFlight[i] : i \in DOMAIN inFlight} \cap {c \in Commands : listening[c]}
  <1>1. /\ promise' = [c \in Commands |->
                IF c \in Hit /\ promise[c] = "pending" THEN "rejected" ELSE promise[c]]
        /\ signal' = [c \in Commands |-> IF c \in Hit THEN "TERM" ELSE signal[c]]
        /\ timers' = [c \in Commands |->
                IF c \in Hit THEN KillChild(timers[c] \ {"timeout"}) ELSE timers[c]]
        /\ listening' = [c \in Commands |-> listening[c] /\ c \notin Hit]
        /\ UNCHANGED child
    BY DEF AbortAll, Settled, Rejects
  <1>2. \A c \in Hit : c \in Commands /\ listening[c] /\ child[c] = "running"
    BY DEF ChildInv, OnlyRunningIsArmed
  <1>3. \A c \in Hit : "kill" \notin timers[c]
    BY DEF Ledger
  <1> HIDE DEF Hit
  <1>4. \A c \in Hit : KillChild(timers[c] \ {"timeout"}) = (timers[c] \ {"timeout"}) \cup {"kill"}
    BY <1>3, KillOnce
  <1>5. timers' = [c \in Commands |->
                IF c \in Hit THEN (timers[c] \ {"timeout"}) \cup {"kill"} ELSE timers[c]]
    BY <1>1, <1>4
  <1>6. ChildTypes'
    BY <1>1, <1>5 DEF ChildInv, ChildTypes
  <1>7. OnlyRunningIsArmed'
    BY <1>1, <1>2, <1>5 DEF ChildInv, ChildTypes, OnlyRunningIsArmed
  <1>8. NoChildLeftBehind'
    BY <1>1, <1>5 DEF ChildInv, ChildTypes, NoChildLeftBehind
  <1> QED
    BY <1>6, <1>7, <1>8 DEF ChildInv

LEMMA TimeoutKeeps ==
    ASSUME ChildInv, NEW c \in Commands, Timeout(c), UNCHANGED call, "kill" \notin timers[c]
    PROVE  ChildInv'
  <1>1. child[c] = "running"
    BY DEF Timeout, ChildInv, OnlyRunningIsArmed
  <1>2. timers' = [timers EXCEPT ![c] = (@ \ {"timeout"}) \cup {"kill"}]
    <2>1. KillChild(timers[c] \ {"timeout"}) = (timers[c] \ {"timeout"}) \cup {"kill"}
      BY KillOnce
    <2>2. timers' = [timers EXCEPT ![c] = KillChild(timers[c] \ {"timeout"})]
      BY DEF Timeout
    <2> QED
      BY <2>1, <2>2
  <1>3. /\ promise' = [e \in Commands |->
                IF e \in {c} /\ promise[e] = "pending" THEN "rejected" ELSE promise[e]]
        /\ signal' = [signal EXCEPT ![c] = "TERM"]
        /\ UNCHANGED <<child, listening, call>>
    BY DEF Timeout, Settled
  <1>4. ChildTypes'
    BY <1>2, <1>3 DEF ChildInv, ChildTypes
  <1>5. OnlyRunningIsArmed'
    BY <1>1, <1>2, <1>3 DEF ChildInv, ChildTypes, OnlyRunningIsArmed
  <1>6. NoChildLeftBehind'
    BY <1>2, <1>3 DEF ChildInv, ChildTypes, NoChildLeftBehind
  <1> QED
    BY <1>4, <1>5, <1>6 DEF ChildInv

\* The one force-kill timer a command has is the one that fires.
LEMMA KillTimerFires ==
    ASSUME ChildInv, NEW c \in Commands, KillTimer(c)
    PROVE  "kill" \in timers[c] /\ timers' = [timers EXCEPT ![c] = @ \ {"kill"}]
  BY DEF KillTimer, ChildInv, ChildTypes

LEMMA KillTimerKeeps ==
    ASSUME ChildInv, NEW c \in Commands, KillTimer(c), UNCHANGED call
    PROVE  ChildInv'
  <1>1. "kill" \in timers[c] /\ timers' = [timers EXCEPT ![c] = @ \ {"kill"}]
    BY KillTimerFires
  <1>2. child[c] = "running"
    BY <1>1 DEF ChildInv, OnlyRunningIsArmed
  <1>3. /\ signal' = [signal EXCEPT ![c] = IF child[c] = "running" THEN "KILL" ELSE @]
        /\ UNCHANGED <<promise, child, listening>>
    BY DEF KillTimer
  <1> QED
    BY <1>1, <1>2, <1>3 DEF ChildInv, ChildTypes, OnlyRunningIsArmed, NoChildLeftBehind

LEMMA ChildGoneKeeps ==
    ASSUME ChildInv, NEW c \in Commands, NEW how \in {"resolved", "rejected"},
           ChildGone(c, how), UNCHANGED call
    PROVE  ChildInv'
  <1>1. timers' = [timers EXCEPT ![c] = {}]
    BY DEF ChildGone, ChildInv, ChildTypes
  <1>2. ChildTypes'
    BY <1>1 DEF ChildGone, Settled, ChildInv, ChildTypes
  <1>3. OnlyRunningIsArmed'
    BY <1>1 DEF ChildGone, ChildInv, ChildTypes, OnlyRunningIsArmed
  <1>4. NoChildLeftBehind'
    BY <1>1 DEF ChildGone, Settled, ChildInv, ChildTypes, NoChildLeftBehind
  <1> QED
    BY <1>2, <1>3, <1>4 DEF ChildInv

------------------------------------------------------------------------------
(* The children of the port *)

LEMMA ChildInvInit == Init => ChildInv
  BY DEF Init, SpawnInit, ChildInv, ChildTypes, OnlyRunningIsArmed, NoChildLeftBehind

LEMMA ChildInvStep ==
    ASSUME ChildInv, KilledOnce, [Next]_vars
    PROVE  ChildInv'
  <1>1. ASSUME NEW c \in Commands, NEW o \in Requests, Run(c, o) PROVE ChildInv'
    BY <1>1, SpawnKeeps DEF Run, Begin
  <1>2. ASSUME NEW c \in Commands, NEW o \in Requests, Refuse(c, o) PROVE ChildInv'
    BY <1>2 DEF Refuse, Begin, ChildInv, ChildTypes, OnlyRunningIsArmed, NoChildLeftBehind
  <1>3. ASSUME NEW c \in Commands, SpawnEvent(c) PROVE ChildInv'
    <2>1. Timeout(c) => "kill" \notin timers[c]
      BY DEF Timeout, KilledOnce
    <2> QED
      BY <1>3, <2>1, TimeoutKeeps, KillTimerKeeps, ChildGoneKeeps DEF SpawnEvent, Close, SpawnError
  <1>4. ASSUME NEW d \in Disconnects, Shutdown(d) PROVE ChildInv'
    <2>1. \A c \in Ledger : listening[c] => "kill" \notin timers[c]
      BY <1>4 DEF Shutdown, KilledOnce
    <2> QED
      BY <1>4, <2>1, AbortKeeps DEF Shutdown
  <1>5. ASSUME NEW c \in Commands, Retire(c) \/ Return(c) PROVE ChildInv'
    <2>1. UNCHANGED childVars
      BY <1>5 DEF Retire, Return, childVars
    <2>2. call' = [call EXCEPT ![c] = "returned"] \/ call' = [call EXCEPT ![c] = "done"]
      BY <1>5 DEF Retire, Return
    <2> QED
      BY <2>1, <2>2 DEF childVars, ChildInv, ChildTypes, OnlyRunningIsArmed, NoChildLeftBehind
  <1>6. ASSUME UNCHANGED <<childVars, call>> PROVE ChildInv'
    BY <1>6 DEF childVars, ChildInv, ChildTypes, OnlyRunningIsArmed, NoChildLeftBehind
  <1>7. ASSUME NEW d \in Disconnects,
               Join(d) \/ Poll(d) \/ Recheck(d) \/ Stop(d) \/ Announced(d) \/ Release(d)
                    \/ SettleShutdown(d)
        PROVE  UNCHANGED <<childVars, call>>
    BY <1>7 DEF Join, Poll, Recheck, Stop, Announced, Release, SettleShutdown, spawnVars,
                childVars
  <1>8. ASSUME Finished \/ UNCHANGED vars PROVE UNCHANGED <<childVars, call>>
    BY <1>8 DEF Finished, vars, spawnVars, portVars, childVars
  <1> QED
    BY <1>1, <1>2, <1>3, <1>4, <1>5, <1>6, <1>7, <1>8 DEF Next, LoopStep

------------------------------------------------------------------------------
(* The port *)

Jobs == [does : {"retire", "return"}, of : Commands]
            \cup [does : {"recheck", "stop", "release", "settle"}, of : Disconnects]

Queued(what, x) == In(jobs, Job(what, x))

\* A promise settles once, and until the reaction has run there is a job for it.
SettledOnce ==
    \A c \in Commands :
        /\ promise[c] = "none" <=> call[c] = "new"
        /\ promise[c] = "pending" => call[c] = "awaiting" /\ listening[c] /\ timers[c] = {"timeout"}
        /\ "timeout" \in timers[c] => promise[c] = "pending"
        /\ Queued("retire", c) <=> call[c] = "awaiting" /\ promise[c] # "pending"
        /\ Queued("return", c) <=> call[c] = "returned"

\* After a timeout the handler of the abort signal is still installed; the entry is retired
\* before anything else can happen.
NobodyBetween ==
    \A c \in Commands :
        call[c] = "awaiting" /\ listening[c] /\ promise[c] # "pending"
            => jobs = <<Job("retire", c)>> /\ ~client /\ ~Announcing

\* The ledger holds what has not returned, and nothing works on during a shutdown.
LedgerInv ==
    \A c \in Commands :
        /\ c \in Ledger <=> call[c] = "awaiting"
        /\ promise[c] = "pending" => latch = None

\* A shutdown waits, in one place at a time, while it drains; once its wait is
\* rechecked the ledger is empty.
PhaseInv ==
    \A d \in Disconnects :
        /\ joined[d] = d <=> phase[d] # "none"
        /\ latch = d <=> phase[d] \in {"draining", "announcing", "stopped"}
        /\ Queued("release", d) <=> phase[d] = "stopped"
        /\ Queued("settle", d) <=> phase[d] = "released"
        /\ phase[d] = "draining" <=> polling = d \/ Queued("recheck", d) \/ Queued("stop", d)
        /\ polling = d => ~Queued("recheck", d) /\ ~Queued("stop", d)
        /\ ~(Queued("recheck", d) /\ Queued("stop", d))
        /\ Queued("recheck", d) \/ Queued("stop", d) => inFlight = <<>>

\* A connect() that succeeded returns before the stop that follows it in the
\* queue; one that is still to return when the port is disconnected has failed.
LateIsRejected ==
    /\ \A d \in Disconnects, c \in Commands :
          Before(jobs, Job("stop", d), Job("return", c)) => promise[c] = "rejected"
    /\ status = "disconnected" =>
          \A c \in Commands :
              op[c].does = "connect" /\ call[c] \in {"awaiting", "returned"} => promise[c] = "rejected"

\* A chat belongs to one session, that of the commands that resume it.
ChatInv ==
    /\ \A s \in Ids : chat[s] # None => chat[s] \in minted
    /\ \A c \in Commands : op[c].resume # None =>
          /\ op[c].does = "prompt" /\ op[c].resume \in minted
          /\ \A t \in Ids : chat[t] = op[c].resume => t = op[c].on
          /\ \A e \in Commands : op[e].resume = op[c].resume => op[e].on = op[c].on
    /\ \A c \in Commands :
          /\ call[c] # "new" => op[c] \in Ops
          /\ op[c].does = "prompt" => op[c].on \in Ids
    /\ ChatsNotShared

QueueInv == Distinct(jobs) /\ Distinct(inFlight)

LoopInv ==
    /\ QueueInv /\ SettledOnce /\ NobodyBetween /\ LedgerInv /\ PhaseInv /\ LateIsRejected
    /\ ChatInv
PortInv == TypeOK /\ ChildInv /\ LoopInv

LEMMA JobsDiffer ==
    /\ \A v, w, x, y : Job(v, x) = Job(w, y) <=> v = w /\ x = y
    /\ \A c \in Commands : Job("retire", c) \in Jobs /\ Job("return", c) \in Jobs
    /\ \A d \in Disconnects : /\ Job("recheck", d) \in Jobs /\ Job("stop", d) \in Jobs
                              /\ Job("release", d) \in Jobs /\ Job("settle", d) \in Jobs
    /\ \A c \in Commands : None # c
    /\ \A d \in Disconnects : None # d
    /\ None \notin Ids
  BY NoneIsNone DEF Job, Jobs

LEMMA QueueMembers ==
    ASSUME NEW S, NEW q \in Seq(S)
    PROVE  \A x : x \in {q[i] : i \in DOMAIN q} <=> In(q, x)
  BY DEF In

LEMMA Ledgers ==
    ASSUME TypeOK
    PROVE  /\ \A c : c \in Ledger <=> In(inFlight, c)
           /\ inFlight \in Seq(Commands) /\ jobs \in Seq(Jobs)
  BY DEF TypeOK, Ledger, In, Jobs

\* What running the head of the queue, and queuing another job, does to it.
LEMMA JobRuns ==
    ASSUME PortInv, NEW w, NEW x, Runs(w, x)
    PROVE  /\ Queued(w, x) /\ ~Announcing /\ Tail(jobs) \in Seq(Jobs) /\ Distinct(Tail(jobs))
           /\ \A v, y : In(Tail(jobs), Job(v, y)) <=> Queued(v, y) /\ ~(v = w /\ y = x)
           /\ \A j, k : Before(Tail(jobs), j, k) => Before(jobs, j, k)
           /\ \A v, y : Queued(v, y) /\ ~(v = w /\ y = x) => Before(jobs, Job(w, x), Job(v, y))
  <1>1. jobs \in Seq(Jobs) /\ jobs # <<>> /\ Head(jobs) = Job(w, x) /\ ~Announcing /\ Distinct(jobs)
    BY Ledgers DEF Runs, PortInv, LoopInv, QueueInv
  <1>2. /\ In(jobs, Head(jobs)) /\ Tail(jobs) \in Seq(Jobs) /\ Distinct(Tail(jobs))
        /\ \A k : In(Tail(jobs), k) <=> In(jobs, k) /\ k # Head(jobs)
        /\ \A j, k : Before(Tail(jobs), j, k) => Before(jobs, j, k)
        /\ \A k : In(jobs, k) /\ k # Head(jobs) => Before(jobs, Head(jobs), k)
    BY <1>1, QueueTail
  <1> QED
    BY <1>1, <1>2, JobsDiffer DEF Queued

LEMMA JobRunsThen ==
    ASSUME PortInv, NEW w, NEW x, Runs(w, x), NEW v, NEW y, Job(v, y) \in Jobs,
           ~(Queued(v, y) /\ ~(v = w /\ y = x)), Then(v, y)
    PROVE  /\ jobs' \in Seq(Jobs) /\ Distinct(jobs')
           /\ \A u, z : Queued(u, z)' <=> (Queued(u, z) /\ ~(u = w /\ z = x)) \/ (u = v /\ z = y)
           /\ \A i, k : Before(jobs', i, k) => Before(jobs, i, k) \/ k = Job(v, y)
  <1>1. /\ Tail(jobs) \in Seq(Jobs) /\ Distinct(Tail(jobs))
        /\ \A u, z : In(Tail(jobs), Job(u, z)) <=> Queued(u, z) /\ ~(u = w /\ z = x)
        /\ \A j, k : Before(Tail(jobs), j, k) => Before(jobs, j, k)
    BY JobRuns
  <1>2. jobs' = Append(Tail(jobs), Job(v, y))
    BY DEF Then
  <1> DEFINE q == Tail(jobs)  e == Job(v, y)
  <1>3. q \in Seq(Jobs) /\ e \in Jobs
    BY <1>1
  <1> HIDE DEF q, e
  <1>4. /\ Append(q, e) \in Seq(Jobs)
        /\ \A k : In(Append(q, e), k) <=> In(q, k) \/ k = e
        /\ Distinct(q) /\ ~In(q, e) => Distinct(Append(q, e))
        /\ \A i, k : Before(Append(q, e), i, k) => Before(q, i, k) \/ k = e
    BY <1>3, QueueAppend
  <1> QED
    BY <1>1, <1>2, <1>4, JobsDiffer DEF Queued, q, e

LEMMA JobAdded ==
    ASSUME PortInv, NEW v, NEW y, Job(v, y) \in Jobs, ~Queued(v, y),
           jobs' = Append(jobs, Job(v, y))
    PROVE  /\ jobs' \in Seq(Jobs) /\ Distinct(jobs')
           /\ \A u, z : Queued(u, z)' <=> Queued(u, z) \/ (u = v /\ z = y)
           /\ \A i, k : Before(jobs', i, k) => Before(jobs, i, k) \/ k = Job(v, y)
  <1>1. jobs \in Seq(Jobs) /\ Distinct(jobs)
    BY Ledgers DEF PortInv, LoopInv, QueueInv
  <1>2. /\ Append(jobs, Job(v, y)) \in Seq(Jobs)
        /\ \A k : In(Append(jobs, Job(v, y)), k) <=> In(jobs, k) \/ k = Job(v, y)
        /\ Distinct(jobs) /\ ~In(jobs, Job(v, y)) => Distinct(Append(jobs, Job(v, y)))
        /\ \A i, k : Before(Append(jobs, Job(v, y)), i, k) => Before(jobs, i, k) \/ k = Job(v, y)
    BY <1>1, QueueAppend
  <1> QED
    BY <1>1, <1>2, JobsDiffer DEF Queued

\* The queue of a macrotask, which finds it empty.
LEMMA JobAlone ==
    ASSUME NEW v, NEW y, Job(v, y) \in Jobs, jobs' = <<Job(v, y)>>
    PROVE  /\ jobs' \in Seq(Jobs) /\ Distinct(jobs')
           /\ \A u, z : Queued(u, z)' <=> u = v /\ z = y
           /\ \A i, k : ~Before(jobs', i, k)
  <1>1. /\ <<Job(v, y)>> \in Seq(Jobs) /\ Distinct(<<Job(v, y)>>)
        /\ \A k : In(<<Job(v, y)>>, k) <=> k = Job(v, y)
        /\ \A i, k : ~Before(<<Job(v, y)>>, i, k)
    BY QueueOne
  <1> QED
    BY <1>1, JobsDiffer DEF Queued

LEMMA NoJobs ==
    ASSUME jobs = <<>>
    PROVE  \A u, z : ~Queued(u, z)
  BY QueueNone DEF Queued

------------------------------------------------------------------------------
(* The steps of the port *)

LEMMA PortInit == Init => TypeOK /\ LoopInv
  <1> SUFFICES ASSUME Init PROVE TypeOK /\ LoopInv
    OBVIOUS
  <1>1. TypeOK
    <2>1. <<>> \in Seq(Commands) /\ <<>> \in Seq(Jobs)
      BY QueueNone
    <2>2. op \in [Commands -> Ops \cup {NoOp}]
      BY DEF Init
    <2> QED
      BY <2>1, <2>2 DEF Init, SpawnInit, TypeOK, Phases, Jobs
  <1>2. /\ jobs = <<>> /\ inFlight = <<>>
        /\ \A x : ~In(jobs, x) /\ ~In(inFlight, x)
        /\ \A x, y : ~Before(jobs, x, y)
        /\ Distinct(jobs) /\ Distinct(inFlight)
    BY QueueNone DEF Init, SpawnInit
  <1>3. QueueInv
    BY <1>2 DEF QueueInv
  <1>4. SettledOnce
    BY <1>2 DEF Init, SpawnInit, SettledOnce, Queued
  <1>5. NobodyBetween
    BY DEF Init, NobodyBetween
  <1>6. LedgerInv
    BY <1>1, <1>2, Ledgers DEF Init, SpawnInit, LedgerInv
  <1>7. PhaseInv
    BY <1>2, NoneIsNone DEF Init, PhaseInv, Queued
  <1>8. LateIsRejected
    BY <1>2 DEF Init, LateIsRejected
  <1>9. ChatInv
    BY DEF Init, ChatInv, NoOp, ChatsNotShared
  <1> QED
    BY <1>1, <1>3, <1>4, <1>5, <1>6, <1>7, <1>8, <1>9 DEF LoopInv

\* Client code never runs between a timeout and the retirement it leads to.
LEMMA ClientFindsQuiet ==
    ASSUME PortInv, ClientMayCall \/ Announcing
    PROVE  \A c \in Commands : call[c] = "awaiting" /\ listening[c] => promise[c] = "pending"
  <1>1. \A c \in Commands : jobs = <<Job("retire", c)>> => jobs # <<>>
    OBVIOUS
  <1> QED
    BY <1>1 DEF PortInv, LoopInv, NobodyBetween, ClientMayCall

LEMMA BeginChats ==
    ASSUME PortInv, NEW c \in Commands, NEW o \in Requests, Begin(c, o),
           NEW how, call' = [call EXCEPT ![c] = how]
    PROVE  ChatInv' /\ o \in Ops
  <1>1. /\ op' = [op EXCEPT ![c] = o] /\ UNCHANGED <<chat, minted>> /\ TypeOK /\ ChatInv
        /\ op \in [Commands -> Ops \cup {NoOp}] /\ chat \in [Ids -> Ids \cup {None}]
        /\ call \in [Commands -> {"new", "awaiting", "returned", "done"}]
    BY DEF Begin, PortInv, LoopInv, TypeOK
  <1>2. /\ o.does # "prompt" => o.resume = None
        /\ o.does = "prompt" => o.on \in Ids /\ o.resume = chat[o.on]
        /\ o \in Ops
    BY <1>1 DEF Requests, ChatOf, Ops
  <1>3. ASSUME o.resume # None
        PROVE  /\ o.does = "prompt" /\ o.resume \in minted
               /\ \A t \in Ids : chat[t] = o.resume => t = o.on
               /\ \A e \in Commands : op[e].resume = o.resume => op[e].on = o.on
    BY <1>1, <1>2, <1>3 DEF ChatInv, ChatsNotShared
  <1>4. \A e \in Commands : op'[e] = IF e = c THEN o ELSE op[e]
    BY <1>1
  <1>5. \A e \in Commands : call'[e] = IF e = c THEN how ELSE call[e]
    BY <1>1
  <1>6. (\A s \in Ids : chat[s] # None => chat[s] \in minted)' /\ ChatsNotShared'
    BY <1>1 DEF ChatInv, ChatsNotShared
  <1>7. ASSUME NEW e \in Commands, op'[e].resume # None
        PROVE  /\ op'[e].does = "prompt" /\ op'[e].resume \in minted'
               /\ \A t \in Ids : chat'[t] = op'[e].resume => t = op'[e].on
               /\ \A f \in Commands : op'[f].resume = op'[e].resume => op'[f].on = op'[e].on
    BY <1>1, <1>3, <1>4, <1>7 DEF ChatInv
  <1>8. \A e \in Commands :
          /\ call'[e] # "new" => op'[e] \in Ops
          /\ op'[e].does = "prompt" => op'[e].on \in Ids
    BY <1>1, <1>2, <1>4, <1>5 DEF ChatInv
  <1> QED
    BY <1>2, <1>6, <1>7, <1>8 DEF ChatInv

LEMMA RunKeeps ==
    ASSUME PortInv, NEW c \in Commands, NEW o \in Requests, Run(c, o)
    PROVE  TypeOK' /\ LoopInv'
  <1>1. /\ ClientMayCall /\ call[c] = "new" /\ latch = None /\ client' = TRUE
        /\ op' = [op EXCEPT ![c] = o]
        /\ status' = IF o.does = "connect" THEN "connecting" ELSE status
        /\ call' = [call EXCEPT ![c] = "awaiting"] /\ inFlight' = Append(inFlight, c)
        /\ Spawn(c) \/ SpawnThrows(c)
        /\ UNCHANGED <<latch, chat, minted, joined, phase, polling>>
    BY DEF Run, Begin, Admits
  <1>2. /\ TypeOK /\ ChildInv /\ SettledOnce /\ NobodyBetween /\ LedgerInv /\ PhaseInv
        /\ LateIsRejected /\ ~listening[c]
    BY <1>1 DEF PortInv, LoopInv, ChildInv, OnlyRunningIsArmed
  <1>3. ChatInv' /\ o \in Ops
    BY <1>1, BeginChats DEF Run
  <1>4. ~Queued("retire", c) /\ ~Queued("return", c) /\ promise[c] = "none" /\ timers[c] = {}
    BY <1>1, <1>2 DEF SettledOnce, ChildInv, OnlyRunningIsArmed
  <1>5. /\ inFlight' \in Seq(Commands) /\ Distinct(inFlight')
        /\ \A x : In(inFlight', x) <=> In(inFlight, x) \/ x = c
    <2>1. ~In(inFlight, c) /\ inFlight \in Seq(Commands) /\ Distinct(inFlight)
      BY <1>1, <1>2, Ledgers DEF LedgerInv, PortInv, LoopInv, QueueInv
    <2> QED
      BY <1>1, <2>1, QueueAppend
  <1>6. /\ jobs' \in Seq(Jobs) /\ Distinct(jobs')
        /\ \A u, z : Queued(u, z)' <=> Queued(u, z) \/ (~Spawn(c) /\ u = "retire" /\ z = c)
        /\ \A d \in Disconnects, e \in Commands :
              Before(jobs', Job("stop", d), Job("return", e))
                  => Before(jobs, Job("stop", d), Job("return", e))
    <2>1. CASE Spawn(c)
      <3>1. jobs' = jobs /\ jobs \in Seq(Jobs) /\ Distinct(jobs)
        BY <2>1, Ledgers DEF Spawn, PortInv, LoopInv, QueueInv
      <3> QED
        BY <2>1, <3>1 DEF Queued
    <2>2. CASE ~Spawn(c)
      <3>1. jobs' = Append(jobs, Job("retire", c))
        BY <1>1, <2>2 DEF SpawnThrows
      <3> QED
        BY <1>4, <2>2, <3>1, JobAdded, JobsDiffer
    <2> QED
      BY <2>1, <2>2
  <1>7. /\ promise' = [promise EXCEPT ![c] = IF Spawn(c) THEN "pending" ELSE "rejected"]
        /\ child' = [child EXCEPT ![c] = IF Spawn(c) THEN "running" ELSE child[c]]
        /\ timers' = [timers EXCEPT ![c] = IF Spawn(c) THEN {"timeout"} ELSE timers[c]]
        /\ listening' = [listening EXCEPT ![c] = IF Spawn(c) THEN TRUE ELSE FALSE]
        /\ UNCHANGED signal
    BY <1>1, <1>2 DEF Spawn, SpawnThrows, TypeOK
  <1>8. TypeOK'
    BY <1>1, <1>2, <1>3, <1>5, <1>6, <1>7 DEF TypeOK, Jobs
  <1>9. QueueInv'
    BY <1>5, <1>6 DEF QueueInv
  <1> USE <1>1, <1>2, <1>4, <1>7
  <1>10. SettledOnce'
    BY <1>6 DEF SettledOnce, TypeOK
  <1>11. NobodyBetween'
    BY ClientFindsQuiet DEF NobodyBetween, TypeOK
  <1>12. LedgerInv'
    <2>1. \A x : (x \in Ledger)' <=> In(inFlight', x)
      BY <1>5, QueueMembers DEF Ledger
    <2> QED
      BY <1>5, <2>1, Ledgers DEF LedgerInv, TypeOK
  <1>13. PhaseInv'
    BY <1>6, JobsDiffer DEF PhaseInv
  <1>14. LateIsRejected'
    <2>1. \A x, y : Before(jobs, x, y) => In(jobs, y)
      BY DEF Before, In
    <2>2. \A e \in Commands : In(jobs, Job("return", e)) => e # c
      BY DEF Queued
    <2> QED
      BY <1>6, <2>1, <2>2 DEF LateIsRejected, TypeOK
  <1> QED
    BY <1>3, <1>8, <1>9, <1>10, <1>11, <1>12, <1>13, <1>14 DEF LoopInv

LEMMA RefuseKeeps ==
    ASSUME PortInv, NEW c \in Commands, NEW o \in Requests, Refuse(c, o)
    PROVE  TypeOK' /\ LoopInv'
  <1>1. /\ ClientMayCall /\ call[c] = "new" /\ client' = TRUE
        /\ op' = [op EXCEPT ![c] = o]
        /\ status' = IF o.does = "connect" THEN "connecting" ELSE status
        /\ call' = [call EXCEPT ![c] = "returned"]
        /\ promise' = [promise EXCEPT ![c] = "rejected"]
        /\ jobs' = Append(jobs, Job("return", c))
        /\ UNCHANGED <<latch, chat, minted, joined, phase, polling, child, signal, timers,
                       listening, inFlight>>
    BY DEF Refuse, Begin
  <1>2. /\ TypeOK /\ ChildInv /\ SettledOnce /\ NobodyBetween /\ LedgerInv /\ PhaseInv
        /\ LateIsRejected /\ ~listening[c] /\ QueueInv
    BY <1>1 DEF PortInv, LoopInv, ChildInv, OnlyRunningIsArmed
  <1>3. ChatInv' /\ o \in Ops
    BY <1>1, BeginChats DEF Refuse
  <1>4. ~Queued("retire", c) /\ ~Queued("return", c) /\ promise[c] = "none" /\ timers[c] = {}
    BY <1>1, <1>2 DEF SettledOnce, ChildInv, OnlyRunningIsArmed
  <1>6. /\ jobs' \in Seq(Jobs) /\ Distinct(jobs')
        /\ \A u, z : Queued(u, z)' <=> Queued(u, z) \/ (u = "return" /\ z = c)
        /\ \A i, k : Before(jobs', i, k) => Before(jobs, i, k) \/ k = Job("return", c)
    BY <1>1, <1>4, JobAdded, JobsDiffer
  <1>8. TypeOK'
    BY <1>1, <1>2, <1>3, <1>6 DEF TypeOK, Jobs
  <1>9. QueueInv'
    BY <1>1, <1>2, <1>6 DEF QueueInv
  <1> USE <1>1, <1>2, <1>4
  <1>10. SettledOnce'
    BY <1>6 DEF SettledOnce, TypeOK
  <1>11. NobodyBetween'
    BY ClientFindsQuiet DEF NobodyBetween, TypeOK
  <1>12. LedgerInv'
    BY DEF LedgerInv, TypeOK, Ledger
  <1>13. PhaseInv'
    BY <1>6, JobsDiffer DEF PhaseInv
  <1>14. LateIsRejected'
    BY <1>6, JobsDiffer DEF LateIsRejected, TypeOK
  <1> QED
    BY <1>3, <1>8, <1>9, <1>10, <1>11, <1>12, <1>13, <1>14 DEF LoopInv

\* A job of its own kind runs only when no timeout waits for its retirement.
LEMMA RunsQuiet ==
    ASSUME PortInv, NEW w, NEW x, Runs(w, x)
    PROVE  \A c \in Commands : call[c] = "awaiting" /\ listening[c] /\ promise[c] # "pending"
              => w = "retire" /\ x = c
  BY JobsDiffer DEF PortInv, LoopInv, NobodyBetween, Runs

LEMMA RetireKeeps ==
    ASSUME PortInv, NEW c \in Commands, Retire(c)
    PROVE  TypeOK' /\ LoopInv'
  <1>1. /\ Runs("retire", c) /\ Then("return", c) /\ inFlight' = Keep(inFlight, Commands \ {c})
        /\ call' = [call EXCEPT ![c] = "returned"]
        /\ UNCHANGED <<promise, child, signal, timers, listening, status, latch, op, chat, minted,
                       joined, phase, polling, client>>
    BY DEF Retire, Retired
  <1>2. /\ TypeOK /\ SettledOnce /\ NobodyBetween /\ LedgerInv /\ PhaseInv
        /\ LateIsRejected /\ QueueInv /\ ChatInv
    BY DEF PortInv, LoopInv
  <1>3. Queued("retire", c) /\ call[c] = "awaiting" /\ promise[c] # "pending" /\ ~Queued("return", c)
    BY <1>1, <1>2, JobRuns DEF SettledOnce
  <1>4. /\ jobs' \in Seq(Jobs) /\ Distinct(jobs')
        /\ \A u, z : Queued(u, z)' <=> (Queued(u, z) /\ ~(u = "retire" /\ z = c)) \/ (u = "return" /\ z = c)
        /\ \A i, k : Before(jobs', i, k) => Before(jobs, i, k) \/ k = Job("return", c)
    BY <1>1, <1>3, JobRunsThen, JobsDiffer
  <1>5. /\ inFlight' \in Seq(Commands) /\ Distinct(inFlight')
        /\ \A x : In(inFlight', x) <=> In(inFlight, x) /\ x # c
    <2>1. inFlight \in Seq(Commands) /\ Distinct(inFlight) /\ \A x : In(inFlight, x) => x \in Commands
      BY <1>2, Ledgers DEF QueueInv, LedgerInv, Ledger, TypeOK
    <2> QED
      BY <1>1, <2>1, KeepProperties
  <1>6. inFlight # <<>>
    BY <1>2, <1>3, Ledgers, QueueNone DEF LedgerInv
  <1>7. TypeOK'
    BY <1>1, <1>2, <1>4, <1>5 DEF TypeOK, Jobs
  <1>8. QueueInv'
    BY <1>4, <1>5 DEF QueueInv
  <1>9. SettledOnce'
    BY <1>1, <1>2, <1>3, <1>4 DEF SettledOnce, TypeOK
  <1>10. NobodyBetween'
    BY <1>1, <1>2, RunsQuiet DEF NobodyBetween, TypeOK
  <1>11. LedgerInv'
    <2>1. \A x : (x \in Ledger)' <=> In(inFlight', x)
      BY <1>5, QueueMembers DEF Ledger
    <2> QED
      BY <1>1, <1>2, <1>3, <1>5, <2>1, Ledgers DEF LedgerInv, TypeOK
  <1>12. PhaseInv'
    BY <1>1, <1>2, <1>4, <1>6, JobsDiffer DEF PhaseInv
  <1>13. LateIsRejected'
    <2>1. ASSUME NEW d \in Disconnects, Before(jobs', Job("stop", d), Job("return", c))
          PROVE  FALSE
      <3>1. Queued("stop", d)'
        BY <2>1 DEF Before, In, Queued
      <3>2. Queued("stop", d)
        BY <1>4, <3>1, JobsDiffer
      <3> QED
        BY <1>2, <1>6, <3>2 DEF PhaseInv
    <2>2. \A d \in Disconnects, e \in Commands :
              Before(jobs', Job("stop", d), Job("return", e)) => promise'[e] = "rejected"
      BY <1>1, <1>2, <1>4, <2>1, JobsDiffer DEF LateIsRejected
    <2> QED
      BY <1>1, <1>2, <1>3, <2>2 DEF LateIsRejected, TypeOK
  <1>14. ChatInv'
    BY <1>1, <1>2, <1>3 DEF ChatInv, ChatsNotShared, TypeOK
  <1> QED
    BY <1>7, <1>8, <1>9, <1>10, <1>11, <1>12, <1>13, <1>14 DEF LoopInv

\* What a Return does to the chats: a session is given the chat it resumed, or one
\* that nobody had.
LEMMA ReturnChats ==
    ASSUME PortInv, NEW c \in Commands, Return(c)
    PROVE  ChatInv' /\ chat' \in [Ids -> Ids \cup {None}] /\ minted' \subseteq Ids
  <1>1. /\ TypeOK /\ ChatInv /\ SettledOnce /\ call[c] = "returned" /\ op' = op
        /\ call' = [call EXCEPT ![c] = "done"]
        /\ chat \in [Ids -> Ids \cup {None}] /\ minted \subseteq Ids /\ op[c] \in Ops
    <2>1. Queued("return", c)
      BY JobRuns DEF Return
    <2> QED
      BY <2>1 DEF PortInv, LoopInv, TypeOK, SettledOnce, Return, ChatInv
  <1>2. CASE UNCHANGED <<chat, minted>>
    BY <1>1, <1>2 DEF ChatInv, ChatsNotShared, TypeOK
  <1>3. ASSUME op[c].does # "connect", NEW id \in Reports(c), id # None,
               chat' = [chat EXCEPT ![IF op[c].does = "newSession" THEN id ELSE op[c].on] = id],
               minted' = minted \cup {id}
        PROVE  ChatInv' /\ chat' \in [Ids -> Ids \cup {None}] /\ minted' \subseteq Ids
    <2> DEFINE s == IF op[c].does = "newSession" THEN id ELSE op[c].on
    <2>1. id \in Ids /\ (op[c].resume # None => id = op[c].resume)
                     /\ (op[c].resume = None => id \notin minted)
      BY <1>1, <1>3 DEF Reports, Ops
    <2>2. op[c].does # "newSession" => op[c].does = "prompt" /\ op[c].on \in Ids
      BY <1>1, <1>3 DEF Ops, ChatInv
    <2>3. s \in Ids
      BY <2>1, <2>2
    <2>4. chat' = [chat EXCEPT ![s] = id]
      BY <1>3
    <2>5. op[c].resume # None => s = op[c].on
      BY <1>1 DEF ChatInv
    <2> HIDE DEF s
    <2>6. \A t \in Ids : chat'[t] = IF t = s THEN id ELSE chat[t]
      BY <1>1, <2>3, <2>4
    <2>7. ASSUME NEW t \in Ids, t # s PROVE chat[t] # id
      BY <1>1, <1>3, <2>1, <2>5, <2>7 DEF ChatInv
    <2>8. ASSUME NEW t \in Ids, chat'[t] # None PROVE chat'[t] \in minted'
      BY <1>1, <1>3, <2>6, <2>8 DEF ChatInv
    <2>9. ChatsNotShared'
      BY <1>1, <2>6, <2>7 DEF ChatInv, ChatsNotShared
    <2>10. ASSUME NEW e \in Commands, op[e].resume # None, NEW t \in Ids, chat'[t] = op[e].resume
           PROVE  t = op[e].on
      <3>1. CASE t # s
        BY <1>1, <2>6, <2>10, <3>1 DEF ChatInv
      <3>2. CASE t = s
        <4>1. op[e].resume = id /\ op[e].resume \in minted
          BY <1>1, <2>6, <2>10, <3>2 DEF ChatInv
        <4>2. op[c].resume = id /\ op[c].resume # None /\ s = op[c].on
          BY <1>3, <2>1, <2>5, <4>1
        <4> QED
          BY <1>1, <2>10, <3>2, <4>1, <4>2 DEF ChatInv
      <3> QED
        BY <3>1, <3>2
    <2>11. \A e \in Commands : op[e].resume # None =>
              /\ op[e].does = "prompt" /\ op[e].resume \in minted'
              /\ \A f \in Commands : op[f].resume = op[e].resume => op[f].on = op[e].on
      BY <1>1, <1>3 DEF ChatInv
    <2>12. \A e \in Commands : call'[e] # "new" => call[e] # "new"
      BY <1>1 DEF TypeOK
    <2>13. \A e \in Commands : /\ call'[e] # "new" => op[e] \in Ops
                               /\ op[e].does = "prompt" => op[e].on \in Ids
      BY <1>1, <2>12 DEF ChatInv
    <2>14. ChatInv'
      BY <1>1, <2>8, <2>9, <2>10, <2>11, <2>13 DEF ChatInv
    <2>15. chat' \in [Ids -> Ids \cup {None}]
      BY <1>1, <2>1, <2>3, <2>4
    <2> QED
      BY <1>1, <1>3, <2>1, <2>14, <2>15
  <1>4. \A id : MintedWith(id) = IF id = None THEN minted ELSE minted \cup {id}
    BY DEF MintedWith
  <1>5. CASE op[c].does = "connect"
    BY <1>2, <1>5 DEF Return
  <1>6. CASE op[c].does # "connect"
    <2>1. PICK id \in Reports(c) :
            /\ chat' = IF id = None THEN chat
                       ELSE [chat EXCEPT ![IF op[c].does = "newSession" THEN id ELSE op[c].on] = id]
            /\ minted' = MintedWith(id)
      BY <1>6 DEF Return
    <2> QED
      BY <1>2, <1>3, <1>4, <1>6, <2>1
  <1> QED
    BY <1>5, <1>6

LEMMA ReturnKeeps ==
    ASSUME PortInv, NEW c \in Commands, Return(c)
    PROVE  TypeOK' /\ LoopInv'
  <1>1. /\ Runs("return", c) /\ jobs' = Tail(jobs) /\ call' = [call EXCEPT ![c] = "done"]
        /\ client' = TRUE
        /\ status' # status => op[c].does = "connect"
        /\ op[c].does = "connect" => status' \in {"error", "connected"}
        /\ UNCHANGED <<promise, child, signal, timers, listening, latch, inFlight, op, joined,
                       phase, polling>>
    BY DEF Return
  <1>2. /\ TypeOK /\ SettledOnce /\ NobodyBetween /\ LedgerInv /\ PhaseInv
        /\ LateIsRejected /\ QueueInv
    BY DEF PortInv, LoopInv
  <1>3. /\ Queued("return", c) /\ ~Announcing /\ jobs' \in Seq(Jobs) /\ Distinct(jobs')
        /\ \A u, z : Queued(u, z)' <=> Queued(u, z) /\ ~(u = "return" /\ z = c)
        /\ \A i, k : Before(jobs', i, k) => Before(jobs, i, k)
    BY <1>1, JobRuns DEF Queued
  <1>4. call[c] = "returned" /\ promise[c] # "pending"
    BY <1>2, <1>3 DEF SettledOnce
  <1>5. ChatInv' /\ chat' \in [Ids -> Ids \cup {None}] /\ minted' \subseteq Ids
    BY ReturnChats
  <1>6. status' \in {"disconnected", "connecting", "connected", "error"}
    BY <1>1, <1>2 DEF TypeOK
  <1>7. TypeOK'
    BY <1>1, <1>2, <1>3, <1>5, <1>6 DEF TypeOK, Jobs
  <1>8. QueueInv'
    BY <1>1, <1>2, <1>3 DEF QueueInv
  <1>9. SettledOnce'
    BY <1>1, <1>2, <1>3, <1>4 DEF SettledOnce, TypeOK
  <1>10. NobodyBetween'
    BY <1>1, <1>2, RunsQuiet DEF NobodyBetween, TypeOK
  <1>11. LedgerInv'
    BY <1>1, <1>2, <1>4 DEF LedgerInv, TypeOK, Ledger
  <1>12. PhaseInv'
    BY <1>1, <1>2, <1>3, JobsDiffer DEF PhaseInv
  <1>13. LateIsRejected'
    BY <1>1, <1>2, <1>3 DEF LateIsRejected, TypeOK
  <1> QED
    BY <1>5, <1>7, <1>8, <1>9, <1>10, <1>11, <1>12, <1>13 DEF LoopInv

LEMMA JoinKeeps ==
    ASSUME PortInv, NEW d \in Disconnects, Join(d)
    PROVE  TypeOK' /\ LoopInv'
  <1>1. /\ ClientMayCall /\ joined[d] = None /\ latch # None
        /\ joined' = [joined EXCEPT ![d] = latch] /\ client' = TRUE
        /\ UNCHANGED <<spawnVars, status, latch, inFlight, call, op, chat, minted, phase, polling>>
    BY DEF Join, Shares
  <1>2. /\ TypeOK /\ SettledOnce /\ NobodyBetween /\ LedgerInv /\ PhaseInv
        /\ LateIsRejected /\ QueueInv /\ ChatInv
    BY DEF PortInv, LoopInv
  <1>3. latch # d /\ latch \in Disconnects
    BY <1>1, <1>2, NoneIsNone DEF PhaseInv, TypeOK
  <1> USE <1>1, <1>2, <1>3 DEF spawnVars
  <1>4. TypeOK'
    BY DEF TypeOK
  <1>5. QueueInv' /\ SettledOnce' /\ LedgerInv' /\ LateIsRejected' /\ ChatInv'
    BY DEF QueueInv, SettledOnce, LedgerInv, LateIsRejected, ChatInv, Queued, Ledger, ChatsNotShared
  <1>6. NobodyBetween'
    BY ClientFindsQuiet DEF NobodyBetween
  <1>7. PhaseInv'
    BY JobsDiffer DEF PhaseInv, Queued, TypeOK
  <1> QED
    BY <1>4, <1>5, <1>6, <1>7 DEF LoopInv

\* The reactions an abort queues: one for each command that was pending.
LEMMA Reacts ==
    ASSUME NEW reacts \in Seq(Commands), Distinct(reacts)
    PROVE  LET q == [i \in DOMAIN reacts |-> Job("retire", reacts[i])]
           IN  /\ q \in Seq(Jobs) /\ Distinct(q)
               /\ \A u, z : In(q, Job(u, z)) <=> u = "retire" /\ In(reacts, z)
  <1> DEFINE q == [i \in DOMAIN reacts |-> Job("retire", reacts[i])]
  <1>1. /\ Len(reacts) \in Nat /\ DOMAIN reacts = 1..Len(reacts)
        /\ \A i \in 1..Len(reacts) : reacts[i] \in Commands
    OBVIOUS
  <1>2. q = [i \in 1..Len(reacts) |-> Job("retire", reacts[i])]
    BY <1>1
  <1>3. q \in Seq(Jobs) /\ Len(q) = Len(reacts)
    BY <1>1, <1>2, JobsDiffer
  <1>4. \A i \in 1..Len(reacts) : q[i] = Job("retire", reacts[i])
    BY <1>2
  <1> HIDE DEF q
  <1>5. Distinct(q)
    BY <1>1, <1>3, <1>4, JobsDiffer DEF Distinct
  <1>6. \A u, z : In(q, Job(u, z)) <=> u = "retire" /\ In(reacts, z)
    BY <1>1, <1>3, <1>4, JobsDiffer DEF In
  <1> QED
    BY <1>3, <1>5, <1>6 DEF q

\* Between a retirement and the next one, what an abort hears is what is pending.
LEMMA AbortFinds ==
    ASSUME PortInv, ClientMayCall
    PROVE  \A c \in Commands : c \in Ledger /\ listening[c] <=> promise[c] = "pending"
  BY ClientFindsQuiet DEF PortInv, LoopInv, LedgerInv, SettledOnce

LEMMA AbortJobs ==
    ASSUME PortInv, ClientMayCall, NEW more \in Seq(Jobs), Distinct(more),
           \A c \in Commands : ~In(more, Job("retire", c)),
           \A j : ~(In(jobs, j) /\ In(more, j)), AbortAll(inFlight, more)
    PROVE  /\ promise' = [c \in Commands |->
                            IF promise[c] = "pending" THEN "rejected" ELSE promise[c]]
           /\ signal' = [c \in Commands |-> IF promise[c] = "pending" THEN "TERM" ELSE signal[c]]
           /\ timers' = [c \in Commands |->
                            IF promise[c] = "pending" THEN {"kill"} ELSE timers[c]]
           /\ listening' = [c \in Commands |-> listening[c] /\ promise[c] # "pending"]
           /\ child' = child
           /\ jobs' \in Seq(Jobs) /\ Distinct(jobs')
           /\ \A u, z : Queued(u, z)' <=>
                   \/ Queued(u, z) \/ In(more, Job(u, z))
                   \/ u = "retire" /\ z \in Commands /\ promise[z] = "pending"
           /\ \A i, k : Before(jobs', i, k) =>
                   Before(jobs, i, k) \/ In(more, k) \/ \E c \in Commands : k = Job("retire", c)
  <1> DEFINE Hit == {inFlight[i] : i \in DOMAIN inFlight} \cap {c \in Commands : listening[c]}
             live == {c \in Hit : promise[c] = "pending"}
             reacts == Keep(inFlight, live)
             q == [i \in DOMAIN reacts |-> Job("retire", reacts[i])]
  <1>1. \A c : c \in Hit <=> c \in Commands /\ promise[c] = "pending"
    BY AbortFinds DEF Ledger
  <1>2. /\ promise' = [c \in Commands |->
                IF c \in Hit /\ promise[c] = "pending" THEN "rejected" ELSE promise[c]]
        /\ signal' = [c \in Commands |-> IF c \in Hit THEN "TERM" ELSE signal[c]]
        /\ timers' = [c \in Commands |->
                IF c \in Hit THEN KillChild(timers[c] \ {"timeout"}) ELSE timers[c]]
        /\ listening' = [c \in Commands |-> listening[c] /\ c \notin Hit]
        /\ UNCHANGED child
        /\ jobs' = (jobs \o q) \o more
    BY DEF AbortAll, Settled, Rejects
  <1>3. \A c \in Commands : promise[c] = "pending" => timers[c] = {"timeout"}
    BY DEF PortInv, LoopInv, SettledOnce
  <1>4. /\ inFlight \in Seq(Commands) /\ Distinct(inFlight) /\ jobs \in Seq(Jobs) /\ Distinct(jobs)
        /\ \A c \in Commands : promise[c] = "pending" => In(inFlight, c)
        /\ \A c \in Commands : Queued("retire", c) => promise[c] # "pending"
    BY Ledgers DEF PortInv, LoopInv, QueueInv, LedgerInv, SettledOnce
  <1>5. \A c : c \in live <=> c \in Commands /\ promise[c] = "pending"
    BY <1>1
  <1> HIDE DEF Hit
  <1>6. /\ reacts \in Seq(Commands) /\ Distinct(reacts)
        /\ \A x : In(reacts, x) <=> x \in Commands /\ promise[x] = "pending"
    <2> HIDE DEF live
    <2>1. /\ reacts \in Seq(Commands) /\ Distinct(reacts)
          /\ \A x : In(reacts, x) <=> In(inFlight, x) /\ x \in live
      BY <1>4, KeepProperties
    <2> HIDE DEF reacts
    <2> QED
      BY <1>4, <1>5, <2>1
  <1> HIDE DEF reacts
  <1>7. /\ q \in Seq(Jobs) /\ Distinct(q)
        /\ \A u, z : In(q, Job(u, z)) <=> u = "retire" /\ In(reacts, z)
    BY <1>6, Reacts
  <1>8. \A j : In(q, j) => \E c \in Commands : j = Job("retire", c) /\ In(reacts, c)
    <2>1. \A j : In(q, j) => \E i \in DOMAIN reacts : j = Job("retire", reacts[i])
      <3>1. DOMAIN reacts = 1..Len(reacts) /\ Len(q) = Len(reacts)
        BY <1>6
      <3> QED
        BY <3>1 DEF In
    <2>2. \A i \in DOMAIN reacts : reacts[i] \in Commands /\ In(reacts, reacts[i])
      BY <1>6 DEF In
    <2> QED
      BY <2>1, <2>2
  <1> HIDE DEF q
  <1>9. \A j : ~(In(jobs, j) /\ In(q, j))
    BY <1>4, <1>6, <1>8 DEF Queued
  <1> DEFINE p == jobs \o q
  <1>10. /\ p \in Seq(Jobs) /\ Distinct(p)
         /\ \A x : In(p, x) <=> In(jobs, x) \/ In(q, x)
         /\ \A x, y : Before(p, x, y) => Before(jobs, x, y) \/ In(q, y)
    BY <1>4, <1>7, <1>9, QueueConcat
  <1>11. jobs' = p \o more
    BY <1>2
  <1> HIDE DEF p
  <1>12. \A j : ~(In(p, j) /\ In(more, j))
    BY <1>8, <1>10
  <1>13. /\ p \o more \in Seq(Jobs) /\ Distinct(p \o more)
         /\ \A x : In(p \o more, x) <=> In(p, x) \/ In(more, x)
         /\ \A x, y : Before(p \o more, x, y) => Before(p, x, y) \/ In(more, y)
    BY <1>10, <1>12, QueueConcat
  <1>14. \A u, z : Queued(u, z)' <=>
                   \/ Queued(u, z) \/ In(more, Job(u, z))
                   \/ u = "retire" /\ z \in Commands /\ promise[z] = "pending"
    BY <1>6, <1>7, <1>10, <1>11, <1>13 DEF Queued
  <1>15. \A i, k : Before(jobs', i, k) =>
                   Before(jobs, i, k) \/ In(more, k) \/ \E c \in Commands : k = Job("retire", c)
    BY <1>8, <1>10, <1>11, <1>13
  <1>16. timers' = [c \in Commands |-> IF promise[c] = "pending" THEN {"kill"} ELSE timers[c]]
    <2>1. KillChild({"timeout"} \ {"timeout"}) = {"kill"}
      BY KillOnce
    <2> QED
      BY <1>1, <1>2, <1>3, <2>1
  <1> QED
    BY <1>1, <1>2, <1>11, <1>13, <1>14, <1>15, <1>16

------------------------------------------------------------------------------
(* disconnect *)

\* What a shutdown does to the commands, and what it queues.
LEMMA ShutdownAborts ==
    ASSUME PortInv, NEW d \in Disconnects, Shutdown(d)
    PROVE  /\ promise' = [c \in Commands |->
                            IF promise[c] = "pending" THEN "rejected" ELSE promise[c]]
           /\ signal' = [c \in Commands |-> IF promise[c] = "pending" THEN "TERM" ELSE signal[c]]
           /\ timers' = [c \in Commands |->
                            IF promise[c] = "pending" THEN {"kill"} ELSE timers[c]]
           /\ listening' = [c \in Commands |-> listening[c] /\ promise[c] # "pending"]
           /\ child' = child
           /\ jobs' \in Seq(Jobs) /\ Distinct(jobs')
           /\ \A u, z : Queued(u, z)' <=>
                   \/ Queued(u, z) \/ (inFlight = <<>> /\ u = "stop" /\ z = d)
                   \/ u = "retire" /\ z \in Commands /\ promise[z] = "pending"
           /\ \A i, k : Before(jobs', i, k) =>
                   Before(jobs, i, k) \/ k = Job("stop", d) \/ \E c \in Commands : k = Job("retire", c)
           /\ phase[d] = "none"
           /\ \A e \in Disconnects : polling # e /\ ~Queued("recheck", e) /\ ~Queued("stop", e)
  <1> DEFINE more == IF inFlight = <<>> THEN <<Job("stop", d)>> ELSE <<>>
  <1>1. /\ ClientMayCall /\ joined[d] = None /\ latch = None
        /\ joined' = [joined EXCEPT ![d] = d] /\ phase' = [phase EXCEPT ![d] = "draining"]
        /\ latch' = d /\ AbortAll(inFlight, more) /\ client' = TRUE
        /\ polling' = IF inFlight = <<>> THEN polling ELSE d
        /\ UNCHANGED <<status, inFlight, call, op, chat, minted>>
    BY DEF Shutdown, Shares
  <1>2. /\ TypeOK /\ SettledOnce /\ NobodyBetween /\ LedgerInv /\ PhaseInv
        /\ LateIsRejected /\ QueueInv /\ ChatInv
    BY DEF PortInv, LoopInv
  <1>3. /\ phase[d] = "none"
        /\ \A e \in Disconnects : polling # e /\ ~Queued("recheck", e) /\ ~Queued("stop", e)
    BY <1>1, <1>2, JobsDiffer DEF PhaseInv, TypeOK
  <1>4. /\ more \in Seq(Jobs) /\ Distinct(more)
        /\ \A j : In(more, j) <=> inFlight = <<>> /\ j = Job("stop", d)
    BY QueueOne, QueueNone, JobsDiffer
  <1> HIDE DEF more
  <1>5. (\A c \in Commands : ~In(more, Job("retire", c))) /\ \A j : ~(In(jobs, j) /\ In(more, j))
    BY <1>3, <1>4, JobsDiffer DEF Queued
  <1>6. /\ promise' = [c \in Commands |->
                            IF promise[c] = "pending" THEN "rejected" ELSE promise[c]]
        /\ signal' = [c \in Commands |-> IF promise[c] = "pending" THEN "TERM" ELSE signal[c]]
        /\ timers' = [c \in Commands |->
                            IF promise[c] = "pending" THEN {"kill"} ELSE timers[c]]
        /\ listening' = [c \in Commands |-> listening[c] /\ promise[c] # "pending"]
        /\ child' = child
        /\ jobs' \in Seq(Jobs) /\ Distinct(jobs')
        /\ \A u, z : Queued(u, z)' <=>
                   \/ Queued(u, z) \/ In(more, Job(u, z))
                   \/ u = "retire" /\ z \in Commands /\ promise[z] = "pending"
        /\ \A i, k : Before(jobs', i, k) =>
                   Before(jobs, i, k) \/ In(more, k) \/ \E c \in Commands : k = Job("retire", c)
    BY <1>1, <1>4, <1>5, AbortJobs
  <1> QED
    BY <1>3, <1>4, <1>6, JobsDiffer

LEMMA ShutdownKeeps ==
    ASSUME PortInv, NEW d \in Disconnects, Shutdown(d)
    PROVE  TypeOK' /\ LoopInv'
  <1>1. /\ ClientMayCall /\ joined[d] = None /\ latch = None
        /\ joined' = [joined EXCEPT ![d] = d] /\ phase' = [phase EXCEPT ![d] = "draining"]
        /\ latch' = d /\ client' = TRUE
        /\ polling' = IF inFlight = <<>> THEN polling ELSE d
        /\ UNCHANGED <<status, inFlight, call, op, chat, minted>>
    BY DEF Shutdown, Shares
  <1>2. /\ TypeOK /\ SettledOnce /\ NobodyBetween /\ LedgerInv /\ PhaseInv
        /\ LateIsRejected /\ QueueInv /\ ChatInv
    BY DEF PortInv, LoopInv
  <1>3. /\ phase[d] = "none"
        /\ \A e \in Disconnects : polling # e /\ ~Queued("recheck", e) /\ ~Queued("stop", e)
    BY ShutdownAborts
  <1>6. /\ promise' = [c \in Commands |->
                            IF promise[c] = "pending" THEN "rejected" ELSE promise[c]]
        /\ signal' = [c \in Commands |-> IF promise[c] = "pending" THEN "TERM" ELSE signal[c]]
        /\ timers' = [c \in Commands |->
                            IF promise[c] = "pending" THEN {"kill"} ELSE timers[c]]
        /\ listening' = [c \in Commands |-> listening[c] /\ promise[c] # "pending"]
        /\ child' = child
        /\ jobs' \in Seq(Jobs) /\ Distinct(jobs')
        /\ \A u, z : Queued(u, z)' <=>
                   \/ Queued(u, z) \/ (inFlight = <<>> /\ u = "stop" /\ z = d)
                   \/ u = "retire" /\ z \in Commands /\ promise[z] = "pending"
        /\ \A i, k : Before(jobs', i, k) =>
                   Before(jobs, i, k) \/ k = Job("stop", d) \/ \E c \in Commands : k = Job("retire", c)
    BY ShutdownAborts
  <1>7. TypeOK'
    BY <1>1, <1>2, <1>6 DEF TypeOK, Jobs, Phases
  <1>8. QueueInv'
    BY <1>1, <1>2, <1>6 DEF QueueInv
  <1>9. SettledOnce'
    BY <1>1, <1>2, <1>6, JobsDiffer DEF SettledOnce
  <1>10. NobodyBetween'
    BY <1>1, <1>2, <1>6, ClientFindsQuiet DEF NobodyBetween
  <1>11. LedgerInv'
    BY <1>1, <1>2, <1>6 DEF LedgerInv, Ledger
  <1>12. PhaseInv'
    <2>1. \A e \in Disconnects :
            /\ phase'[e] = IF e = d THEN "draining" ELSE phase[e]
            /\ joined'[e] = IF e = d THEN d ELSE joined[e]
            /\ phase[e] \notin {"draining", "announcing", "stopped"}
      BY <1>1, <1>2, JobsDiffer DEF PhaseInv, TypeOK
    <2>2. \A e \in Disconnects : polling' = e <=> e = d /\ inFlight # <<>>
      BY <1>1, <1>3
    <2>3. ASSUME NEW e \in Disconnects
          PROVE  /\ Queued("release", e)' <=> Queued("release", e)
                 /\ Queued("settle", e)' <=> Queued("settle", e)
                 /\ ~Queued("recheck", e)'
                 /\ Queued("stop", e)' <=> e = d /\ inFlight = <<>>
      <3>1. \A u \in {"release", "settle", "recheck", "stop"} :
                Queued(u, e)' <=> Queued(u, e) \/ (inFlight = <<>> /\ u = "stop" /\ e = d)
        BY <1>6, JobsDiffer
      <3> QED
        BY <1>3, <3>1
    <2>4. ASSUME NEW e \in Disconnects, e = d
          PROVE  /\ phase[e] = "none" /\ ~Queued("release", e) /\ ~Queued("settle", e)
                 /\ latch' = e /\ joined'[e] = e /\ phase'[e] = "draining"
      BY <1>1, <1>2, <1>3, <2>1, <2>4 DEF PhaseInv
    <2>5. ASSUME NEW e \in Disconnects, e # d
          PROVE  latch' # e /\ phase'[e] = phase[e] /\ joined'[e] = joined[e]
      BY <1>1, <2>1, <2>5
    <2> QED
      BY <1>1, <1>2, <1>3, <2>1, <2>2, <2>3, <2>4, <2>5 DEF PhaseInv
  <1>13. LateIsRejected'
    <2>1. \A e \in Disconnects, c \in Commands :
             Before(jobs', Job("stop", e), Job("return", c))
                => Before(jobs, Job("stop", e), Job("return", c))
      BY <1>6, JobsDiffer
    <2>2. \A c \in Commands : promise[c] = "rejected" => promise'[c] = "rejected"
      BY <1>6
    <2> QED
      BY <1>1, <1>2, <2>1, <2>2 DEF LateIsRejected
  <1>14. ChatInv'
    BY <1>1, <1>2 DEF ChatInv, ChatsNotShared
  <1> QED
    BY <1>7, <1>8, <1>9, <1>10, <1>11, <1>12, <1>13, <1>14 DEF LoopInv

\* A step of a shutdown leaves the commands alone.
LEMMA CommandsLeftAlone ==
    ASSUME PortInv, jobs' \in Seq(Jobs), Distinct(jobs'),
           UNCHANGED <<promise, child, signal, timers, listening, inFlight, call, op, chat,
                       minted, joined>>,
           \A c \in Commands : /\ Queued("retire", c)' <=> Queued("retire", c)
                               /\ Queued("return", c)' <=> Queued("return", c)
                               /\ call[c] = "awaiting" /\ listening[c] => promise[c] = "pending",
           latch' = latch \/ latch' = None
    PROVE  QueueInv' /\ SettledOnce' /\ NobodyBetween' /\ LedgerInv' /\ ChatInv'
  <1>1. QueueInv /\ SettledOnce /\ LedgerInv /\ ChatInv
    BY DEF PortInv, LoopInv
  <1>2. QueueInv' /\ SettledOnce'
    BY <1>1 DEF QueueInv, SettledOnce
  <1>3. NobodyBetween'
    BY DEF NobodyBetween
  <1>4. LedgerInv'
    BY <1>1 DEF LedgerInv, Ledger
  <1>5. ChatInv'
    BY <1>1 DEF ChatInv, ChatsNotShared
  <1> QED
    BY <1>2, <1>3, <1>4, <1>5

\* A command that waits in silence has no job in the queue when a timer fires.
LEMMA TimerFindsQuiet ==
    ASSUME PortInv, jobs = <<>>
    PROVE  /\ \A u, z : ~Queued(u, z)
           /\ \A c \in Commands : call[c] = "awaiting" => promise[c] = "pending"
  <1>1. \A u, z : ~Queued(u, z)
    BY NoJobs
  <1> QED
    BY <1>1 DEF PortInv, LoopInv, SettledOnce

LEMMA PollKeeps ==
    ASSUME PortInv, NEW d \in Disconnects, Poll(d)
    PROVE  TypeOK' /\ LoopInv'
  <1>1. /\ jobs = <<>> /\ ~Announcing /\ polling = d /\ polling' = None
        /\ jobs' = <<Job("recheck", d)>> /\ client' = FALSE
        /\ UNCHANGED <<promise, child, signal, timers, listening, status, latch, inFlight, call,
                       op, chat, minted, joined, phase>>
    BY DEF Poll
  <1>2. TypeOK /\ PhaseInv /\ LedgerInv /\ LateIsRejected
    BY DEF PortInv, LoopInv
  <1>3. /\ jobs' \in Seq(Jobs) /\ Distinct(jobs')
        /\ \A u, z : Queued(u, z)' <=> u = "recheck" /\ z = d
        /\ \A i, k : ~Before(jobs', i, k)
    BY <1>1, JobAlone, JobsDiffer
  <1>4. /\ \A u, z : ~Queued(u, z)
        /\ \A c \in Commands : call[c] = "awaiting" => promise[c] = "pending"
    BY <1>1, TimerFindsQuiet
  <1>5. TypeOK'
    BY <1>1, <1>2, <1>3 DEF TypeOK, Jobs
  <1>6. QueueInv' /\ SettledOnce' /\ NobodyBetween' /\ LedgerInv' /\ ChatInv'
    BY <1>1, <1>3, <1>4, CommandsLeftAlone
  <1>7. inFlight = <<>>
    <2>1. latch = d
      BY <1>1, <1>2 DEF PhaseInv
    <2>2. \A c \in Commands : c \notin Ledger
      BY <1>2, <1>4, <2>1, JobsDiffer DEF LedgerInv
    <2>3. inFlight \in Seq(Commands) /\ \A c : ~In(inFlight, c)
      BY <1>2, <2>2, Ledgers DEF TypeOK, Ledger
    <2> SUFFICES ASSUME inFlight # <<>> PROVE FALSE
      OBVIOUS
    <2> QED
      BY <2>3, QueueTail
  <1>8. PhaseInv'
    BY <1>1, <1>2, <1>3, <1>4, <1>7, JobsDiffer DEF PhaseInv
  <1>9. LateIsRejected'
    BY <1>1, <1>2, <1>3 DEF LateIsRejected
  <1> QED
    BY <1>5, <1>6, <1>8, <1>9 DEF LoopInv

LEMMA RecheckKeeps ==
    ASSUME PortInv, NEW d \in Disconnects, Recheck(d)
    PROVE  TypeOK' /\ LoopInv' /\ inFlight = <<>>
  <1>1. /\ Runs("recheck", d)
        /\ UNCHANGED <<promise, child, signal, timers, listening, status, latch, inFlight, call,
                       op, chat, minted, joined, phase, client>>
    BY DEF Recheck
  <1>2. TypeOK /\ PhaseInv /\ LateIsRejected /\ SettledOnce /\ LedgerInv
    BY DEF PortInv, LoopInv
  <1>3. Queued("recheck", d) /\ inFlight = <<>> /\ ~Queued("stop", d) /\ polling # d
    BY <1>1, <1>2, JobRuns DEF PhaseInv
  <1>4. Then("stop", d) /\ UNCHANGED polling
    BY <1>3 DEF Recheck
  <1>5. /\ jobs' \in Seq(Jobs) /\ Distinct(jobs')
        /\ \A u, z : Queued(u, z)' <=>
                (Queued(u, z) /\ ~(u = "recheck" /\ z = d)) \/ (u = "stop" /\ z = d)
        /\ \A i, k : Before(jobs', i, k) => Before(jobs, i, k) \/ k = Job("stop", d)
    BY <1>1, <1>3, <1>4, JobRunsThen, JobsDiffer
  <1>6. TypeOK'
    BY <1>1, <1>2, <1>4, <1>5 DEF TypeOK, Jobs
  <1>7. \A c \in Commands : call[c] = "awaiting" /\ listening[c] => promise[c] = "pending"
    BY <1>1, RunsQuiet
  <1>8. QueueInv' /\ SettledOnce' /\ NobodyBetween' /\ LedgerInv' /\ ChatInv'
    BY <1>1, <1>5, <1>7, CommandsLeftAlone
  <1>9. PhaseInv'
    BY <1>1, <1>2, <1>3, <1>4, <1>5, JobsDiffer DEF PhaseInv
  <1>10. LateIsRejected'
    BY <1>1, <1>2, <1>5, JobsDiffer DEF LateIsRejected
  <1> QED
    BY <1>3, <1>6, <1>8, <1>9, <1>10 DEF LoopInv

LEMMA StopKeeps ==
    ASSUME PortInv, NEW d \in Disconnects, Stop(d)
    PROVE  TypeOK' /\ LoopInv' /\ inFlight = <<>>
  <1>1. /\ Runs("stop", d) /\ jobs' = Tail(jobs) /\ status' = "disconnected"
        /\ phase' = [phase EXCEPT ![d] = "announcing"] /\ client' = TRUE
        /\ UNCHANGED <<promise, child, signal, timers, listening, latch, inFlight, call, op,
                       chat, minted, joined, polling>>
    BY DEF Stop
  <1>2. TypeOK /\ PhaseInv /\ LateIsRejected /\ SettledOnce /\ LedgerInv
    BY DEF PortInv, LoopInv
  <1>3. /\ Queued("stop", d) /\ jobs' \in Seq(Jobs) /\ Distinct(jobs')
        /\ \A u, z : Queued(u, z)' <=> Queued(u, z) /\ ~(u = "stop" /\ z = d)
        /\ \A i, k : Before(jobs', i, k) => Before(jobs, i, k)
        /\ \A v, y : Queued(v, y) /\ ~(v = "stop" /\ y = d) => Before(jobs, Job("stop", d), Job(v, y))
    BY <1>1, JobRuns DEF Queued
  <1>4. inFlight = <<>> /\ ~Queued("recheck", d) /\ polling # d /\ phase[d] = "draining"
    BY <1>2, <1>3 DEF PhaseInv
  <1>5. TypeOK'
    BY <1>1, <1>2, <1>3 DEF TypeOK, Jobs, Phases
  <1>6. \A c \in Commands : call[c] = "awaiting" /\ listening[c] => promise[c] = "pending"
    BY <1>1, RunsQuiet
  <1>7. QueueInv' /\ SettledOnce' /\ NobodyBetween' /\ LedgerInv' /\ ChatInv'
    BY <1>1, <1>3, <1>6, CommandsLeftAlone
  <1>8. PhaseInv'
    BY <1>1, <1>2, <1>3, <1>4, JobsDiffer DEF PhaseInv, TypeOK
  <1>9. LateIsRejected'
    <2>1. ASSUME NEW c \in Commands, call[c] \in {"awaiting", "returned"} PROVE promise[c] = "rejected"
      <3>1. c \notin Ledger
        BY <1>2, <1>4, Ledgers, QueueNone
      <3>2. call[c] = "returned" /\ Queued("return", c)
        BY <1>2, <2>1, <3>1 DEF LedgerInv, SettledOnce
      <3> QED
        BY <1>2, <1>3, <3>2 DEF LateIsRejected
    <2> QED
      BY <1>1, <1>2, <1>3, <2>1 DEF LateIsRejected
  <1> QED
    BY <1>4, <1>5, <1>7, <1>8, <1>9 DEF LoopInv

LEMMA AnnouncedKeeps ==
    ASSUME PortInv, NEW d \in Disconnects, Announced(d)
    PROVE  TypeOK' /\ LoopInv'
  <1>1. /\ phase[d] = "announcing" /\ phase' = [phase EXCEPT ![d] = "stopped"]
        /\ jobs' = Append(jobs, Job("release", d))
        /\ UNCHANGED <<promise, child, signal, timers, listening, status, latch, inFlight, call,
                       op, chat, minted, joined, polling, client>>
    BY DEF Announced
  <1>2. TypeOK /\ PhaseInv /\ LateIsRejected
    BY DEF PortInv, LoopInv
  <1>3. ~Queued("release", d)
    BY <1>1, <1>2 DEF PhaseInv
  <1>4. /\ jobs' \in Seq(Jobs) /\ Distinct(jobs')
        /\ \A u, z : Queued(u, z)' <=> Queued(u, z) \/ (u = "release" /\ z = d)
        /\ \A i, k : Before(jobs', i, k) => Before(jobs, i, k) \/ k = Job("release", d)
    BY <1>1, <1>3, JobAdded, JobsDiffer
  <1>5. TypeOK'
    BY <1>1, <1>2, <1>4 DEF TypeOK, Jobs, Phases
  <1>6. \A c \in Commands : call[c] = "awaiting" /\ listening[c] => promise[c] = "pending"
    BY <1>1, ClientFindsQuiet DEF Announcing
  <1>7. QueueInv' /\ SettledOnce' /\ NobodyBetween' /\ LedgerInv' /\ ChatInv'
    BY <1>1, <1>4, <1>6, CommandsLeftAlone
  <1>8. PhaseInv'
    BY <1>1, <1>2, <1>4, JobsDiffer DEF PhaseInv, TypeOK
  <1>9. LateIsRejected'
    BY <1>1, <1>2, <1>4, JobsDiffer DEF LateIsRejected
  <1> QED
    BY <1>5, <1>7, <1>8, <1>9 DEF LoopInv

LEMMA ReleaseKeeps ==
    ASSUME PortInv, NEW d \in Disconnects, Release(d)
    PROVE  TypeOK' /\ LoopInv'
  <1>1. /\ Runs("release", d) /\ Then("settle", d) /\ latch' = None
        /\ phase' = [phase EXCEPT ![d] = "released"]
        /\ UNCHANGED <<promise, child, signal, timers, listening, status, inFlight, call, op,
                       chat, minted, joined, polling, client>>
    BY DEF Release, FreedLatch
  <1>2. TypeOK /\ PhaseInv /\ LateIsRejected
    BY DEF PortInv, LoopInv
  <1>3. Queued("release", d) /\ phase[d] = "stopped" /\ ~Queued("settle", d) /\ latch = d
    BY <1>1, <1>2, JobRuns DEF PhaseInv
  <1>4. /\ jobs' \in Seq(Jobs) /\ Distinct(jobs')
        /\ \A u, z : Queued(u, z)' <=>
                (Queued(u, z) /\ ~(u = "release" /\ z = d)) \/ (u = "settle" /\ z = d)
        /\ \A i, k : Before(jobs', i, k) => Before(jobs, i, k) \/ k = Job("settle", d)
    BY <1>1, <1>3, JobRunsThen, JobsDiffer
  <1>5. TypeOK'
    BY <1>1, <1>2, <1>4 DEF TypeOK, Jobs, Phases
  <1>6. \A c \in Commands : call[c] = "awaiting" /\ listening[c] => promise[c] = "pending"
    BY <1>1, RunsQuiet
  <1>7. QueueInv' /\ SettledOnce' /\ NobodyBetween' /\ LedgerInv' /\ ChatInv'
    BY <1>1, <1>4, <1>6, CommandsLeftAlone
  <1>8. PhaseInv'
    BY <1>1, <1>2, <1>3, <1>4, JobsDiffer DEF PhaseInv, TypeOK
  <1>9. LateIsRejected'
    BY <1>1, <1>2, <1>4, JobsDiffer DEF LateIsRejected
  <1> QED
    BY <1>5, <1>7, <1>8, <1>9 DEF LoopInv

LEMMA SettleKeeps ==
    ASSUME PortInv, NEW d \in Disconnects, SettleShutdown(d)
    PROVE  TypeOK' /\ LoopInv'
  <1>1. /\ Runs("settle", d) /\ jobs' = Tail(jobs) /\ client' = TRUE
        /\ phase' = [phase EXCEPT ![d] = "done"]
        /\ UNCHANGED <<promise, child, signal, timers, listening, status, latch, inFlight, call,
                       op, chat, minted, joined, polling>>
    BY DEF SettleShutdown
  <1>2. TypeOK /\ PhaseInv /\ LateIsRejected
    BY DEF PortInv, LoopInv
  <1>3. /\ Queued("settle", d) /\ jobs' \in Seq(Jobs) /\ Distinct(jobs')
        /\ \A u, z : Queued(u, z)' <=> Queued(u, z) /\ ~(u = "settle" /\ z = d)
        /\ \A i, k : Before(jobs', i, k) => Before(jobs, i, k)
    BY <1>1, JobRuns DEF Queued
  <1>4. phase[d] = "released"
    BY <1>2, <1>3 DEF PhaseInv
  <1>5. TypeOK'
    BY <1>1, <1>2, <1>3 DEF TypeOK, Jobs, Phases
  <1>6. \A c \in Commands : call[c] = "awaiting" /\ listening[c] => promise[c] = "pending"
    BY <1>1, RunsQuiet
  <1>7. QueueInv' /\ SettledOnce' /\ NobodyBetween' /\ LedgerInv' /\ ChatInv'
    BY <1>1, <1>3, <1>6, CommandsLeftAlone
  <1>8. PhaseInv'
    BY <1>1, <1>2, <1>3, <1>4, JobsDiffer DEF PhaseInv, TypeOK
  <1>9. LateIsRejected'
    BY <1>1, <1>2, <1>3 DEF LateIsRejected
  <1> QED
    BY <1>5, <1>7, <1>8, <1>9 DEF LoopInv

------------------------------------------------------------------------------
(* Timers and children *)

\* A timer or an event of a child changes that command and queues at most its reaction.
LEMMA SpawnEventKeeps ==
    ASSUME PortInv, NEW c \in Commands, SpawnEvent(c)
    PROVE  TypeOK' /\ LoopInv'
  <1>1. /\ jobs = <<>> /\ ~Announcing /\ client' = FALSE
        /\ UNCHANGED <<status, latch, inFlight, call, op, chat, minted, joined, phase, polling>>
    BY DEF SpawnEvent, Timeout, KillTimer, Close, SpawnError, ChildGone
  <1>2. /\ TypeOK /\ ChildInv /\ SettledOnce /\ LedgerInv /\ PhaseInv /\ LateIsRejected /\ ChatInv
        /\ QueueInv
    BY DEF PortInv, LoopInv
  <1>3. /\ \A u, z : ~Queued(u, z)
        /\ \A e \in Commands : call[e] = "awaiting" => promise[e] = "pending"
    BY <1>1, TimerFindsQuiet
  <1>4. ChatInv'
    BY <1>1, <1>2 DEF ChatInv, ChatsNotShared
  <1>5. ASSUME NEW how \in {"resolved", "rejected"}, Timeout(c) \/ ChildGone(c, how),
               promise[c] = "pending"
        PROVE  TypeOK' /\ LoopInv'
    <2> DEFINE to == IF Timeout(c) THEN "rejected" ELSE how
    <2>1. to \in {"resolved", "rejected"}
      OBVIOUS
    <2>2. /\ promise' = [e \in Commands |-> IF e = c THEN to ELSE promise[e]]
          /\ jobs' = <<Job("retire", c)>>
      <3>1. CASE Timeout(c)
        BY <1>5, <3>1 DEF Timeout, Settled, Reaction
      <3>2. CASE ~Timeout(c)
        <4>1. ChildGone(c, how)
          BY <1>5, <3>2
        <4> QED
          BY <1>5, <3>2, <4>1 DEF ChildGone, Settled, Reaction
      <3> QED
        BY <3>1, <3>2
    <2> HIDE DEF to
    <2>3. /\ timers' \in [Commands -> SUBSET {"timeout", "kill"}]
          /\ "timeout" \notin timers'[c] /\ \A e \in Commands : e # c => timers'[e] = timers[e]
          /\ signal' \in [Commands -> {"none", "TERM", "KILL"}]
          /\ child' \in [Commands -> {"none", "running", "gone"}]
          /\ listening' \in [Commands -> BOOLEAN] /\ \A e \in Commands : e # c => listening'[e] = listening[e]
      <3>1. CASE Timeout(c)
        <4>1. timers' = [timers EXCEPT ![c] = {"kill"}]
          <5>1. timers[c] = {"timeout"}
            BY <1>2, <1>5 DEF SettledOnce
          <5>2. KillChild({"timeout"} \ {"timeout"}) = {"kill"}
            BY KillOnce
          <5>3. timers' = [timers EXCEPT ![c] = KillChild(timers[c] \ {"timeout"})]
            BY <3>1 DEF Timeout
          <5> QED
            BY <5>1, <5>2, <5>3
        <4>2. signal' = [signal EXCEPT ![c] = "TERM"] /\ UNCHANGED <<child, listening>>
          BY <3>1 DEF Timeout
        <4> QED
          BY <1>2, <4>1, <4>2 DEF TypeOK, ChildInv, ChildTypes
      <3>2. CASE ChildGone(c, how)
        BY <1>2, <3>2 DEF ChildGone, TypeOK, ChildInv, ChildTypes
      <3> QED
        BY <1>5, <3>1, <3>2
    <2>4. /\ jobs' \in Seq(Jobs) /\ Distinct(jobs')
          /\ \A u, z : Queued(u, z)' <=> u = "retire" /\ z = c
          /\ \A i, k : ~Before(jobs', i, k)
      BY <2>2, JobAlone, JobsDiffer
    <2>5. TypeOK'
      BY <1>1, <1>2, <2>1, <2>2, <2>3, <2>4 DEF TypeOK, Jobs
    <2>6. QueueInv'
      BY <1>1, <1>2, <2>4 DEF QueueInv
    <2>7. SettledOnce'
      <3>1. call[c] = "awaiting"
        BY <1>2, <1>5 DEF SettledOnce
      <3>2. \A e \in Commands : promise'[e] = IF e = c THEN to ELSE promise[e]
        BY <2>2
      <3>3. ASSUME NEW e \in Commands, e # c
            PROVE  /\ promise'[e] = "none" <=> call'[e] = "new"
                   /\ promise'[e] = "pending" =>
                         call'[e] = "awaiting" /\ listening'[e] /\ timers'[e] = {"timeout"}
                   /\ "timeout" \in timers'[e] => promise'[e] = "pending"
                   /\ Queued("retire", e)' <=> call'[e] = "awaiting" /\ promise'[e] # "pending"
                   /\ Queued("return", e)' <=> call'[e] = "returned"
        BY <1>1, <1>2, <1>3, <2>3, <2>4, <3>2, <3>3 DEF SettledOnce
      <3>4. /\ promise'[c] # "none" /\ promise'[c] # "pending" /\ call'[c] = "awaiting"
            /\ Queued("retire", c)' /\ ~Queued("return", c)'
        BY <1>1, <2>1, <2>4, <3>1, <3>2
      <3> QED
        BY <2>3, <3>3, <3>4 DEF SettledOnce
    <2>8. NobodyBetween'
      <3>1. \A e \in Commands : e # c => promise'[e] = promise[e]
        BY <2>2
      <3> QED
        BY <1>1, <1>3, <2>2, <3>1 DEF NobodyBetween, Announcing
    <2>9. LedgerInv'
      BY <1>1, <1>2, <2>1, <2>2 DEF LedgerInv, Ledger
    <2>10. PhaseInv'
      BY <1>1, <1>2, <1>3, <2>4, JobsDiffer DEF PhaseInv
    <2>11. LateIsRejected'
      <3>1. status # "disconnected" \/ op[c].does # "connect"
        <4>1. call[c] = "awaiting"
          BY <1>2, <1>5 DEF SettledOnce
        <4> QED
          BY <1>2, <1>5, <4>1 DEF LateIsRejected
      <3> QED
        BY <1>1, <1>2, <2>2, <2>4, <3>1 DEF LateIsRejected
    <2> QED
      BY <1>4, <2>5, <2>6, <2>7, <2>8, <2>9, <2>10, <2>11 DEF LoopInv
  <1>6. ASSUME UNCHANGED <<promise, jobs>>, \A e \in Commands : listening'[e] => listening[e],
               \A e \in Commands : promise[e] = "pending" => listening'[e] = listening[e],
               timers' \in [Commands -> SUBSET {"timeout", "kill"}],
               \A e \in Commands : "timeout" \in timers'[e] => "timeout" \in timers[e],
               \A e \in Commands : promise[e] = "pending" => timers'[e] = timers[e],
               signal' \in [Commands -> {"none", "TERM", "KILL"}],
               child' \in [Commands -> {"none", "running", "gone"}],
               listening' \in [Commands -> BOOLEAN]
        PROVE  TypeOK' /\ LoopInv'
    <2>1. TypeOK'
      BY <1>1, <1>2, <1>6 DEF TypeOK
    <2>2. QueueInv'
      BY <1>1, <1>2, <1>6 DEF QueueInv
    <2>3. SettledOnce'
      BY <1>1, <1>2, <1>6 DEF SettledOnce, Queued
    <2>4. NobodyBetween'
      BY <1>1, <1>3, <1>6 DEF NobodyBetween
    <2>5. LedgerInv' /\ LateIsRejected'
      BY <1>1, <1>2, <1>6 DEF LedgerInv, LateIsRejected, Ledger
    <2>6. PhaseInv'
      BY <1>1, <1>2, <1>6 DEF PhaseInv, Queued
    <2> QED
      BY <1>4, <2>1, <2>2, <2>3, <2>4, <2>5, <2>6 DEF LoopInv
  <1>7. CASE Timeout(c)
    <2>1. promise[c] = "pending"
      BY <1>2, <1>7 DEF Timeout, SettledOnce
    <2> QED
      BY <1>5, <1>7, <2>1
  <1>8. CASE KillTimer(c)
    <2>1. promise[c] # "pending"
      BY <1>2, <1>8, KillTimerFires DEF SettledOnce
    <2>2. UNCHANGED <<promise, jobs, listening, child>>
      BY <1>8 DEF KillTimer
    <2>3. /\ timers' = [timers EXCEPT ![c] = @ \ {"kill"}]
          /\ signal' = [signal EXCEPT ![c] = IF child[c] = "running" THEN "KILL" ELSE @]
      BY <1>2, <1>8, KillTimerFires DEF KillTimer
    <2>4. /\ timers' \in [Commands -> SUBSET {"timeout", "kill"}]
          /\ \A e \in Commands : "timeout" \in timers'[e] => "timeout" \in timers[e]
          /\ \A e \in Commands : promise[e] = "pending" => timers'[e] = timers[e]
          /\ signal' \in [Commands -> {"none", "TERM", "KILL"}]
      BY <1>2, <2>1, <2>3 DEF TypeOK, ChildInv, ChildTypes
    <2> QED
      BY <1>2, <1>6, <2>2, <2>4 DEF TypeOK
  <1>9. ASSUME NEW how \in {"resolved", "rejected"}, ChildGone(c, how), promise[c] # "pending"
        PROVE  TypeOK' /\ LoopInv'
    <2>1. UNCHANGED <<promise, jobs, signal>>
      BY <1>1, <1>2, <1>9 DEF ChildGone, Settled, Reaction, TypeOK
    <2>2. /\ timers' = [timers EXCEPT ![c] = {}] /\ listening' = [listening EXCEPT ![c] = FALSE]
          /\ child' = [child EXCEPT ![c] = "gone"]
      BY <1>2, <1>9 DEF ChildGone, ChildInv, ChildTypes
    <2>3. /\ timers' \in [Commands -> SUBSET {"timeout", "kill"}]
          /\ \A e \in Commands : "timeout" \in timers'[e] => "timeout" \in timers[e]
          /\ \A e \in Commands : promise[e] = "pending" => timers'[e] = timers[e]
          /\ \A e \in Commands : listening'[e] => listening[e]
          /\ \A e \in Commands : promise[e] = "pending" => listening'[e] = listening[e]
          /\ child' \in [Commands -> {"none", "running", "gone"}]
          /\ listening' \in [Commands -> BOOLEAN]
      BY <1>2, <1>9, <2>2 DEF TypeOK, ChildInv, ChildTypes
    <2> QED
      BY <1>2, <1>6, <2>1, <2>3 DEF TypeOK
  <1>10. ASSUME NEW how \in {"resolved", "rejected"}, ChildGone(c, how) PROVE TypeOK' /\ LoopInv'
    BY <1>5, <1>9, <1>10
  <1> QED
    BY <1>7, <1>8, <1>10 DEF SpawnEvent, Close, SpawnError

LEMMA PortStep ==
    ASSUME PortInv, [Next]_vars
    PROVE  PortInv'
  <1>1. ChildInv'
    <2>1. \A c \in Commands : "timeout" \in timers[c] => "kill" \notin timers[c]
      BY DEF PortInv, LoopInv, SettledOnce
    <2>2. ClientMayCall => \A c \in Ledger : listening[c] => "kill" \notin timers[c]
      BY AbortFinds DEF PortInv, LoopInv, SettledOnce, TypeOK, Ledger
    <2>3. KilledOnce
      BY <2>1, <2>2 DEF KilledOnce
    <2> QED
      BY <2>3, ChildInvStep DEF PortInv
  <1>2. ASSUME NEW c \in Commands, NEW o \in Requests, Run(c, o) \/ Refuse(c, o)
        PROVE  TypeOK' /\ LoopInv'
    BY <1>2, RunKeeps, RefuseKeeps
  <1>3. ASSUME NEW c \in Commands, SpawnEvent(c) \/ Retire(c) \/ Return(c)
        PROVE  TypeOK' /\ LoopInv'
    BY <1>3, SpawnEventKeeps, RetireKeeps, ReturnKeeps
  <1>4. ASSUME NEW d \in Disconnects, Join(d) \/ Shutdown(d) \/ Poll(d)
        PROVE  TypeOK' /\ LoopInv'
    BY <1>4, JoinKeeps, ShutdownKeeps, PollKeeps
  <1>5. ASSUME NEW d \in Disconnects,
               Recheck(d) \/ Stop(d) \/ Announced(d) \/ Release(d) \/ SettleShutdown(d)
        PROVE  TypeOK' /\ LoopInv'
    BY <1>5, RecheckKeeps, StopKeeps, AnnouncedKeeps, ReleaseKeeps, SettleKeeps
  <1>6. ASSUME UNCHANGED vars PROVE TypeOK' /\ LoopInv'
    <2>1. TypeOK' /\ QueueInv' /\ SettledOnce' /\ NobodyBetween'
      BY <1>6 DEF vars, spawnVars, portVars, PortInv, LoopInv, TypeOK, QueueInv, SettledOnce,
                  Queued, NobodyBetween, Announcing
    <2>2. LedgerInv' /\ PhaseInv' /\ LateIsRejected' /\ ChatInv'
      BY <1>6 DEF vars, spawnVars, portVars, PortInv, LoopInv, LedgerInv, Ledger, PhaseInv, Queued,
                  LateIsRejected, ChatInv, ChatsNotShared
    <2> QED
      BY <2>1, <2>2 DEF LoopInv
  <1> QED
    BY <1>1, <1>2, <1>3, <1>4, <1>5, <1>6 DEF Next, LoopStep, Finished, PortInv

LEMMA PortInvAlways == Spec => []PortInv
  <1>1. Init => PortInv
    BY PortInit, ChildInvInit DEF PortInv
  <1> QED
    BY <1>1, PortStep, PTL DEF Spec

\* A child whose command was aborted or timed out has been sent SIGTERM, and SIGKILL has
\* been sent or is due: disconnect() leaves no process behind.
THEOREM NoneLeftBehind == Spec => []NoChildLeftBehind
  BY PortInvAlways, PTL DEF PortInv, ChildInv

\* No timer outlives its child, so none fires for a process that is gone.
THEOREM TimersEnd == Spec => []TimersEndWithChild
  <1>1. PortInv => TimersEndWithChild
    BY DEF PortInv, ChildInv, OnlyRunningIsArmed, TimersEndWithChild
  <1> QED
    BY <1>1, PortInvAlways, PTL
\* Every variable of the port keeps its type: among others the queue of jobs holds one
\* kind of job per command and one per disconnect.
THEOREM PortTypes == Spec => []TypeOK
  BY PortInvAlways, PTL DEF PortInv

\* A child that still works for a caller is in the ledger, so a disconnect() aborts it, and
\* during a shutdown there is none.
THEOREM EveryChildIsReached == Spec => []ShutdownReachesAll
  <1>1. PortInv => ShutdownReachesAll
    BY DEF PortInv, LoopInv, SettledOnce, LedgerInv, ShutdownReachesAll
  <1> QED
    BY <1>1, PortInvAlways, PTL

\* One shutdown at a time, and the latch is taken exactly as long as it runs.
THEOREM OneShutdown == Spec => []LatchIsTheShutdown
  <1>1. PortInv => LatchIsTheShutdown
    BY DEF PortInv, LoopInv, PhaseInv, LatchIsTheShutdown
  <1> QED
    BY <1>1, PortInvAlways, PTL

\* No two sessions resume the same chat, in whatever order their prompts return.
THEOREM ChatsApart == Spec => []ChatsNotShared
  <1>1. PortInv => ChatsNotShared
    BY DEF PortInv, LoopInv, ChatInv
  <1> QED
    BY <1>1, PortInvAlways, PTL

\* The wait of a shutdown ends with an empty ledger, never by its deadline.
THEOREM NoDeadlineEndsTheWait == Spec => DrainedByAbort
  <1>1. ASSUME PortInv, [Next]_vars
        PROVE  [\A d \in Disconnects : phase[d] = "draining" /\ phase'[d] # "draining"
                  => inFlight = <<>>]_vars
    <2> SUFFICES ASSUME NEW d \in Disconnects, phase[d] = "draining", phase'[d] # "draining"
                 PROVE  inFlight = <<>>
      OBVIOUS
    <2>1. phase \in [Disconnects -> Phases]
      BY <1>1 DEF PortInv, TypeOK
    <2>2. ASSUME NEW c \in Commands, NEW o \in Requests, Run(c, o) \/ Refuse(c, o) PROVE FALSE
      BY <2>2 DEF Run, Refuse, Begin
    <2>3. ASSUME NEW c \in Commands, SpawnEvent(c) \/ Retire(c) \/ Return(c) PROVE FALSE
      BY <2>3 DEF SpawnEvent, Retire, Return
    <2>4. ASSUME NEW e \in Disconnects, Join(e) \/ Shutdown(e) \/ Poll(e) PROVE FALSE
      BY <2>1, <2>4 DEF Join, Shutdown, Poll
    <2>5. ASSUME NEW e \in Disconnects, Recheck(e) PROVE FALSE
      BY <2>5 DEF Recheck
    <2>6. ASSUME NEW e \in Disconnects, Stop(e) PROVE inFlight = <<>>
      BY <1>1, <2>6, StopKeeps
    <2>7. ASSUME NEW e \in Disconnects, Announced(e) PROVE FALSE
      BY <2>1, <2>7 DEF Announced
    <2>8. ASSUME NEW e \in Disconnects, Release(e) \/ SettleShutdown(e) PROVE FALSE
      <3>1. phase[e] # "draining"
        <4>1. \A x : Runs("release", x) => Queued("release", x)
          BY <1>1, JobRuns
        <4>2. \A x : Runs("settle", x) => Queued("settle", x)
          BY <1>1, JobRuns
        <4> QED
          BY <1>1, <2>8, <4>1, <4>2 DEF Release, SettleShutdown, PortInv, LoopInv, PhaseInv
      <3> QED
        BY <2>1, <2>8, <3>1 DEF Release, SettleShutdown
    <2>9. ASSUME Finished \/ UNCHANGED vars PROVE FALSE
      BY <2>9 DEF Finished, vars, portVars
    <2> QED
      BY <1>1, <2>2, <2>3, <2>4, <2>5, <2>6, <2>7, <2>8, <2>9 DEF Next, LoopStep
  <1> QED
    BY <1>1, PortInvAlways, PTL DEF Spec, DrainedByAbort

\* A connect() that a disconnect() has overtaken never reports the port connected.
THEOREM DisconnectedStays == Spec => NoResurrection
  <1>1. ASSUME PortInv, [Next]_vars
        PROVE  [status = "disconnected" => status' # "connected"]_status
    <2> SUFFICES ASSUME status = "disconnected", status' = "connected" PROVE FALSE
      OBVIOUS
    <2>1. ASSUME NEW c \in Commands, Return(c) PROVE FALSE
      <3>1. Queued("return", c)
        BY <1>1, <2>1, JobRuns DEF Return
      <3>2. op[c].does = "connect" /\ promise[c] = "resolved"
        BY <2>1 DEF Return
      <3> QED
        BY <1>1, <3>1, <3>2 DEF PortInv, LoopInv, SettledOnce, LateIsRejected
    <2>2. ASSUME NEW c \in Commands, NEW o \in Requests, Run(c, o) \/ Refuse(c, o) PROVE FALSE
      BY <2>2 DEF Run, Refuse, Begin
    <2>3. ASSUME NEW c \in Commands, SpawnEvent(c) \/ Retire(c) PROVE FALSE
      BY <2>3 DEF SpawnEvent, Retire
    <2>4. ASSUME NEW e \in Disconnects, Join(e) \/ Shutdown(e) \/ Poll(e) \/ Recheck(e) PROVE FALSE
      BY <2>4 DEF Join, Shutdown, Poll, Recheck
    <2>5. ASSUME NEW e \in Disconnects, Stop(e) \/ Announced(e) \/ Release(e) \/ SettleShutdown(e)
          PROVE  FALSE
      BY <2>5 DEF Stop, Announced, Release, SettleShutdown
    <2>6. ASSUME Finished \/ UNCHANGED vars PROVE FALSE
      BY <2>6 DEF Finished, vars, portVars
    <2> QED
      BY <1>1, <2>1, <2>2, <2>3, <2>4, <2>5, <2>6 DEF Next, LoopStep
  <1> QED
    BY <1>1, PortInvAlways, PTL DEF Spec, NoResurrection

LEMMA SameCommand ==
    ASSUME NEW c \in Commands, promise'[c] = promise[c], child'[c] = child[c],
           signal'[c] = signal[c], timers'[c] = timers[c]
    PROVE  UNCHANGED Command(c)!vars
  BY DEF Command!vars

\* Whatever the port does, each command is a spawned command: it settles once, leaves no
\* timer behind, and no kill ever overwrites the handle of an armed force-kill timer.
THEOREM PortImplementsCommands == Spec => EveryCommandKeepsItsPromises
  <1>1. ASSUME PortInv, [Next]_vars
        PROVE  [\A c \in Commands : [Command(c)!Next]_(Command(c)!vars)]_spawnVars
    <2> SUFFICES ASSUME NEW c \in Commands, ~(UNCHANGED Command(c)!vars)
                 PROVE  Command(c)!Next
      OBVIOUS
    <2>0. TypeOK /\ ChildInv /\ SettledOnce /\ LedgerInv
      BY <1>1 DEF PortInv, LoopInv
    <2>1. ASSUME NEW e \in Commands, NEW o \in Requests, Run(e, o) PROVE Command(c)!Next
      <3>1. call[e] = "new" /\ promise[e] = "none" /\ (Spawn(e) \/ SpawnThrows(e))
        BY <2>0, <2>1 DEF Run, Begin, SettledOnce
      <3>2. e = c
        BY <2>0, <3>1, SameCommand DEF Spawn, SpawnThrows, TypeOK
      <3>3. CASE Spawn(c)
        <4>1. Command(c)!Start
          BY <2>0, <3>1, <3>2, <3>3 DEF Spawn, TypeOK, Command!Start
        <4> QED
          BY <4>1 DEF Command!Next
      <3>4. CASE SpawnThrows(c)
        <4>1. Command(c)!Refuse
          BY <2>0, <3>1, <3>2, <3>4 DEF SpawnThrows, TypeOK, Command!Refuse
        <4> QED
          BY <4>1 DEF Command!Next
      <3> QED
        BY <3>1, <3>2, <3>3, <3>4
    <2>2. ASSUME NEW e \in Commands, NEW o \in Requests, Refuse(e, o) PROVE Command(c)!Next
      <3>1. call[e] = "new" /\ promise[e] = "none"
        BY <2>0, <2>2 DEF Refuse, Begin, SettledOnce
      <3>2. e = c
        BY <2>0, <2>2, SameCommand DEF Refuse, TypeOK
      <3>3. Command(c)!Refuse
        BY <2>0, <2>2, <3>1, <3>2 DEF Refuse, TypeOK, Command!Refuse
      <3> QED
        BY <3>3 DEF Command!Next
    <2>3. ASSUME NEW e \in Commands, SpawnEvent(e) PROVE Command(c)!Next
      <3>1. CASE Timeout(e)
        <4>1. e = c
          BY <2>0, <3>1, SameCommand DEF Timeout, Settled, TypeOK
        <4>2. promise[c] = "pending" /\ timers[c] = {"timeout"} /\ child[c] = "running"
          BY <2>0, <3>1, <4>1 DEF Timeout, SettledOnce, ChildInv, OnlyRunningIsArmed
        <4>3. Command(c)!Abandon
          <5>1. KillChild({"timeout"} \ {"timeout"}) = {"kill"}
            BY KillOnce
          <5> QED
            BY <2>0, <3>1, <4>1, <4>2, <5>1 DEF Timeout, Settled, TypeOK, Command!Abandon
        <4> QED
          BY <4>3 DEF Command!Next
      <3>2. CASE KillTimer(e)
        <4>1. e = c
          BY <2>0, <3>2, SameCommand DEF KillTimer, TypeOK
        <4>2. promise[c] # "pending" /\ timers[c] = {"kill"} /\ child[c] = "running"
          <5>1. "kill" \in timers[c] /\ timers[c] \subseteq {"timeout", "kill"}
            BY <2>0, <3>2, <4>1, KillTimerFires DEF ChildInv, ChildTypes
          <5> QED
            BY <2>0, <5>1 DEF SettledOnce, ChildInv, OnlyRunningIsArmed
        <4>3. Command(c)!Force
          BY <2>0, <3>2, <4>1, <4>2, KillTimerFires DEF KillTimer, TypeOK, Command!Force
        <4> QED
          BY <4>3 DEF Command!Next
      <3>3. ASSUME NEW how \in {"resolved", "rejected"}, ChildGone(e, how) PROVE Command(c)!Next
        <4>1. e = c
          BY <2>0, <3>3, SameCommand DEF ChildGone, Settled, TypeOK
        <4>2. Command(c)!End
          <5>1. timers'[c] = {}
            BY <2>0, <3>3, <4>1 DEF ChildGone, ChildInv, ChildTypes
          <5> QED
            BY <2>0, <3>3, <4>1, <5>1 DEF ChildGone, Settled, TypeOK, Command!End
        <4> QED
          BY <4>2 DEF Command!Next
      <3> QED
        BY <2>3, <3>1, <3>2, <3>3 DEF SpawnEvent, Close, SpawnError
    <2>4. ASSUME NEW d \in Disconnects, Shutdown(d) PROVE Command(c)!Next
      <3>1. /\ promise' = [e \in Commands |->
                            IF promise[e] = "pending" THEN "rejected" ELSE promise[e]]
            /\ signal' = [e \in Commands |-> IF promise[e] = "pending" THEN "TERM" ELSE signal[e]]
            /\ timers' = [e \in Commands |->
                            IF promise[e] = "pending" THEN {"kill"} ELSE timers[e]]
            /\ child' = child
        BY <1>1, <2>4, ShutdownAborts
      <3>2. promise[c] = "pending"
        BY <3>1, SameCommand
      <3>3. child[c] = "running"
        BY <2>0, <3>2 DEF SettledOnce, ChildInv, OnlyRunningIsArmed
      <3>4. Command(c)!Abandon
        BY <3>1, <3>2, <3>3 DEF Command!Abandon
      <3> QED
        BY <3>4 DEF Command!Next
    <2>5. ASSUME UNCHANGED <<promise, child, signal, timers>> PROVE FALSE
      BY <2>5, SameCommand
    <2>6. ASSUME NEW e \in Commands, Retire(e) \/ Return(e) PROVE FALSE
      BY <2>5, <2>6 DEF Retire, Return
    <2>7. ASSUME NEW d \in Disconnects, Join(d) \/ Poll(d) \/ Recheck(d) \/ Stop(d) PROVE FALSE
      BY <2>5, <2>7 DEF Join, Poll, Recheck, Stop, spawnVars
    <2>8. ASSUME NEW d \in Disconnects, Announced(d) \/ Release(d) \/ SettleShutdown(d) PROVE FALSE
      BY <2>5, <2>8 DEF Announced, Release, SettleShutdown
    <2>9. ASSUME Finished \/ UNCHANGED vars PROVE FALSE
      BY <2>5, <2>9 DEF Finished, vars, spawnVars
    <2> QED
      BY <1>1, <2>1, <2>2, <2>3, <2>4, <2>6, <2>7, <2>8, <2>9 DEF Next, LoopStep
  <1> QED
    BY <1>1, PortInvAlways, PTL DEF Spec, EveryCommandKeepsItsPromises
==============================================================================
