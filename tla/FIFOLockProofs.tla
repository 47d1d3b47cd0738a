--------------------------- MODULE FIFOLockProofs ---------------------------
(* What the abstract lock promises, for every set of callers: the meaning   *)
(* of the refinements that the modules about the locks prove.               *)
EXTENDS FIFOLock, LockQueueProofs

\* A writer owns the lock alone.
ExclusiveIn(h) == \A p, q \in Procs : h[p] = "write" /\ p # q => h[q] = "none"
Exclusion == ExclusiveIn(held)

\* Nobody is in line twice, and no owner is in line.
OnePlaceIn(h, s) == Distinct(s) /\ \A i \in DOMAIN s : h[s[i].id] = "none"
OnePlace == OnePlaceIn(held, line)

\* The head of the line waits although it may own the lock; which never happens.
Withheld(h, s) == s # <<>> /\ Admissible(h, s, 1)
NeverWithheld == ~Withheld(held, line)

Modes == {"none", "write", "read"}

FInv ==
  /\ TypeOK
  /\ Exclusion
  /\ OnePlace
  /\ NeverWithheld
  /\ closed => line = <<>>

\* Nobody overtakes: of those who are in line ahead of a caller that gets the lock (all of
\* them, if it has just come), none is still in line after the step.
InOrder ==
  \A p \in Procs : held[p] = "none" /\ held'[p] # "none" =>
    \A i \in DOMAIN line : (\A j \in 1..i : line[j].id # p) => line[i] \notin Elems(line')

\* An owner keeps the lock in the mode it has it in until it gives it back, and owners
\* give it back one at a time.
OwnersStay ==
  /\ \A p \in Procs : held[p] # "none" => held'[p] \in {held[p], "none"}
  /\ \A p, q \in Procs : /\ held[p] # "none" /\ held'[p] = "none"
                         /\ held[q] # "none" /\ held'[q] = "none"
                         => p = q

-----------------------------------------------------------------------------

\* The longest admissible prefix is well defined.
LEMMA AdmittedProperties ==
  ASSUME NEW h, NEW s \in Seq(Caller)
  PROVE  /\ Admitted(h, s) \in 0..Len(s)
         /\ Admissible(h, s, Admitted(h, s))
         /\ \A k \in 0..Len(s) : Admissible(h, s, k) => k <= Admitted(h, s)
<1> DEFINE S == {n \in 0..Len(s) : Admissible(h, s, n)}
<1>1. Len(s) \in Nat /\ S \in SUBSET (0..Len(s)) /\ 0 \in S
  BY DEF Admissible
<1>2. PICK m \in S : \A k \in S : k <= m
  BY <1>1, GreatestNatural
<1>3. \E n \in 0..Len(s) :
        Admissible(h, s, n) /\ \A k \in 0..Len(s) : Admissible(h, s, k) => k <= n
  BY <1>2
<1> QED
  BY <1>3 DEF Admitted

\* Owners h and a line s become h2 and s2 when everybody who may own the lock gets it.
Settled(h, s, h2, s2) ==
  /\ h2 = [p \in Procs |->
             LET in == {c \in {s[i] : i \in 1..Admitted(h, s)} : c.id = p}
             IN  IF in = {} THEN h[p] ELSE (CHOOSE c \in in : TRUE).mode]
  /\ s2 = SubSeq(s, Admitted(h, s) + 1, Len(s))

\* Whom it lets in, and whom it leaves alone.
LEMMA WhoIsIn ==
  ASSUME NEW h \in [Procs -> Modes], NEW s \in Seq(Caller), OnePlaceIn(h, s),
         NEW h2, NEW s2, Settled(h, s, h2, s2)
  PROVE  /\ h2 \in [Procs -> Modes]
         /\ \A i \in 1..Admitted(h, s) : h2[s[i].id] = s[i].mode
         /\ \A p \in Procs : (\A i \in 1..Admitted(h, s) : s[i].id # p) => h2[p] = h[p]
<1> DEFINE n == Admitted(h, s)
           in(p) == {c \in {s[i] : i \in 1..n} : c.id = p}
<1>1. Len(s) \in Nat /\ DOMAIN s = 1..Len(s) /\ \A i \in 1..Len(s) : s[i] \in Caller
  OBVIOUS
<1>2. n \in 0..Len(s) /\ 1..n \subseteq 1..Len(s)
  BY <1>1, AdmittedProperties
<1> HIDE DEF n
<1>3. h2 = [p \in Procs |-> IF in(p) = {} THEN h[p] ELSE (CHOOSE c \in in(p) : TRUE).mode]
  BY DEF Settled, n
<1>4. \A i \in 1..n : in(s[i].id) = {s[i]} /\ s[i].id \in Procs /\ s[i].mode \in Modes
  BY <1>1, <1>2 DEF OnePlaceIn, Distinct, Caller, Modes
<1>5. \A i \in 1..n : h2[s[i].id] = s[i].mode
  <2> SUFFICES ASSUME NEW i \in 1..n PROVE h2[s[i].id] = s[i].mode
    OBVIOUS
  <2>1. in(s[i].id) = {s[i]} /\ s[i].id \in Procs
    BY <1>4
  <2>2. (CHOOSE c \in {s[i]} : TRUE) = s[i]
    OBVIOUS
  <2> HIDE DEF in
  <2> QED
    BY <1>3, <2>1, <2>2
<1>6. \A p \in Procs : (\A i \in 1..n : s[i].id # p) => in(p) = {}
  OBVIOUS
<1>7. \A p \in Procs : (\A i \in 1..n : s[i].id # p) => h2[p] = h[p]
  <2> HIDE DEF in
  <2> QED
    BY <1>3, <1>6
<1>8. h2 \in [Procs -> Modes]
  <2>1. ASSUME NEW p \in Procs PROVE h2[p] \in Modes
    BY <1>4, <1>5, <1>7
  <2> HIDE DEF in
  <2> QED
    BY <1>3, <2>1
<1> QED
  BY <1>5, <1>7, <1>8 DEF n

\* What it makes of owners and line.
LEMMA SettledKeeps ==
  ASSUME NEW h \in [Procs -> Modes], NEW s \in Seq(Caller),
         OnePlaceIn(h, s), ExclusiveIn(h), NEW h2, NEW s2, Settled(h, s, h2, s2)
  PROVE  /\ s2 \in Seq(Caller)
         /\ Elems(s2) = Elems(s) \ {s[i] : i \in 1..Admitted(h, s)}
         /\ OnePlaceIn(h2, s2) /\ ExclusiveIn(h2) /\ ~Withheld(h2, s2)
<1> DEFINE n == Admitted(h, s)
<1>1. /\ Len(s) \in Nat /\ DOMAIN s = 1..Len(s)
      /\ \A i \in 1..Len(s) : s[i] \in Caller /\ s[i].id \in Procs /\ s[i].mode \in {"write", "read"}
  <2>1. \A i \in 1..Len(s) : s[i] \in Caller
    OBVIOUS
  <2> QED
    BY <2>1 DEF Caller
<1>2. /\ n \in 0..Len(s) /\ Admissible(h, s, n)
      /\ \A k \in 0..Len(s) : Admissible(h, s, k) => k <= n
  BY AdmittedProperties
<1>3. /\ h2 \in [Procs -> Modes]
      /\ \A i \in 1..n : h2[s[i].id] = s[i].mode
      /\ \A p \in Procs : (\A i \in 1..n : s[i].id # p) => h2[p] = h[p]
  BY WhoIsIn
<1>4. s2 = SubSeq(s, n + 1, Len(s)) /\ Distinct(s)
  BY DEF Settled, OnePlaceIn
<1> HIDE DEF n
<1>5. /\ s2 \in Seq(Caller) /\ Len(s2) = Len(s) - n /\ Distinct(s2)
      /\ \A i \in 1..(Len(s) - n) : s2[i] = s[n + i]
      /\ Elems(s2) = Elems(s) \ {s[i] : i \in 1..n}
  BY <1>2, <1>4, RestProperties, ZenonT(60)
<1>6. OnePlaceIn(h2, s2)
  <2>1. ASSUME NEW i \in DOMAIN s2 PROVE h2[s2[i].id] = "none"
    <3>1. i \in 1..(Len(s) - n) /\ n + i \in 1..Len(s) /\ s2[i] = s[n + i]
      BY <1>1, <1>2, <1>5
    <3>2. \A k \in 1..n : k \in 1..Len(s) /\ k # n + i
      BY <1>1, <1>2, <3>1
    <3>3. \A k \in 1..n : s[k].id # s[n + i].id
      BY <1>1, <1>4, <3>1, <3>2 DEF Distinct
    <3> QED
      BY <1>1, <1>3, <3>1, <3>3 DEF OnePlaceIn
  <2> QED
    BY <1>5, <2>1 DEF OnePlaceIn
<1>7. \A p \in Procs : h[p] # "none" => h2[p] = h[p]
  BY <1>1, <1>2, <1>3 DEF OnePlaceIn
<1>8. \A p \in Procs : h2[p] # h[p] => \E i \in 1..n : s[i].id = p
  BY <1>3
<1>9. ExclusiveIn(h2)
  <2>1. CASE n = 0
    BY <1>3, <2>1 DEF ExclusiveIn
  <2>2. CASE n = 1 /\ s[1].mode = "write" /\ Free(h)
    BY <1>8, <2>2 DEF ExclusiveIn, Free
  <2>3. CASE NoWriter(h) /\ \A i \in 1..n : s[i].mode = "read"
    <3>1. \A p \in Procs : h2[p] # "write"
      BY <1>3, <1>8, <2>3 DEF NoWriter
    <3> QED
      BY <3>1 DEF ExclusiveIn
  <2> QED
    BY <1>2, <2>1, <2>2, <2>3 DEF Admissible
<1>10. ASSUME Withheld(h2, s2) PROVE FALSE
  <2>1. /\ n + 1 \in 0..Len(s) /\ n + 1 \in 1..Len(s) /\ s2[1] = s[n + 1] /\ 1 \in 1..Len(s2)
    <3>1. Len(s2) # 0
      BY <1>5, <1>10 DEF Withheld
    <3> QED
      BY <1>1, <1>2, <1>5, <3>1
  <2>2. CASE s2[1].mode = "write" /\ Free(h2)
    <3>1. n = 0
      <4>1. n # 0 => 1 \in 1..n /\ 1 \in 1..Len(s)
        BY <1>1, <1>2
      <4> QED
        BY <1>1, <1>3, <2>2, <4>1 DEF Free
    <3>2. Free(h)
      BY <1>7, <2>2 DEF Free
    <3>3. Admissible(h, s, 1)
      BY <2>1, <2>2, <3>1, <3>2 DEF Admissible
    <3> QED
      BY <1>2, <2>1, <3>1, <3>3
  <2>3. CASE s2[1].mode = "read" /\ NoWriter(h2)
    <3>1. NoWriter(h)
      BY <1>7, <2>3 DEF NoWriter
    <3>2. \A i \in 1..n : s[i].mode = "read"
      <4> SUFFICES ASSUME NEW i \in 1..n PROVE s[i].mode = "read"
        OBVIOUS
      <4>1. i \in 1..Len(s)
        BY <1>1, <1>2
      <4> QED
        BY <1>1, <1>3, <2>3, <4>1 DEF NoWriter
    <3>3. \A i \in 1..(n + 1) : i \in 1..n \/ i = n + 1
      BY <1>2
    <3>4. Admissible(h, s, n + 1)
      BY <2>1, <2>3, <3>1, <3>2, <3>3 DEF Admissible
    <3> QED
      BY <1>2, <2>1, <3>4
  <2>4. s2[1].mode = "write" \/ s2[1].mode = "read"
    BY <1>1, <2>1
  <2>5. Admissible(h2, s2, 1)
    BY <1>10 DEF Withheld
  <2>6. 1 \in 1..1 /\ 1 # 0
    OBVIOUS
  <2> QED
    BY <2>2, <2>3, <2>4, <2>5, <2>6 DEF Admissible
<1> QED
  BY <1>5, <1>6, <1>9, <1>10 DEF n

-----------------------------------------------------------------------------
(* The steps *)

\* A step settles owners h and a line s.  These are the owners before it, or all but one
\* of them, and the line before it, in its order, without those who tired and maybe with
\* somebody new at the end.
Settling(h, s) ==
  /\ h \in [Procs -> Modes] /\ s \in Seq(Caller)
  /\ \A p \in Procs : h[p] \in {held[p], "none"}
  /\ \A p, q \in Procs : h[p] # held[p] /\ h[q] # held[q] => p = q
  /\ Distinct(s) /\ \A i \in DOMAIN s : held[s[i].id] = "none"
  /\ \A a, b \in DOMAIN s : a < b =>
       \/ \E i, j \in DOMAIN line : i < j /\ line[i] = s[a] /\ line[j] = s[b]
       \/ \A i \in DOMAIN line : line[i].id # s[b].id
  /\ closed => s = <<>>
  /\ Settled(h, s, held', line')

\* What is left of the line when some tire.
LEMMA LineWithout ==
  ASSUME FInv, NEW Q
  PROVE  LET r == Without(line, Q)
         IN  /\ r \in Seq(Caller) /\ Distinct(r) /\ Elems(r) \subseteq Elems(line)
             /\ closed => r = <<>>
             /\ \A i \in DOMAIN r : held[r[i].id] = "none"
             /\ \A a, b \in DOMAIN r : a < b =>
                  \E i, j \in DOMAIN line : i < j /\ line[i] = r[a] /\ line[j] = r[b]
<1> DEFINE r == Without(line, Q)
<1>1. line \in Seq(Caller) /\ Distinct(line) /\ \A i \in DOMAIN line : held[line[i].id] = "none"
  BY DEF FInv, TypeOK, OnePlace, OnePlaceIn
<1>2. r \in Seq(Caller) /\ Distinct(r) /\ Elems(r) \subseteq Elems(line)
  BY <1>1, WithoutProperties
<1>3. \A a, b \in DOMAIN r : a < b =>
        \E i, j \in DOMAIN line : i < j /\ line[i] = r[a] /\ line[j] = r[b]
  BY <1>1, WithoutOrder
<1>5. closed => r = <<>>
  BY WithoutNothing DEF FInv
<1> HIDE DEF r
<1>4. \A i \in DOMAIN r : held[r[i].id] = "none"
  BY <1>1, <1>2, SMTT(60) DEF Elems
<1> QED
  BY <1>2, <1>3, <1>4, <1>5 DEF r

\* Every step of the lock but Close settles it.
LEMMA StepSettles ==
  ASSUME FInv, Next
  PROVE  Close \/ (UNCHANGED closed /\ \E h, s : Settling(h, s))
<1>1. held \in [Procs -> Modes] /\ line \in Seq(Caller)
  BY DEF FInv, TypeOK, Modes
<1>2. \A h, s : Settle(h, s) => Settled(h, s, held', line')
  BY DEF Settle, Settled
<1>3. ASSUME NEW Q, Quit(Q) PROVE Settling(held, Without(line, Q)) /\ UNCHANGED closed
  <2> DEFINE r == Without(line, Q)
  <2>1. Settled(held, r, held', line') /\ UNCHANGED closed
    BY <1>2, <1>3 DEF Quit
  <2>2. /\ r \in Seq(Caller) /\ Distinct(r) /\ (closed => r = <<>>)
        /\ \A i \in DOMAIN r : held[r[i].id] = "none"
        /\ \A a, b \in DOMAIN r : a < b =>
             \E i, j \in DOMAIN line : i < j /\ line[i] = r[a] /\ line[j] = r[b]
    BY LineWithout
  <2> HIDE DEF r
  <2>3. Settling(held, r)
    BY <1>1, <2>1, <2>2 DEF Settling
  <2> QED
    BY <2>1, <2>3 DEF r
<1>4. ASSUME NEW Q, NEW p \in Procs, Leave(p, Q)
      PROVE  Settling([held EXCEPT ![p] = "none"], Without(line, Q)) /\ UNCHANGED closed
  <2> DEFINE r == Without(line, Q)
             h == [held EXCEPT ![p] = "none"]
  <2>1. Settled(h, r, held', line') /\ UNCHANGED closed
    BY <1>2, <1>4 DEF Leave
  <2>2. /\ r \in Seq(Caller) /\ Distinct(r) /\ (closed => r = <<>>)
        /\ \A i \in DOMAIN r : held[r[i].id] = "none"
        /\ \A a, b \in DOMAIN r : a < b =>
             \E i, j \in DOMAIN line : i < j /\ line[i] = r[a] /\ line[j] = r[b]
    BY LineWithout
  <2>3. h \in [Procs -> Modes] /\ \A q \in Procs : h[q] = IF q = p THEN "none" ELSE held[q]
    BY <1>1 DEF Modes
  <2> HIDE DEF r, h
  <2>4. Settling(h, r)
    BY <2>1, <2>2, <2>3 DEF Settling
  <2> QED
    BY <2>1, <2>4 DEF r, h
<1>5. ASSUME NEW Q, NEW p \in Procs, NEW m \in {"write", "read"}, Arrive(p, m, Q)
      PROVE  Settling(held, Append(Without(line, Q), [id |-> p, mode |-> m])) /\ UNCHANGED closed
  <2> DEFINE r == Without(line, Q)
             x == [id |-> p, mode |-> m]
             s == Append(r, x)
  <2>1. Settled(held, s, held', line') /\ UNCHANGED closed /\ Idle(p) /\ ~closed
    BY <1>2, <1>5 DEF Arrive
  <2>2. /\ r \in Seq(Caller) /\ Distinct(r) /\ Elems(r) \subseteq Elems(line)
        /\ \A i \in DOMAIN r : held[r[i].id] = "none"
        /\ \A a, b \in DOMAIN r : a < b =>
             \E i, j \in DOMAIN line : i < j /\ line[i] = r[a] /\ line[j] = r[b]
    BY LineWithout
  <2>3. x \in Caller /\ x.id = p
    BY DEF Caller
  <2> HIDE DEF r, x
  <2>4. /\ held[p] = "none" /\ \A i \in DOMAIN r : r[i].id # x.id
        /\ \A i \in DOMAIN line : line[i].id # p
    BY <2>1, <2>2, <2>3 DEF Idle, Elems
  <2>5. s \in Seq(Caller) /\ Distinct(s)
    BY <2>2, <2>3, <2>4, AppendDistinct
  <2>6. /\ DOMAIN s = 1..(Len(r) + 1) /\ DOMAIN r = 1..Len(r) /\ Len(r) \in Nat
        /\ s[Len(r) + 1] = x /\ \A i \in 1..Len(r) : s[i] = r[i]
    BY <2>2, <2>3
  <2> HIDE DEF s
  <2>7. \A i \in DOMAIN s : i \in DOMAIN r \/ i = Len(r) + 1
    BY <2>6
  <2>8. \A i \in DOMAIN s : held[s[i].id] = "none"
    BY <2>2, <2>3, <2>4, <2>6, <2>7
  <2>9. \A a, b \in DOMAIN s : a < b =>
          \/ \E i, j \in DOMAIN line : i < j /\ line[i] = s[a] /\ line[j] = s[b]
          \/ \A i \in DOMAIN line : line[i].id # s[b].id
    <3> SUFFICES ASSUME NEW a \in DOMAIN s, NEW b \in DOMAIN s, a < b, b # Len(r) + 1
                 PROVE  \E i, j \in DOMAIN line : i < j /\ line[i] = s[a] /\ line[j] = s[b]
      BY <2>3, <2>4, <2>6
    <3>1. a \in DOMAIN r /\ b \in DOMAIN r
      BY <2>6
    <3> QED
      BY <2>2, <2>6, <3>1
  <2>10. Settling(held, s)
    BY <1>1, <2>1, <2>5, <2>8, <2>9 DEF Settling
  <2> QED
    BY <2>1, <2>10 DEF s, r, x
<1> DEFINE Goal == UNCHANGED closed /\ \E h, s : Settling(h, s)
<1>6. \A Q : Quit(Q) => Goal
  BY <1>3
<1>7. \A Q : \A p \in Procs : Leave(p, Q) => Goal
  BY <1>4
<1>8. \A Q : \A p \in Procs : \A m \in {"write", "read"} : Arrive(p, m, Q) => Goal
  BY <1>5
<1> HIDE DEF Goal
<1>9. Close \/ Goal
  BY <1>6, <1>7, <1>8, Zenon DEF Next
<1> QED
  BY <1>9 DEF Goal

\* What a step that settles the lock leaves.
LEMMA SettlingKeeps ==
  ASSUME FInv, NEW h, NEW s, Settling(h, s), UNCHANGED closed
  PROVE  FInv' /\ InOrder /\ OwnersStay
<1> DEFINE n == Admitted(h, s)
<1>1. /\ h \in [Procs -> Modes] /\ s \in Seq(Caller)
      /\ OnePlaceIn(h, s) /\ ExclusiveIn(h) /\ Settled(h, s, held', line')
  <2>1. \A i \in DOMAIN s : s[i] \in Caller
    BY DEF Settling
  <2>2. \A i \in DOMAIN s : s[i].id \in Procs
    BY <2>1 DEF Caller
  <2> QED
    BY <2>2 DEF Settling, OnePlaceIn, ExclusiveIn, Exclusion, FInv
<1>2. /\ held' \in [Procs -> Modes]
      /\ \A i \in 1..n : held'[s[i].id] = s[i].mode
      /\ \A p \in Procs : (\A i \in 1..n : s[i].id # p) => held'[p] = h[p]
  BY <1>1, WhoIsIn
<1>3. /\ line' \in Seq(Caller) /\ Elems(line') = Elems(s) \ {s[i] : i \in 1..n}
      /\ OnePlaceIn(held', line') /\ ExclusiveIn(held') /\ ~Withheld(held', line')
  BY <1>1, SettledKeeps
<1>4. n \in 0..Len(s) /\ DOMAIN s = 1..Len(s) /\ Len(s) \in Nat /\ 1..n \subseteq DOMAIN s
  BY <1>1, AdmittedProperties
<1> HIDE DEF n
<1>5. FInv'
  <2>1. closed' => line' = <<>>
    <3>1. closed => Elems(line') = {}
      BY <1>3 DEF Settling, Elems
    <3>2. line' # <<>> => line'[1] \in Elems(line')
      BY <1>3 DEF Elems
    <3> QED
      BY <3>1, <3>2
  <2> QED
    BY <1>2, <1>3, <2>1 DEF FInv, TypeOK, Exclusion, OnePlace, NeverWithheld, Modes
<1>6. ASSUME NEW p \in Procs, held[p] = "none", held'[p] # "none",
             NEW i \in DOMAIN line, \A j \in 1..i : line[j].id # p, line[i] \in Elems(line')
      PROVE  FALSE
  <2>1. h[p] = "none"
    BY <1>6 DEF Settling
  <2>2. PICK k \in 1..n : s[k].id = p
    BY <1>2, <1>6, <2>1
  <2>3. PICK m \in DOMAIN s : m \notin 1..n /\ s[m] = line[i]
    BY <1>3, <1>6 DEF Elems
  <2>4. k \in DOMAIN s /\ k < m
    BY <1>4, <2>3
  <2>5. PICK a, b \in DOMAIN line : a < b /\ line[a] = s[k] /\ line[b] = s[m]
    BY <2>3, <2>4 DEF Settling
  <2>6. Distinct(line) /\ DOMAIN line = 1..Len(line) /\ Len(line) \in Nat
    BY DEF FInv, TypeOK, OnePlace, OnePlaceIn
  <2>7. b = i
    BY <2>3, <2>5, <2>6 DEF Distinct
  <2>8. a \in 1..i
    BY <2>5, <2>6, <2>7
  <2> QED
    BY <1>6, <2>2, <2>5, <2>8
<1>7. ASSUME NEW p \in Procs, held[p] # "none" PROVE held'[p] = h[p]
  BY <1>2, <1>4, <1>7 DEF Settling
<1>8. OwnersStay
  BY <1>7 DEF OwnersStay, Settling
<1> QED
  BY <1>5, <1>6, <1>8 DEF InOrder

\* The invariant holds at the beginning, and every step keeps it, overtakes nobody and
\* takes the lock from nobody.
LEMMA FIFOInit == Init => FInv
<1> SUFFICES ASSUME Init PROVE FInv
  OBVIOUS
<1>1. line = <<>> /\ line \in Seq(Caller) /\ DOMAIN line = {}
  BY DEF Init
<1> QED
  BY <1>1 DEF Init, FInv, TypeOK, Exclusion, ExclusiveIn, OnePlace, OnePlaceIn, Distinct,
              NeverWithheld, Withheld

LEMMA FIFOStep ==
  ASSUME FInv, [Next]_vars
  PROVE  FInv' /\ (InOrder \/ UNCHANGED vars) /\ (OwnersStay \/ UNCHANGED vars)
<1>1. CASE UNCHANGED vars
  BY <1>1 DEF vars, FInv, TypeOK, Exclusion, ExclusiveIn, OnePlace, OnePlaceIn, NeverWithheld,
              Withheld
<1>2. CASE Close
  <2>1. line' = <<>> /\ line' \in Seq(Caller) /\ DOMAIN line' = {} /\ held' = held /\ closed'
    BY <1>2 DEF Close
  <2>2. FInv'
    BY <2>1 DEF FInv, TypeOK, Exclusion, ExclusiveIn, OnePlace, OnePlaceIn, Distinct,
                NeverWithheld, Withheld
  <2> QED
    BY <2>1, <2>2 DEF InOrder, OwnersStay
<1>3. CASE Next /\ ~Close
  <2>1. UNCHANGED closed /\ \E h, s : Settling(h, s)
    BY <1>3, StepSettles
  <2> QED
    BY <2>1, SettlingKeeps
<1> QED
  BY <1>1, <1>2, <1>3

-----------------------------------------------------------------------------
(* The promises *)

LEMMA FIFOInvariant == Spec => []FInv
<1>1. FInv /\ [Next]_vars => FInv'
  BY FIFOStep
<1> QED
  BY <1>1, FIFOInit, PTL DEF Spec

\* A writer owns the lock alone, readers share it.
THEOREM FIFOExclusion == Spec => []Exclusion
<1>1. FInv => Exclusion
  BY DEF FInv
<1> QED
  BY <1>1, FIFOInvariant, PTL

\* Whoever heads the line could not own the lock together with its present owners: the lock
\* is neither idle before a line nor kept from a reader who could join readers.
THEOREM FIFONeverWithheld == Spec => []NeverWithheld
<1>1. FInv => NeverWithheld
  BY DEF FInv
<1> QED
  BY <1>1, FIFOInvariant, PTL

\* Callers get the lock in the order they came, except that some may tire of waiting.
THEOREM FIFOInOrder == Spec => [][InOrder]_vars
<1>1. FInv /\ [Next]_vars => [InOrder]_vars
  BY FIFOStep
<1> QED
  BY <1>1, FIFOInvariant, PTL DEF Spec

\* Nobody takes the lock from an owner.
THEOREM FIFOOwnersStay == Spec => [][OwnersStay]_vars
<1>1. FInv /\ [Next]_vars => [OwnersStay]_vars
  BY FIFOStep
<1> QED
  BY <1>1, FIFOInvariant, PTL DEF Spec

=============================================================================
