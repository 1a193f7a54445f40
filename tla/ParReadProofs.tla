---------------------------- MODULE ParReadProofs ---------------------------
(***************************************************************************)
(* What parallel calls leave in memory reads as what the sequential ones   *)
(* build: ParAlloc implements TreeBuild, for any number of workers, any    *)
(* constructor and any tree of calls, and both readers agree.              *)
(***************************************************************************)
EXTENDS ParRead, ParMemoryProofs

-----------------------------------------------------------------------------
(***************************************************************************)
(* Iteration.  A reader is a function that is defined by its next step;    *)
(* there is such a function, whether or not each reading ends.             *)
(***************************************************************************)

\* From each state of S the function next leads to another, up to the final ones,
\* where out has the result; and g has the result that each state leads to.
Iterable(S, V, final, next, out) ==
    /\ final \in SUBSET S
    /\ next \in [S \ final -> S]
    /\ out \in [final -> V]
Iterates(g, S, final, next, out) ==
    g = [s \in S |-> IF s \in final THEN out[s] ELSE g[next[s]]]

\* There is such a g: the results that can be derived for a state are those of
\* the next one.
LEMMA Iteration ==
    ASSUME NEW S, NEW V, NEW final, NEW next, NEW out, Iterable(S, V, final, next, out)
    PROVE  \E g : Iterates(g, S, final, next, out)
  <1> DEFINE Closed(Z) == /\ \A s \in final : <<s, out[s]>> \in Z
                          /\ \A s \in S \ final, v \in V : <<next[s], v>> \in Z => <<s, v>> \in Z
             Results(s) == {v \in V : \A Z \in SUBSET (S \X V) : Closed(Z) => <<s, v>> \in Z}
             g == [s \in S |-> CHOOSE v : v \in Results(s)]
  <1> USE DEF Iterable
  <1>1. ASSUME NEW s \in final
        PROVE  Results(s) = {out[s]}
    <2> DEFINE Y == {p \in S \X V : p[1] \in final => p[2] = out[p[1]]}
    <2>1. Y \in SUBSET (S \X V) /\ Closed(Y)
      OBVIOUS
    <2>2. ASSUME NEW v \in Results(s)
          PROVE  v = out[s]
      <3>1. <<s, v>> \in Y
        BY <2>1
      <3> QED
        BY <3>1
    <2>3. out[s] \in Results(s)
      OBVIOUS
    <2> QED
      BY <2>2, <2>3
  <1>2. ASSUME NEW s \in S \ final
        PROVE  Results(next[s]) \subseteq Results(s)
    OBVIOUS
  <1>3. ASSUME NEW s \in S \ final
        PROVE  Results(s) \subseteq Results(next[s])
    <2> DEFINE Y == {p \in S \X V : IF p[1] \in final THEN p[2] = out[p[1]]
                                    ELSE p[2] \in Results(next[p[1]])}
    <2> HIDE DEF Results
    <2>1. \A r \in final : <<r, out[r]>> \in Y
      OBVIOUS
    <2>2. ASSUME NEW r \in S \ final, NEW v \in V, <<next[r], v>> \in Y
          PROVE  <<r, v>> \in Y
      <3>1. next[r] \in S
        OBVIOUS
      <3>2. v \in Results(next[r])
        <4>1. CASE next[r] \in final
          BY <1>1, <2>2, <4>1
        <4>2. CASE next[r] \notin final
          BY <1>2, <2>2, <3>1, <4>2
        <4> QED
          BY <4>1, <4>2
      <3> QED
        BY <3>2
    <2>3. Y \in SUBSET (S \X V) /\ Closed(Y)
      BY <2>1, <2>2
    <2>4. ASSUME NEW v \in Results(s)
          PROVE  v \in Results(next[s])
      <3>1. <<s, v>> \in Y
        BY <2>3, <2>4 DEF Results
      <3> QED
        BY <3>1
    <2> QED
      BY <2>4
  <1>4. \A s \in final : g[s] = out[s]
    BY <1>1
  <1>5. ASSUME NEW s \in S \ final
        PROVE  g[s] = g[next[s]]
    <2>1. Results(s) = Results(next[s]) /\ next[s] \in S
      BY <1>2, <1>3
    <2> HIDE DEF Results
    <2> QED
      BY <2>1
  <1>6. g \in [S -> {g[s] : s \in S}]
    <2> HIDE DEF Results
    <2> QED
      OBVIOUS
  <1>7. Iterates(g, S, final, next, out)
    <2> HIDE DEF g
    <2> QED
      BY <1>4, <1>5, <1>6 DEF Iterates
  <1> HIDE DEF g
  <1> QED
    BY <1>7

\* Steps of R lead from s to t: whatever is closed under them and has s has t.
Leads(R, s, t) ==
    \A Z : s \in Z /\ (\A p \in R : p[1] \in Z => p[2] \in Z) => t \in Z

\* They compose, and more steps lead as far.
LEMMA LeadsOn ==
    ASSUME NEW R
    PROVE  /\ \A s : Leads(R, s, s)
           /\ \A s, t, u : Leads(R, s, t) /\ Leads(R, t, u) => Leads(R, s, u)
           /\ \A s, t : <<s, t>> \in R => Leads(R, s, t)
           /\ \A Q, s, t : R \subseteq Q /\ Leads(R, s, t) => Leads(Q, s, t)
  <1>1. \A s : Leads(R, s, s)
    BY DEF Leads
  <1>2. \A s, t, u : Leads(R, s, t) /\ Leads(R, t, u) => Leads(R, s, u)
    BY DEF Leads
  <1>3. ASSUME NEW s, NEW t, <<s, t>> \in R
        PROVE  Leads(R, s, t)
    <2> SUFFICES ASSUME NEW Z, s \in Z, \A p \in R : p[1] \in Z => p[2] \in Z
                 PROVE  t \in Z
      BY DEF Leads
    <2> QED
      BY <1>3
  <1>4. \A Q, s, t : R \subseteq Q /\ Leads(R, s, t) => Leads(Q, s, t)
    BY DEF Leads
  <1> QED
    BY <1>1, <1>2, <1>3, <1>4

\* Induction over the fields of a constructor.
LEMMA FromFirstToLast ==
    ASSUME NEW n \in Nat \ {0}, NEW T, 1 \in T, \A i \in 1 .. n - 1 : i \in T => i + 1 \in T
    PROVE  \A i \in 1 .. n : i \in T
  <1> DEFINE Missed == {i \in 1 .. n : i \notin T}
  <1> SUFFICES ASSUME Missed # {}
               PROVE  FALSE
    OBVIOUS
  <1>1. PICK m \in Missed : \A i \in Missed : m <= i
    <2>1. Missed \in SUBSET Nat
      OBVIOUS
    <2> HIDE DEF Missed
    <2> QED
      BY <2>1, Least
  <1>2. m \in 2 .. n
    OBVIOUS
  <1>3. m - 1 \in 1 .. n - 1 /\ m - 1 \notin Missed /\ (m - 1) + 1 = m
    BY <1>1, <1>2
  <1> QED
    BY <1>3

-----------------------------------------------------------------------------
(***************************************************************************)
(* The readers.                                                            *)
(***************************************************************************)

\* Where the cells that were written lead the two readers.
CursorSteps == {<<s, NextCell(s)>> : s \in {c \in Cursor : c.left # 0 /\ c.at \in DOMAIN mem}}
VisitSteps == {<<s, NextPointer(s)>> :
                 s \in {c \in Visit : c.todo # <<>> /\ Head(c.todo) \in DOMAIN mem}}

\* What a reader has read, and one more cell.
LEMMA ValuesShape ==
    /\ <<>> \in Values
    /\ \A v \in Values, c \in Frame \cup {None} : Append(v, c) \in Values
    /\ \A f \in Frame : f \in Frame \cup {None}
    /\ None \in Frame \cup {None}
  BY DEF Values

\* A reader that has something left to read can go on.
LEMMA NextCellShape ==
    ASSUME TypeOK, NEW s \in Cursor, s.left # 0
    PROVE  NextCell(s) \in Cursor
  <1>1. s.at \in Address /\ s.left \in Nat /\ s.value \in Values /\ s.left - 1 \in Nat
    BY DEF Cursor
  <1>2. CASE s.at \notin DOMAIN mem
    <2>1. Append(s.value, None) \in Values
      BY <1>1, ValuesShape
    <2> QED
      BY <1>1, <1>2, <2>1 DEF NextCell, IsIndirection, ReadCell, Cursor
  <1>3. CASE s.at \in DOMAIN mem
    <2>1. mem[s.at] \in Cell
      BY <1>3 DEF TypeOK
    <2>2. CASE mem[s.at].tag = "indirection"
      <3>1. mem[s.at].to \in Address
        BY <2>1, <2>2 DEF Cell
      <3> QED
        BY <1>1, <1>3, <2>2, <3>1 DEF NextCell, IsIndirection, Redirect, Cursor
    <2>3. CASE mem[s.at].tag # "indirection"
      <3>1. mem[s.at].of \in Frame
        BY <2>1, <2>3 DEF Cell
      <3>2. Append(s.value, mem[s.at].of) \in Values
        BY <1>1, <3>1, ValuesShape
      <3>3. After(s.at) \in Address
        BY <1>1, AddressShape
      <3>4. s.left - 1 + Fields \in Nat
        BY <1>1, FieldsAssumption
      <3> QED
        BY <1>1, <1>3, <2>3, <3>2, <3>3, <3>4 DEF NextCell, IsIndirection, ReadCell, Cursor
    <2> QED
      BY <2>2, <2>3
  <1> QED
    BY <1>2, <1>3

\* What a reader in order reads is what it reads from its next cell on.
LEMMA InOrderStep ==
    ASSUME TypeOK
    PROVE  InOrder = [s \in Cursor |-> IF s.left = 0 THEN s.value ELSE InOrder[NextCell(s)]]
  <1> DEFINE final == {s \in Cursor : s.left = 0}
             next == [s \in Cursor \ final |-> NextCell(s)]
             out == [s \in final |-> s.value]
  <1>1. Iterable(Cursor, Values, final, next, out)
    BY NextCellShape DEF Iterable, Cursor
  <1>2. PICK g : Iterates(g, Cursor, final, next, out)
    <2> HIDE DEF final, next, out
    <2> QED
      BY <1>1, Iteration
  <1>3. \E h : h = [s \in Cursor |-> IF s.left = 0 THEN s.value ELSE h[NextCell(s)]]
    <2>1. \A s \in Cursor : (IF s \in final THEN out[s] ELSE g[next[s]])
                              = IF s.left = 0 THEN s.value ELSE g[NextCell(s)]
      OBVIOUS
    <2> HIDE DEF final, next, out
    <2>2. g = [s \in Cursor |-> IF s.left = 0 THEN s.value ELSE g[NextCell(s)]]
      BY <1>2, <2>1 DEF Iterates
    <2> QED
      BY <2>2
  <1> QED
    BY <1>3, Zenon DEF InOrder

\* So readings that lead from one cursor to another read the same.
LEMMA InOrderLeads ==
    ASSUME TypeOK, NEW s \in Cursor, NEW t, Leads(CursorSteps, s, t)
    PROVE  InOrder[s] = InOrder[t]
  <1> DEFINE Same == {c \in Cursor : InOrder[c] = InOrder[s]}
  <1>1. ASSUME NEW p \in CursorSteps, p[1] \in Same
        PROVE  p[2] \in Same
    <2>1. PICK c \in Cursor : c.left # 0 /\ p = <<c, NextCell(c)>>
      BY DEF CursorSteps
    <2>2. NextCell(c) \in Cursor
      BY <2>1, NextCellShape
    <2>3. InOrder[c] = InOrder[NextCell(c)]
      BY <2>1, InOrderStep
    <2> QED
      BY <1>1, <2>1, <2>2, <2>3
  <1>2. s \in Same
    OBVIOUS
  <1>3. t \in Same
    <2> HIDE DEF Same
    <2> QED
      BY <1>1, <1>2 DEF Leads
  <1> QED
    BY <1>3

\* The same of the reader that follows the random access nodes.
LEMMA NextPointerShape ==
    ASSUME TypeOK, NEW s \in Visit, s.todo # <<>>
    PROVE  NextPointer(s) \in Visit
  <1> DEFINE a == Head(s.todo)
             rest == Tail(s.todo)
  <1>1. s.value \in Values /\ s.todo \in Seq(Address)
    BY DEF Visit
  <1>2. a \in Address /\ rest \in Seq(Address)
    BY <1>1
  <1> HIDE DEF a, rest
  <1>3. CASE a \notin DOMAIN mem
    <2>1. Append(s.value, None) \in Values
      BY <1>1, ValuesShape
    <2> QED
      BY <1>2, <1>3, <2>1 DEF NextPointer, Visit, a, rest
  <1>4. CASE a \in DOMAIN mem
    <2>1. mem[a] \in Cell
      BY <1>4 DEF TypeOK
    <2>2. CASE mem[a].tag = "indirection"
      <3>1. mem[a].to \in Address
        BY <2>1, <2>2 DEF Cell
      <3>2. <<mem[a].to>> \o rest \in Seq(Address)
        BY <1>2, <3>1
      <3> QED
        BY <1>1, <1>4, <2>2, <3>2 DEF NextPointer, Visit, a, rest
    <2>3. CASE mem[a].tag = "leaf"
      <3>1. mem[a].of \in Frame
        BY <2>1, <2>3 DEF Cell
      <3>2. Append(s.value, mem[a].of) \in Values
        BY <1>1, <3>1, ValuesShape
      <3> QED
        BY <1>2, <1>4, <2>3, <3>2 DEF NextPointer, Visit, a, rest
    <2>4. CASE mem[a].tag = "node"
      <3>1. mem[a].of \in Frame /\ mem[a].fields \in [1 .. Fields -> Address]
        BY <2>1, <2>4 DEF Cell
      <3>2. Append(s.value, mem[a].of) \in Values
        BY <1>1, <3>1, ValuesShape
      <3>3. mem[a].fields \o rest \in Seq(Address)
        <4>1. mem[a].fields \in Seq(Address)
          BY <3>1, FieldsAssumption
        <4> QED
          BY <1>2, <4>1
      <3> QED
        BY <1>2, <1>4, <2>4, <3>2, <3>3 DEF NextPointer, Visit, a, rest
    <2> QED
      BY <2>1, <2>2, <2>3, <2>4 DEF Cell
  <1> QED
    BY <1>3, <1>4

\* What it reads is what it reads from its next cell on.
LEMMA ByPointerStep ==
    ASSUME TypeOK
    PROVE  ByPointer = [s \in Visit |-> IF s.todo = <<>> THEN s.value ELSE ByPointer[NextPointer(s)]]
  <1> DEFINE final == {s \in Visit : s.todo = <<>>}
             next == [s \in Visit \ final |-> NextPointer(s)]
             out == [s \in final |-> s.value]
  <1>1. Iterable(Visit, Values, final, next, out)
    BY NextPointerShape DEF Iterable, Visit
  <1>2. PICK g : Iterates(g, Visit, final, next, out)
    <2> HIDE DEF final, next, out
    <2> QED
      BY <1>1, Iteration
  <1>3. \E h : h = [s \in Visit |-> IF s.todo = <<>> THEN s.value ELSE h[NextPointer(s)]]
    <2>1. \A s \in Visit : (IF s \in final THEN out[s] ELSE g[next[s]])
                              = IF s.todo = <<>> THEN s.value ELSE g[NextPointer(s)]
      OBVIOUS
    <2> HIDE DEF final, next, out
    <2>2. g = [s \in Visit |-> IF s.todo = <<>> THEN s.value ELSE g[NextPointer(s)]]
      BY <1>2, <2>1 DEF Iterates
    <2> QED
      BY <2>2
  <1> QED
    BY <1>3, Zenon DEF ByPointer

\* So readings that lead from one visit to another read the same.
LEMMA ByPointerLeads ==
    ASSUME TypeOK, NEW s \in Visit, NEW t, Leads(VisitSteps, s, t)
    PROVE  ByPointer[s] = ByPointer[t]
  <1> DEFINE Same == {c \in Visit : ByPointer[c] = ByPointer[s]}
  <1>1. ASSUME NEW p \in VisitSteps, p[1] \in Same
        PROVE  p[2] \in Same
    <2>1. PICK c \in Visit : c.todo # <<>> /\ p = <<c, NextPointer(c)>>
      BY DEF VisitSteps
    <2>2. NextPointer(c) \in Visit
      BY <2>1, NextPointerShape
    <2>3. ByPointer[c] = ByPointer[NextPointer(c)]
      BY <2>1, ByPointerStep
    <2> QED
      BY <1>1, <2>1, <2>2, <2>3
  <1>2. s \in Same
    OBVIOUS
  <1>3. t \in Same
    <2> HIDE DEF Same
    <2> QED
      BY <1>1, <1>2 DEF Leads
  <1> QED
    BY <1>3

-----------------------------------------------------------------------------
(***************************************************************************)
(* Where the value of a call lies.                                         *)
(***************************************************************************)

\* Readers that come to the value of c read v, and then go on behind it, whatever
\* else they have to read and have read before.
Reads(c, v) ==
    /\ \A k \in Nat, u \in Values :
         Leads(CursorSteps, [at |-> loc[c], left |-> k + 1, value |-> u],
                            [at |-> end[c], left |-> k, value |-> u \o v])
    /\ \A rest \in Seq(Address), u \in Values :
         Leads(VisitSteps, [todo |-> <<loc[c]>> \o rest, value |-> u],
                           [todo |-> rest, value |-> u \o v])

\* The sequence that FlattenSeq returns, field by field.
LEMMA Flattened ==
    ASSUME NEW s \in [1 .. Fields -> Seq(Frame)]
    PROVE  \E g \in [1 .. Fields -> Seq(Frame)] :
             /\ g[1] = s[1]
             /\ \A i \in 1 .. Fields - 1 : g[i + 1] = g[i] \o s[i + 1]
             /\ B!FlattenSeq(s) = g[Fields]
  <1> DEFINE n == Fields
  <1> n \in Nat \ {0}
    BY FieldsAssumption
  <1> s \in [1 .. n -> Seq(Frame)]
    OBVIOUS
  <1>0. 1 \in 1 .. n /\ \A i \in 1 .. n : s[i] \in Seq(Frame)
    OBVIOUS
  <1> HIDE DEF n
  <1> DEFINE Concat(h, m) == h = [i \in 1 .. m |-> IF i = 1 THEN s[i] ELSE h[i - 1] \o s[i]]
             Some == {m \in 1 .. n : \E h : Concat(h, m)}
  <1>1. 1 \in Some
    <2>1. Concat([i \in 1 .. 1 |-> s[i]], 1)
      OBVIOUS
    <2> HIDE DEF Concat
    <2> QED
      BY <2>1
  <1>2. ASSUME NEW m \in 1 .. n - 1, m \in Some
        PROVE  m + 1 \in Some
    <2>1. PICK h : Concat(h, m)
      BY <1>2
    <2> DEFINE h1 == [i \in 1 .. m + 1 |-> IF i <= m THEN h[i] ELSE h[m] \o s[m + 1]]
    <2>2. \A i \in 1 .. m : h[i] = IF i = 1 THEN s[i] ELSE h[i - 1] \o s[i]
      BY <2>1
    <2> HIDE DEF Concat
    <2>3. ASSUME NEW i \in 1 .. m + 1
          PROVE  h1[i] = IF i = 1 THEN s[i] ELSE h1[i - 1] \o s[i]
      <3>1. CASE i <= m
        <4>1. i \in 1 .. m /\ h1[i] = h[i]
          BY <3>1
        <4>2. i # 1 => h1[i - 1] = h[i - 1]
          BY <4>1
        <4> HIDE DEF h1
        <4> QED
          BY <2>2, <4>1, <4>2
      <3>2. CASE i = m + 1
        <4>1. h1[m + 1] = h[m] \o s[m + 1] /\ h1[m] = h[m]
          <5>1. m + 1 \in 1 .. m + 1 /\ m \in 1 .. m + 1 /\ ~(m + 1 <= m) /\ m <= m
            OBVIOUS
          <5> QED
            BY <5>1, Zenon
        <4>2. (m + 1) - 1 = m /\ m + 1 # 1
          OBVIOUS
        <4> HIDE DEF h1
        <4> QED
          BY <3>2, <4>1, <4>2
      <3> QED
        BY <3>1, <3>2
    <2>4. Concat(h1, m + 1)
      BY <2>3 DEF Concat
    <2>5. m + 1 \in 1 .. n
      OBVIOUS
    <2> HIDE DEF h1
    <2> QED
      BY <2>4, <2>5
  <1>3. n \in Some
    <2>1. n \in 1 .. n
      OBVIOUS
    <2> HIDE DEF Some
    <2> QED
      BY <1>1, <1>2, <2>1, FromFirstToLast
  <1> DEFINE g == CHOOSE h : Concat(h, n)
  <1>4. Concat(g, n)
    BY <1>3
  <1>5. g[1] = s[1] /\ \A i \in 1 .. n - 1 : g[i + 1] = g[i] \o s[i + 1]
    <2>1. \A i \in 1 .. n : g[i] = IF i = 1 THEN s[i] ELSE g[i - 1] \o s[i]
      BY <1>4
    <2>2. 1 \in 1 .. n
      OBVIOUS
    <2>3. \A i \in 1 .. n - 1 : i + 1 \in 1 .. n /\ (i + 1) - 1 = i /\ i + 1 # 1
      OBVIOUS
    <2> HIDE DEF g
    <2>4. g[1] = s[1]
      BY <2>1, <2>2
    <2>5. \A i \in 1 .. n - 1 : g[i + 1] = g[i] \o s[i + 1]
      <3> TAKE i \in 1 .. n - 1
      <3> DEFINE j == i + 1
      <3>1. j \in 1 .. n /\ j - 1 = i /\ j # 1
        BY <2>3
      <3> HIDE DEF j
      <3>2. g[j] = g[j - 1] \o s[j]
        BY <2>1, <3>1
      <3> QED
        BY <3>1, <3>2 DEF j
    <2> QED
      BY <2>4, <2>5
  <1>6. \A i \in 1 .. n : g[i] \in Seq(Frame)
    <2> DEFINE T == {i \in 1 .. n : g[i] \in Seq(Frame)}
    <2> HIDE DEF g
    <2>1. 1 \in T
      BY <1>0, <1>5
    <2>2. ASSUME NEW i \in 1 .. n - 1, i \in T
          PROVE  i + 1 \in T
      <3>1. g[i] \in Seq(Frame) /\ s[i + 1] \in Seq(Frame) /\ i + 1 \in 1 .. n
        BY <1>0, <2>2
      <3>2. g[i] \o s[i + 1] \in Seq(Frame)
        BY <3>1, ConcatProperties
      <3> QED
        BY <1>5, <3>1, <3>2
    <2>3. \A i \in 1 .. n : i \in T
      <3> HIDE DEF T
      <3> QED
        BY <2>1, <2>2, FromFirstToLast
    <2> QED
      BY <2>3
  <1>7. B!FlattenSeq(s) = g[n]
    <2>1. Len(s) = n /\ n # 0
      OBVIOUS
    <2> QED
      BY <2>1 DEF B!FlattenSeq
  <1>8. g \in [1 .. n -> Seq(Frame)]
    <2> HIDE DEF g
    <2> QED
      BY <1>4, <1>6
  <1> HIDE DEF g
  <1> QED
    BY <1>5, <1>7, <1>8 DEF n

\* What is read before and after a value.
LEMMA ReadOn ==
    ASSUME NEW u \in Values, NEW v \in Values
    PROVE  /\ u \o v \in Values
           /\ <<>> \o v = v
           /\ u \o <<>> = u
  BY DEF Values

\* It does not matter which of three pieces are put together first.
LEMMA ReadThree ==
    ASSUME NEW u \in Values, NEW v \in Values, NEW w \in Values
    PROVE  (u \o v) \o w = u \o (v \o w)
  BY ConcatAssociative DEF Values

\* One cell more is a value of one cell more.
LEMMA ReadOneMore ==
    ASSUME NEW u \in Values, NEW f \in Frame
    PROVE  Append(u, f) = u \o <<f>> /\ u \o <<f>> \in Values /\ <<f>> \in Values
  BY DEF Values

\* One step of each reader.
LEMMA StepLeads ==
    /\ \A s \in Cursor : s.left # 0 /\ s.at \in DOMAIN mem => Leads(CursorSteps, s, NextCell(s))
    /\ \A s \in Visit : s.todo # <<>> /\ Head(s.todo) \in DOMAIN mem
                          => Leads(VisitSteps, s, NextPointer(s))
  BY LeadsOn DEF CursorSteps, VisitSteps

\* What the readers read at a call.
LEMMA ReadsValue ==
    ASSUME TypeOK, NEW c \in Frame, loc[c] \in Address, end[c] \in Address,
           NEW v \in Values, Reads(c, v)
    PROVE  ValueAt(loc[c]) = v /\ ValueByPointer(loc[c]) = v
  <1>1. ValueAt(loc[c]) = v
    <2> DEFINE t == [at |-> end[c], left |-> 0, value |-> <<>> \o v]
    <2>1. 0 + 1 = 1 /\ 0 \in Nat /\ <<>> \o v = v
      BY ValuesShape, ReadOn
    <2>2. Leads(CursorSteps, Start(loc[c]), t)
      BY <2>1, ValuesShape DEF Reads, Start
    <2>3. Start(loc[c]) \in Cursor /\ t \in Cursor
      BY <2>1, ValuesShape DEF Start, Cursor
    <2>4. InOrder[t] = v
      BY <2>1, <2>3, InOrderStep
    <2> QED
      BY <2>2, <2>3, <2>4, InOrderLeads DEF ValueAt
  <1>2. ValueByPointer(loc[c]) = v
    <2> DEFINE r == [todo |-> <<loc[c]>>, value |-> <<>>]
               t == [todo |-> <<>>, value |-> v]
    <2>1. <<>> \o v = v /\ <<loc[c]>> \o <<>> = <<loc[c]>> /\ <<>> \in Seq(Address)
      BY ValuesShape, ReadOn
    <2>2. Leads(VisitSteps, r, t)
      BY <2>1, ValuesShape DEF Reads
    <2>3. r \in Visit /\ t \in Visit
      BY ValuesShape DEF Visit
    <2>4. ByPointer[t] = v
      BY <2>3, ByPointerStep
    <2> QED
      BY <2>2, <2>3, <2>4, ByPointerLeads DEF ValueByPointer
  <1> QED
    BY <1>1, <1>2

\* The fields of f follow each other, or a pointer leads from each to the next.
Linked(f) ==
    /\ loc[Child(f, 1)] = After(loc[f])
    /\ \A i \in 2 .. Fields :
         \/ loc[Child(f, i)] = end[Child(f, i - 1)]
         \/ /\ end[Child(f, i - 1)] \in DOMAIN mem
            /\ mem[end[Child(f, i - 1)]] = Indirection(loc[Child(f, i)])

\* What f writes is in memory.
Complete(f) ==
    /\ loc[f] \in DOMAIN mem
    /\ IF f \in Inner
       THEN mem[loc[f]] = Node(f) /\ Linked(f) /\ end[f] = end[Child(f, Fields)]
       ELSE mem[loc[f]] = Leaf(f) /\ end[f] = After(loc[f])

\* What f returns by the specification, after the calls it makes.
Built(f) == <<f>> \o B!FlattenSeq([i \in DOMAIN CallsMade(f) |-> ValueAt(loc[CallsMade(f)[i]])])

\* What a reader keeps of pointers when it takes the first.
LEMMA FirstPointer ==
    ASSUME NEW a \in Address, NEW rest \in Seq(Address)
    PROVE  /\ <<a>> \o rest \in Seq(Address)
           /\ <<a>> \o rest # <<>>
           /\ Head(<<a>> \o rest) = a
           /\ Tail(<<a>> \o rest) = rest
  <1>1. <<a>> \o rest \in Seq(Address) /\ Len(<<a>> \o rest) = Len(rest) + 1 /\ Len(rest) \in Nat
    OBVIOUS
  <1>2. (<<a>> \o rest)[1] = a /\ \A k \in 1 .. Len(rest) : (<<a>> \o rest)[k + 1] = rest[k]
    OBVIOUS
  <1> DEFINE t == <<a>> \o rest
  <1>3. t # <<>> /\ Head(t) = a
    <2> HIDE DEF t
    <2> QED
      BY <1>1, <1>2 DEF t
  <1>4. Tail(t) \in Seq(Address) /\ Len(Tail(t)) = Len(rest)
        /\ \A k \in 1 .. Len(rest) : Tail(t)[k] = rest[k]
    <2>1. t \in Seq(Address) /\ t # <<>>
      BY <1>1, <1>3
    <2> HIDE DEF t
    <2>2. Tail(t) \in Seq(Address) /\ Len(Tail(t)) = Len(t) - 1
          /\ \A k \in 1 .. Len(t) - 1 : Tail(t)[k] = t[k + 1]
      BY <2>1, Robbed
    <2>3. Len(t) - 1 = Len(rest)
      BY <1>1 DEF t
    <2> QED
      BY <1>2, <2>2, <2>3 DEF t
  <1>5. Tail(t) = rest
    <2> HIDE DEF t
    <2> QED
      BY <1>4
  <1> QED
    BY <1>1, <1>3, <1>5

\* A leaf reads as itself.
LEMMA LeafReads ==
    ASSUME TypeOK, NEW f \in Frame, f \notin Inner, Complete(f)
    PROVE  Built(f) = <<f>> /\ Reads(f, <<f>>)
  <1>1. loc[f] \in DOMAIN mem /\ loc[f] \in Address /\ mem[loc[f]] = Leaf(f) /\ end[f] = After(loc[f])
    BY DEF Complete, TypeOK
  <1>0. mem[loc[f]].tag = "leaf" /\ mem[loc[f]].of = f
    BY <1>1 DEF Leaf
  <1>2. Built(f) = <<f>>
    <2> DEFINE none == [i \in DOMAIN CallsMade(f) |-> ValueAt(loc[CallsMade(f)[i]])]
    <2>1. none = <<>>
      BY DEF CallsMade, Sequential
    <2>2. B!FlattenSeq(<<>>) = <<>>
      BY DEF B!FlattenSeq
    <2>3. <<f>> \o <<>> = <<f>>
      OBVIOUS
    <2> HIDE DEF none
    <2> QED
      BY <2>1, <2>2, <2>3 DEF Built, none
  <1>3. ASSUME NEW k \in Nat, NEW u \in Values
        PROVE  Leads(CursorSteps, [at |-> loc[f], left |-> k + 1, value |-> u],
                                  [at |-> end[f], left |-> k, value |-> u \o <<f>>])
    <2> DEFINE s == [at |-> loc[f], left |-> k + 1, value |-> u]
    <2>1. /\ s \in Cursor /\ s.left # 0 /\ s.at \in DOMAIN mem
          /\ s.at = loc[f] /\ s.left = k + 1 /\ s.value = u
      BY <1>1 DEF Cursor
    <2>2. Append(u, f) = u \o <<f>> /\ (k + 1) - 1 = k
      BY ReadOneMore
    <2> HIDE DEF s
    <2>3. NextCell(s) = [at |-> end[f], left |-> k, value |-> u \o <<f>>]
      BY <1>0, <1>1, <2>1, <2>2 DEF NextCell, IsIndirection, ReadCell
    <2> QED
      BY <2>1, <2>3, StepLeads DEF s
  <1>4. ASSUME NEW rest \in Seq(Address), NEW u \in Values
        PROVE  Leads(VisitSteps, [todo |-> <<loc[f]>> \o rest, value |-> u],
                                 [todo |-> rest, value |-> u \o <<f>>])
    <2> DEFINE s == [todo |-> <<loc[f]>> \o rest, value |-> u]
    <2>1. /\ s \in Visit /\ s.todo # <<>> /\ Head(s.todo) = loc[f] /\ Tail(s.todo) = rest
          /\ s.value = u
      BY <1>1, FirstPointer DEF Visit
    <2>2. Append(u, f) = u \o <<f>>
      BY ReadOneMore
    <2> HIDE DEF s
    <2>3. NextPointer(s) = [todo |-> rest, value |-> u \o <<f>>]
      BY <1>0, <1>1, <2>1, <2>2 DEF NextPointer
    <2> QED
      BY <1>1, <2>1, <2>3, StepLeads DEF s
  <1> QED
    BY <1>2, <1>3, <1>4 DEF Reads

\* A field follows the one before it, for a reader in order.
LEMMA NextLinked ==
    ASSUME TypeOK, NEW f \in Inner, Linked(f), NEW i \in 1 .. Fields - 1,
           end[Child(f, i)] \in Address, loc[Child(f, i + 1)] \in Address,
           NEW k \in Nat, k # 0, NEW u \in Values
    PROVE  Leads(CursorSteps, [at |-> end[Child(f, i)], left |-> k, value |-> u],
                              [at |-> loc[Child(f, i + 1)], left |-> k, value |-> u])
  <1> DEFINE a == end[Child(f, i)]
             b == loc[Child(f, i + 1)]
             s == [at |-> a, left |-> k, value |-> u]
             t == [at |-> b, left |-> k, value |-> u]
  <1>1. b = a \/ (a \in DOMAIN mem /\ mem[a] = Indirection(b))
    <2> DEFINE n == i + 1
    <2>1. n \in 2 .. Fields /\ n - 1 = i
      BY FieldsAssumption
    <2> HIDE DEF n
    <2>2. \/ loc[Child(f, n)] = end[Child(f, n - 1)]
          \/ /\ end[Child(f, n - 1)] \in DOMAIN mem
             /\ mem[end[Child(f, n - 1)]] = Indirection(loc[Child(f, n)])
      BY <2>1 DEF Linked
    <2> QED
      BY <2>1, <2>2 DEF n
  <1> HIDE DEF a, b
  <1>2. CASE b = a
    BY <1>2, LeadsOn DEF a, b
  <1>3. CASE a \in DOMAIN mem /\ mem[a] = Indirection(b)
    <2>1. mem[a].tag = "indirection" /\ mem[a].to = b
      BY <1>3 DEF Indirection
    <2>2. s \in Cursor /\ s.left # 0 /\ s.at \in DOMAIN mem
      BY <1>3 DEF Cursor, a
    <2>3. NextCell(s) = t
      BY <1>3, <2>1 DEF NextCell, IsIndirection, Redirect
    <2> HIDE DEF s, t
    <2>4. Leads(CursorSteps, s, t)
      BY <2>2, <2>3, StepLeads
    <2> QED
      BY <2>4 DEF s, t, a, b
  <1> QED
    BY <1>1, <1>2, <1>3

\* A constructor reads as itself and its fields, in order ...
LEMMA NodeReadsInOrder ==
    ASSUME TypeOK, NEW f \in Inner, Complete(f), f \in Frame,
           \A i \in 1 .. Fields : loc[Child(f, i)] \in Address /\ end[Child(f, i)] \in Address,
           NEW s \in [1 .. Fields -> Seq(Frame)],
           \A i \in 1 .. Fields : Reads(Child(f, i), s[i]),
           NEW g \in [1 .. Fields -> Seq(Frame)],
           g[1] = s[1], \A i \in 1 .. Fields - 1 : g[i + 1] = g[i] \o s[i + 1],
           NEW k \in Nat, NEW u \in Values
    PROVE  Leads(CursorSteps, [at |-> loc[f], left |-> k + 1, value |-> u],
                              [at |-> end[f], left |-> k, value |-> u \o (<<f>> \o g[Fields])])
  <1> DEFINE p == [at |-> loc[f], left |-> k + 1, value |-> u]
             w == u \o <<f>>
             Behind1(i) == [at |-> end[Child(f, i)], left |-> k + (Fields - i), value |-> w \o g[i]]
             T == {i \in 1 .. Fields : Leads(CursorSteps, p, Behind1(i))}
  <1>1. /\ loc[f] \in DOMAIN mem /\ loc[f] \in Address
        /\ mem[loc[f]].tag = "node" /\ mem[loc[f]].of = f
        /\ Linked(f)
        /\ end[f] = end[Child(f, Fields)]
    BY DEF Complete, TypeOK, Node
  <1>2. w \in Values /\ <<f>> \in Values /\ Append(u, f) = w
    BY ReadOneMore
  <1>3. Fields \in Nat /\ 1 \in 1 .. Fields /\ Fields \in 1 .. Fields /\ Fields - 1 \in Nat
    BY FieldsAssumption
  <1>4. \A i \in 1 .. Fields : s[i] \in Values /\ g[i] \in Values
    BY DEF Values
  <1> HIDE DEF w
  <1>5. 1 \in T
    <2>1. /\ p \in Cursor /\ p.left # 0 /\ p.at \in DOMAIN mem
          /\ p.at = loc[f] /\ p.left = k + 1 /\ p.value = u
      BY <1>1 DEF Cursor
    <2>2. (k + 1) - 1 + Fields = (k + (Fields - 1)) + 1
      BY <1>3
    <2> HIDE DEF p
    <2>3. NextCell(p) = [at |-> loc[Child(f, 1)], left |-> (k + (Fields - 1)) + 1, value |-> w]
      BY <1>1, <1>2, <2>1, <2>2 DEF NextCell, IsIndirection, ReadCell, Linked
    <2>4. Leads(CursorSteps, p, [at |-> loc[Child(f, 1)], left |-> (k + (Fields - 1)) + 1, value |-> w])
      BY <2>1, <2>3, StepLeads
    <2>5. Leads(CursorSteps, [at |-> loc[Child(f, 1)], left |-> (k + (Fields - 1)) + 1, value |-> w], Behind1(1))
      <3>1. k + (Fields - 1) \in Nat
        BY <1>3
      <3> QED
        BY <1>2, <1>3, <3>1 DEF Reads
    <2> HIDE DEF Behind1
    <2> QED
      BY <1>3, <2>4, <2>5, LeadsOn
  <1>6. ASSUME NEW i \in 1 .. Fields - 1, i \in T
        PROVE  i + 1 \in T
    <2> DEFINE n == i + 1
               m == k + (Fields - n)
               v == w \o g[i]
               q == [at |-> loc[Child(f, n)], left |-> m + 1, value |-> v]
    <2>1. /\ n \in 1 .. Fields /\ i \in 1 .. Fields
          /\ m \in Nat /\ m + 1 \in Nat /\ m + 1 # 0
          /\ m + 1 = k + (Fields - i)
      BY <1>3
    <2>2. v \in Values
      BY <1>2, <1>4, <2>1, ReadOn
    <2>3. v \o s[n] = w \o g[n]
      <3>1. g[n] = g[i] \o s[n]
        OBVIOUS
      <3>2. g[i] \in Values /\ s[n] \in Values
        BY <1>4, <2>1
      <3>3. (w \o g[i]) \o s[n] = w \o (g[i] \o s[n])
        BY <1>2, <3>2, ReadThree
      <3> QED
        BY <3>1, <3>3
    <2>4. Leads(CursorSteps, Behind1(i), q)
      <3>1. end[Child(f, i)] \in Address /\ loc[Child(f, i + 1)] \in Address
        BY <2>1
      <3> HIDE DEF m, v
      <3>2. Leads(CursorSteps, [at |-> end[Child(f, i)], left |-> m + 1, value |-> v],
                               [at |-> loc[Child(f, i + 1)], left |-> m + 1, value |-> v])
        BY <1>1, <2>1, <2>2, <3>1, NextLinked
      <3> QED
        BY <2>1, <3>2 DEF v
    <2>5. Leads(CursorSteps, q, Behind1(n))
      <3> HIDE DEF m, v, n
      <3>1. Leads(CursorSteps, q, [at |-> end[Child(f, n)], left |-> m, value |-> v \o s[n]])
        BY <2>1, <2>2 DEF Reads
      <3> QED
        BY <2>3, <3>1 DEF m
    <2>6. Leads(CursorSteps, p, Behind1(i))
      BY <1>6
    <2> HIDE DEF Behind1, q, p
    <2>7. Leads(CursorSteps, p, Behind1(n))
      BY <2>4, <2>5, <2>6, LeadsOn
    <2> QED
      BY <2>1, <2>7
  <1>7. Fields \in T
    <2> HIDE DEF T
    <2> QED
      BY <1>3, <1>5, <1>6, FieldsAssumption, FromFirstToLast
  <1>8. Behind1(Fields) = [at |-> end[f], left |-> k, value |-> u \o (<<f>> \o g[Fields])]
    <2>1. k + (Fields - Fields) = k
      BY <1>3
    <2>2. w \o g[Fields] = u \o (<<f>> \o g[Fields])
      <3>1. g[Fields] \in Values
        BY <1>3, <1>4
      <3> QED
        BY <1>2, <3>1, ReadThree DEF w
    <2> QED
      BY <1>1, <2>1, <2>2
  <1> HIDE DEF Behind1
  <1> QED
    BY <1>7, <1>8

\* ... and by the pointers to its fields, of which those from field i + 1 on are
\* still to be followed, before rest.
Starts(f) == [i \in 1 .. Fields |-> loc[Child(f, i)]]
Ahead(f, i, rest) ==
    [j \in 1 .. (Fields - i) + Len(rest) |->
       IF j <= Fields - i THEN loc[Child(f, i + j)] ELSE rest[j - (Fields - i)]]

\* Sequences are the same if their elements are.
LEMMA SameSeq ==
    ASSUME NEW S, NEW s \in Seq(S), NEW t \in Seq(S), Len(s) = Len(t),
           \A k \in 1 .. Len(s) : s[k] = t[k]
    PROVE  s = t
  OBVIOUS

\* What is ahead of a reader before, within and after the fields.
LEMMA AheadShape ==
    ASSUME NEW f \in Inner, \A i \in 1 .. Fields : loc[Child(f, i)] \in Address,
           NEW rest \in Seq(Address)
    PROVE  /\ \A i \in 0 .. Fields : Ahead(f, i, rest) \in Seq(Address)
           /\ Ahead(f, 0, rest) = Starts(f) \o rest
           /\ Ahead(f, Fields, rest) = rest
           /\ \A i \in 0 .. Fields - 1 :
                Ahead(f, i, rest) = <<loc[Child(f, i + 1)]>> \o Ahead(f, i + 1, rest)
  <1>1. Fields \in Nat /\ Len(rest) \in Nat /\ \A j \in 1 .. Len(rest) : rest[j] \in Address
    BY FieldsAssumption
  <1>2. ASSUME NEW i \in 0 .. Fields
        PROVE  /\ Ahead(f, i, rest) \in Seq(Address)
               /\ Len(Ahead(f, i, rest)) = (Fields - i) + Len(rest)
               /\ \A j \in 1 .. (Fields - i) + Len(rest) :
                    Ahead(f, i, rest)[j] = IF j <= Fields - i THEN loc[Child(f, i + j)]
                                           ELSE rest[j - (Fields - i)]
    <2> DEFINE n == (Fields - i) + Len(rest)
    <2>1. n \in Nat
      BY <1>1
    <2>2. ASSUME NEW j \in 1 .. n
          PROVE  (IF j <= Fields - i THEN loc[Child(f, i + j)] ELSE rest[j - (Fields - i)]) \in Address
      <3>1. j <= Fields - i => i + j \in 1 .. Fields
        BY <1>1
      <3>2. ~(j <= Fields - i) => j - (Fields - i) \in 1 .. Len(rest)
        BY <1>1
      <3> QED
        BY <1>1, <3>1, <3>2
    <2>3. Ahead(f, i, rest) = [j \in 1 .. n |->
            IF j <= Fields - i THEN loc[Child(f, i + j)] ELSE rest[j - (Fields - i)]]
      BY DEF Ahead
    <2> HIDE DEF n
    <2>4. Ahead(f, i, rest) \in [1 .. n -> Address]
      BY <2>2, <2>3
    <2>5. Ahead(f, i, rest) \in Seq(Address) /\ Len(Ahead(f, i, rest)) = n
      BY <2>1, <2>4
    <2> QED
      BY <2>3, <2>5 DEF n
  <1>3. Ahead(f, 0, rest) = Starts(f) \o rest
    <2> DEFINE s == Starts(f)
               a == Ahead(f, 0, rest)
    <2>1. s \in [1 .. Fields -> Address]
      BY DEF Starts
    <2>2. s \in Seq(Address) /\ Len(s) = Fields
      BY <1>1, <2>1
    <2>3. \A j \in 1 .. Fields : s[j] = loc[Child(f, j)]
      BY DEF Starts
    <2>4. 0 \in 0 .. Fields /\ Fields - 0 = Fields /\ \A j \in Nat : 0 + j = j
      BY <1>1
    <2>5. a \in Seq(Address) /\ Len(a) = Fields + Len(rest)
      BY <1>2, <2>4
    <2>6. \A j \in 1 .. Fields + Len(rest) :
            a[j] = IF j <= Fields THEN loc[Child(f, j)] ELSE rest[j - Fields]
      BY <1>2, <2>4
    <2> HIDE DEF s, a
    <2>7. /\ s \o rest \in Seq(Address) /\ Len(s \o rest) = Fields + Len(rest)
          /\ \A j \in 1 .. Fields + Len(rest) :
               (s \o rest)[j] = IF j <= Fields THEN s[j] ELSE rest[j - Fields]
      BY <2>2, ConcatProperties
    <2>8. \A j \in 1 .. Fields + Len(rest) : a[j] = (s \o rest)[j]
      BY <1>1, <2>3, <2>6, <2>7
    <2>9. a = s \o rest
      BY <2>5, <2>7, <2>8
    <2> QED
      BY <2>9 DEF s, a
  <1>4. Ahead(f, Fields, rest) = rest
    <2> DEFINE a == Ahead(f, Fields, rest)
    <2>1. Fields \in 0 .. Fields /\ Fields - Fields = 0 /\ 0 + Len(rest) = Len(rest)
      BY <1>1
    <2>2. a \in Seq(Address) /\ Len(a) = Len(rest)
      BY <1>2, <2>1
    <2>3. \A j \in 1 .. Len(rest) : a[j] = rest[j]
      <3> TAKE j \in 1 .. Len(rest)
      <3>1. a[j] = IF j <= 0 THEN loc[Child(f, Fields + j)] ELSE rest[j - 0]
        BY <1>2, <2>1
      <3> HIDE DEF a
      <3> QED
        BY <3>1
    <2> HIDE DEF a
    <2>4. a = rest
      BY <2>2, <2>3
    <2> QED
      BY <2>4 DEF a
  <1>5. ASSUME NEW i \in 0 .. Fields - 1
        PROVE  Ahead(f, i, rest) = <<loc[Child(f, i + 1)]>> \o Ahead(f, i + 1, rest)
    <2> DEFINE n == i + 1
               a == Ahead(f, i, rest)
               b == Ahead(f, n, rest)
               c == <<loc[Child(f, n)]>>
               m == (Fields - n) + Len(rest)
    <2>1. /\ i \in 0 .. Fields /\ n \in 0 .. Fields /\ n \in 1 .. Fields
          /\ (Fields - i) + Len(rest) = m + 1 /\ m \in Nat
      BY <1>1
    <2>2. /\ a \in Seq(Address) /\ Len(a) = m + 1
          /\ \A j \in 1 .. m + 1 : a[j] = IF j <= Fields - i THEN loc[Child(f, i + j)]
                                          ELSE rest[j - (Fields - i)]
      BY <1>2, <2>1
    <2>3. /\ b \in Seq(Address) /\ Len(b) = m
          /\ \A j \in 1 .. m : b[j] = IF j <= Fields - n THEN loc[Child(f, n + j)]
                                      ELSE rest[j - (Fields - n)]
      BY <1>2, <2>1
    <2>4. c \in Seq(Address) /\ Len(c) = 1 /\ c[1] = loc[Child(f, n)]
      BY <2>1
    <2> HIDE DEF a, b, c, m
    <2>5. /\ c \o b \in Seq(Address) /\ Len(c \o b) = 1 + m
          /\ \A j \in 1 .. 1 + m : (c \o b)[j] = IF j <= 1 THEN c[j] ELSE b[j - 1]
      <3>1. c \in Seq(Address) /\ b \in Seq(Address)
        BY <2>3, <2>4
      <3>2. /\ c \o b \in Seq(Address) /\ Len(c \o b) = Len(c) + Len(b)
            /\ \A j \in 1 .. Len(c) + Len(b) :
                 (c \o b)[j] = IF j <= Len(c) THEN c[j] ELSE b[j - Len(c)]
        BY <3>1, ConcatProperties
      <3> QED
        BY <2>3, <2>4, <3>2
    <2>6. ASSUME NEW j \in 1 .. m + 1
          PROVE  a[j] = (c \o b)[j]
      <3>1. CASE j = 1
        <4>1. 1 <= Fields - i /\ i + 1 = n
          BY <1>1
        <4>2. a[1] = loc[Child(f, n)]
          BY <2>1, <2>2, <3>1, <4>1
        <4>3. 1 \in 1 .. 1 + m
          BY <2>1
        <4> QED
          BY <2>4, <2>5, <3>1, <4>2, <4>3
      <3>2. CASE j # 1
        <4> DEFINE l == j - 1
        <4>1. l \in 1 .. m /\ j \in 1 .. 1 + m /\ ~(j <= 1) /\ n + l = i + j
              /\ (l <= Fields - n <=> j <= Fields - i)
              /\ l - (Fields - n) = j - (Fields - i)
          BY <1>1, <2>1, <3>2
        <4>2. (c \o b)[j] = b[l]
          BY <2>5, <4>1
        <4>3. b[l] = IF l <= Fields - n THEN loc[Child(f, n + l)] ELSE rest[l - (Fields - n)]
          BY <2>3, <4>1
        <4>4. a[j] = IF j <= Fields - i THEN loc[Child(f, i + j)] ELSE rest[j - (Fields - i)]
          BY <2>2
        <4> HIDE DEF l, n
        <4> QED
          BY <4>1, <4>2, <4>3, <4>4
      <3> QED
        BY <3>1, <3>2
    <2>7. a = c \o b
      <3>1. Len(a) = Len(c \o b) /\ Len(a) = m + 1
        BY <2>1, <2>2, <2>5
      <3> QED
        BY <2>2, <2>5, <2>6, <3>1, SameSeq
    <2> QED
      BY <2>7 DEF a, b, c
  <1> QED
    BY <1>2, <1>3, <1>4, <1>5

\* ... and by its pointers.
LEMMA NodeReadsByPointer ==
    ASSUME TypeOK, NEW f \in Inner, Complete(f), f \in Frame,
           \A i \in 1 .. Fields : loc[Child(f, i)] \in Address,
           NEW s \in [1 .. Fields -> Seq(Frame)],
           \A i \in 1 .. Fields : Reads(Child(f, i), s[i]),
           NEW g \in [1 .. Fields -> Seq(Frame)],
           g[1] = s[1], \A i \in 1 .. Fields - 1 : g[i + 1] = g[i] \o s[i + 1],
           NEW rest \in Seq(Address), NEW u \in Values
    PROVE  Leads(VisitSteps, [todo |-> <<loc[f]>> \o rest, value |-> u],
                             [todo |-> rest, value |-> u \o (<<f>> \o g[Fields])])
  <1> DEFINE p == [todo |-> <<loc[f]>> \o rest, value |-> u]
             w == u \o <<f>>
             Then(i) == [todo |-> Ahead(f, i, rest), value |-> w \o g[i]]
             T == {i \in 1 .. Fields : Leads(VisitSteps, p, Then(i))}
  <1>1. /\ loc[f] \in DOMAIN mem /\ loc[f] \in Address
        /\ mem[loc[f]].tag = "node" /\ mem[loc[f]].of = f
        /\ mem[loc[f]].fields = Starts(f)
    BY DEF Complete, TypeOK, Node, Starts
  <1>2. w \in Values /\ <<f>> \in Values /\ Append(u, f) = w
    BY ReadOneMore
  <1>3. Fields \in Nat /\ 1 \in 1 .. Fields /\ Fields \in 1 .. Fields /\ Fields - 1 \in Nat
    BY FieldsAssumption
  <1>4. \A i \in 1 .. Fields : s[i] \in Values /\ g[i] \in Values
    BY DEF Values
  <1> HIDE DEF w
  <1>5. ASSUME NEW i \in 0 .. Fields - 1, NEW v \in Values
        PROVE  Leads(VisitSteps, [todo |-> Ahead(f, i, rest), value |-> v],
                                 [todo |-> Ahead(f, i + 1, rest), value |-> v \o s[i + 1]])
    <2> DEFINE n == i + 1
    <2>1. n \in 1 .. Fields /\ n \in 0 .. Fields
      BY <1>3
    <2>2. Ahead(f, i, rest) = <<loc[Child(f, n)]>> \o Ahead(f, n, rest)
      BY AheadShape
    <2>3. Ahead(f, n, rest) \in Seq(Address)
      BY <2>1, AheadShape
    <2> HIDE DEF n
    <2>4. Leads(VisitSteps, [todo |-> <<loc[Child(f, n)]>> \o Ahead(f, n, rest), value |-> v],
                            [todo |-> Ahead(f, n, rest), value |-> v \o s[n]])
      BY <2>1, <2>3 DEF Reads
    <2> QED
      BY <2>2, <2>4 DEF n
  <1>6. 1 \in T
    <2>1. /\ p \in Visit /\ p.todo # <<>> /\ Head(p.todo) = loc[f] /\ Tail(p.todo) = rest
          /\ p.value = u
      BY <1>1, FirstPointer DEF Visit
    <2> HIDE DEF p
    <2>2. NextPointer(p) = [todo |-> Ahead(f, 0, rest), value |-> w]
      <3>1. mem[loc[f]].fields \o rest = Ahead(f, 0, rest)
        BY <1>1, AheadShape
      <3> QED
        BY <1>1, <1>2, <2>1, <3>1 DEF NextPointer
    <2>3. Leads(VisitSteps, p, [todo |-> Ahead(f, 0, rest), value |-> w])
      BY <1>1, <2>1, <2>2, StepLeads
    <2>4. Leads(VisitSteps, [todo |-> Ahead(f, 0, rest), value |-> w], Then(1))
      <3>1. 0 \in 0 .. Fields - 1 /\ 0 + 1 = 1
        BY <1>3
      <3> QED
        BY <1>2, <1>5, <3>1
    <2> HIDE DEF Then
    <2> QED
      BY <1>3, <2>3, <2>4, LeadsOn
  <1>7. ASSUME NEW i \in 1 .. Fields - 1, i \in T
        PROVE  i + 1 \in T
    <2>1. i \in 0 .. Fields - 1 /\ i \in 1 .. Fields /\ i + 1 \in 1 .. Fields
      BY <1>3
    <2>2. w \o g[i] \in Values /\ (w \o g[i]) \o s[i + 1] = w \o g[i + 1]
      <3>1. g[i] \in Values /\ s[i + 1] \in Values
        BY <1>4, <2>1
      <3>2. (w \o g[i]) \o s[i + 1] = w \o (g[i] \o s[i + 1])
        BY <1>2, <3>1, ReadThree
      <3> QED
        BY <1>2, <3>1, <3>2, ReadOn
    <2>3. Leads(VisitSteps, Then(i), Then(i + 1))
      BY <1>5, <2>1, <2>2
    <2>4. Leads(VisitSteps, p, Then(i))
      BY <1>7
    <2> HIDE DEF Then, p
    <2> QED
      BY <2>1, <2>3, <2>4, LeadsOn
  <1>8. Fields \in T
    <2> HIDE DEF T
    <2> QED
      BY <1>3, <1>6, <1>7, FieldsAssumption, FromFirstToLast
  <1>9. Then(Fields) = [todo |-> rest, value |-> u \o (<<f>> \o g[Fields])]
    <2>1. g[Fields] \in Values
      BY <1>3, <1>4
    <2>2. w \o g[Fields] = u \o (<<f>> \o g[Fields])
      BY <1>2, <2>1, ReadThree DEF w
    <2> QED
      BY <2>2, AheadShape
  <1> HIDE DEF Then
  <1> QED
    BY <1>8, <1>9

\* The readers know what the calls return that f makes.
FieldsRead(f) ==
    f \in Inner => \A i \in 1 .. Fields :
        /\ loc[Child(f, i)] \in Address
        /\ end[Child(f, i)] \in Address
        /\ ValueAt(loc[Child(f, i)]) \in Seq(Frame)
        /\ Reads(Child(f, i), ValueAt(loc[Child(f, i)]))

\* What is complete reads as the specification says.
LEMMA CompleteReads ==
    TypeOK => \A f \in Frame : Complete(f) /\ FieldsRead(f)
                                 => Built(f) \in Seq(Frame) /\ Reads(f, Built(f))
  <1> SUFFICES ASSUME TypeOK, NEW f \in Frame, Complete(f), FieldsRead(f)
               PROVE  Built(f) \in Seq(Frame) /\ Reads(f, Built(f))
    OBVIOUS
  <1>1. CASE f \notin Inner
    <2>1. <<f>> \in Seq(Frame)
      OBVIOUS
    <2> QED
      BY <1>1, <2>1, LeafReads
  <1>2. CASE f \in Inner
    <2> DEFINE s == [i \in 1 .. Fields |-> ValueAt(loc[Child(f, i)])]
    <2>1. \A i \in 1 .. Fields : /\ loc[Child(f, i)] \in Address /\ end[Child(f, i)] \in Address
                                 /\ s[i] \in Seq(Frame) /\ Reads(Child(f, i), s[i])
      BY <1>2 DEF FieldsRead
    <2>2. s \in [1 .. Fields -> Seq(Frame)] /\ Fields \in Nat \ {0} /\ Fields \in 1 .. Fields
      BY <2>1, FieldsAssumption
    <2>3. Built(f) = <<f>> \o B!FlattenSeq(s)
      <3>1. DOMAIN CallsMade(f) = 1 .. Fields /\ \A i \in 1 .. Fields : CallsMade(f)[i] = Child(f, i)
        BY <1>2 DEF CallsMade, Sequential
      <3>2. [i \in DOMAIN CallsMade(f) |-> ValueAt(loc[CallsMade(f)[i]])] = s
        BY <3>1
      <3> HIDE DEF s
      <3> QED
        BY <3>2 DEF Built
    <2> HIDE DEF s
    <2>4. PICK g \in [1 .. Fields -> Seq(Frame)] :
               /\ g[1] = s[1]
               /\ \A i \in 1 .. Fields - 1 : g[i + 1] = g[i] \o s[i + 1]
               /\ B!FlattenSeq(s) = g[Fields]
      BY <2>2, Flattened
    <2>5. Built(f) = <<f>> \o g[Fields]
      BY <2>3, <2>4
    <2>6. Built(f) \in Seq(Frame)
      <3>1. <<f>> \in Seq(Frame) /\ g[Fields] \in Seq(Frame)
        BY <2>2
      <3> QED
        BY <2>5, <3>1, ConcatProperties
    <2>7. ASSUME NEW k \in Nat, NEW u \in Values
          PROVE  Leads(CursorSteps, [at |-> loc[f], left |-> k + 1, value |-> u],
                              [at |-> end[f], left |-> k, value |-> u \o (<<f>> \o g[Fields])])
      BY <1>2, <2>1, <2>2, <2>4, NodeReadsInOrder
    <2>8. ASSUME NEW rest \in Seq(Address), NEW u \in Values
          PROVE  Leads(VisitSteps, [todo |-> <<loc[f]>> \o rest, value |-> u],
                             [todo |-> rest, value |-> u \o (<<f>> \o g[Fields])])
      BY <1>2, <2>1, <2>2, <2>4, NodeReadsByPointer
    <2>9. Reads(f, <<f>> \o g[Fields])
      BY <2>7, <2>8 DEF Reads
    <2> QED
      BY <2>5, <2>6, <2>9
  <1> QED
    BY <1>1, <1>2

\* The same after a step.
LEMMA CompleteReadsNext ==
    (TypeOK => \A f \in Frame : Complete(f) /\ FieldsRead(f)
                                 => Built(f) \in Seq(Frame) /\ Reads(f, Built(f)))'
  BY CompleteReads, PTL

-----------------------------------------------------------------------------
(***************************************************************************)
(* The inductive invariant: what is in memory behind the calls that have   *)
(* written it.                                                             *)
(***************************************************************************)
Finished == {"return", "done"}

\* A field without a region of its own starts behind the tag or where the one
\* before it ended.
AdjacentOK ==
    \A f \in Inner :
        /\ loc[Child(f, 1)] # None => loc[Child(f, 1)] = After(loc[f])
        /\ \A i \in 2 .. Fields :
             loc[Child(f, i)] # None /\ Child(f, i) \notin fresh
             => end[Child(f, i - 1)] # None /\ loc[Child(f, i)] = end[Child(f, i - 1)]

\* After the sync pointers lead to the others.
TieOK ==
    \A f \in Inner : pc[f] = "construct" =>
        \A i \in TiedFields(f) : /\ TieFrom(f, i) \in DOMAIN mem
                                 /\ mem[TieFrom(f, i)] = Indirection(loc[Child(f, i)])

\* Where a finished call has its value both readers find what it is to return.
ReadOK ==
    \A f \in Frame : pc[f] \in Finished => Built(f) \in Seq(Frame) /\ Reads(f, Built(f))

ReadInv == AdjacentOK /\ TieOK /\ ReadOK

\* Nothing has been placed, tied or finished when the program starts.
LEMMA InitReadInv == Init => ReadInv
  <1> SUFFICES ASSUME Init
               PROVE  ReadInv
    OBVIOUS
  <1>1. ASSUME NEW f \in Inner, NEW i \in 1 .. Fields
        PROVE  loc[Child(f, i)] = None
    BY ChildShape DEF Init
  <1>2. AdjacentOK
    <2>1. 1 \in 1 .. Fields /\ \A i \in 2 .. Fields : i \in 1 .. Fields
      BY FieldsAssumption
    <2> QED
      BY <1>1, <2>1 DEF AdjacentOK
  <1>3. TieOK /\ ReadOK
    BY InnerShape DEF Init, TieOK, ReadOK, Finished
  <1> QED
    BY <1>2, <1>3 DEF ReadInv

\* The pointers of a constructor are in different places: what follows a field
\* with a region of its own does not end where something before it ended.
LEMMA TiesApart ==
    ASSUME MemoryInv, NEW f \in Inner, NEW i \in TiedFields(f), NEW j \in TiedFields(f), i < j,
           \A k \in 1 .. Fields : loc[Child(f, k)] # None /\ end[Child(f, k)] # None
    PROVE  TieFrom(f, i) # TieFrom(f, j)
  <1> DEFINE a == Child(f, i - 1)
             b == Child(f, j - 1)
  <1>1. IInv /\ RegionInv /\ FreshOK
    BY DEF MemoryInv, OffsetInv
  <1>2. /\ i \in 1 .. Fields /\ i - 1 \in 1 .. Fields /\ Child(f, i) \in fresh
        /\ j - 1 \in 1 .. Fields /\ j - 1 \in i .. Fields
        /\ i - 1 \in Nat /\ i - 1 <= Fields /\ (i - 1) + 1 = i
    BY FieldsAssumption DEF TiedFields
  <1>3. /\ end[a] \in Address
        /\ Before(f, i - 1, end[a].reg)
    BY <1>2, FieldEnds
  <1>4. /\ loc[f] # None /\ loc[f] \in Address
        /\ b \in Frame /\ loc[b] # None /\ loc[b] \in Address /\ end[b] # None /\ end[b] \in Address
    BY <1>1, <1>2, PlacedFields DEF IInv, TypeOK
  <1>5. end[a].reg \in Frame
    BY <1>3 DEF Address
  <1>6. Behind(f, i, loc[b].reg)
    BY <1>1, <1>2, <1>4 DEF FreshOK
  <1>7. Behind(f, i, end[b].reg)
    <2>1. end[b].reg = loc[b].reg \/ InTree(b, end[b].reg)
      BY <1>1, <1>4 DEF RegionInv, EndOK
    <2>2. InTree(b, end[b].reg) => Behind(f, i, end[b].reg)
      BY <1>2 DEF Behind
    <2> QED
      BY <1>6, <2>1, <2>2
  <1>8. end[a].reg # end[b].reg
    BY <1>1, <1>2, <1>3, <1>4, <1>5, <1>7, BeforeOrBehind
  <1> QED
    BY <1>8 DEF TieFrom

\* Where fields are stays as it is, but for the field that is placed.
LEMMA NextAdjacentOK ==
    ASSUME IInv, RegionInv, AdjacentOK, [Next]_vars
    PROVE  AdjacentOK'
  <1>1. \A i \in 2 .. Fields : i \in 1 .. Fields /\ i - 1 \in 1 .. Fields
    BY FieldsAssumption
  <1>2. 1 \in 1 .. Fields
    BY FieldsAssumption
  <1>3. ASSUME UNCHANGED loc
        PROVE  AdjacentOK'
    <2> SUFFICES ASSUME NEW f \in Inner
                 PROVE  /\ loc[Child(f, 1)] # None => loc[Child(f, 1)] = After(loc[f])
                        /\ \A i \in 2 .. Fields :
                             loc[Child(f, i)] # None /\ Child(f, i) \notin fresh'
                             => end'[Child(f, i - 1)] # None /\ loc[Child(f, i)] = end'[Child(f, i - 1)]
      BY <1>3 DEF AdjacentOK, After
    <2>1. ASSUME NEW i \in 2 .. Fields, loc[Child(f, i)] # None, Child(f, i) \notin fresh'
          PROVE  end'[Child(f, i - 1)] # None /\ loc[Child(f, i)] = end'[Child(f, i - 1)]
      <3>1. Child(f, i) \notin fresh
        BY <2>1, StepsKeep
      <3>2. Child(f, i - 1) \in Frame
        BY <1>1, ChildShape
      <3>3. end[Child(f, i - 1)] # None /\ loc[Child(f, i)] = end[Child(f, i - 1)]
        BY <2>1, <3>1 DEF AdjacentOK
      <3> QED
        BY <3>2, <3>3, StepsKeep
    <2> QED
      BY <2>1 DEF AdjacentOK
  <1>4. ASSUME NEW w \in Worker, NEW f \in Frame, StartFields(w, f)
        PROVE  AdjacentOK'
    <2>1. f \in Inner /\ pc[f] = "entry"
      BY <1>4 DEF StartFields, At, Sequential
    <2> DEFINE d == Child(f, 1)
    <2>2. d \in Frame /\ d # f
      BY <1>2, <2>1, ChildShape
    <2>3. /\ loc'[d] = After(loc[f])
          /\ \A c \in Frame : c # d => loc'[c] = loc[c]
          /\ UNCHANGED <<end, fresh>>
      BY <1>4, <2>2 DEF StartFields, IInv, TypeOK
    <2> SUFFICES ASSUME NEW g \in Inner
                 PROVE  /\ loc'[Child(g, 1)] # None => loc'[Child(g, 1)] = After(loc'[g])
                        /\ \A i \in 2 .. Fields :
                             loc'[Child(g, i)] # None /\ Child(g, i) \notin fresh'
                             => end'[Child(g, i - 1)] # None /\ loc'[Child(g, i)] = end'[Child(g, i - 1)]
      BY DEF AdjacentOK, After
    <2>4. loc[d] = None
      BY <1>2, <2>1 DEF RegionInv, UnsetOK, Starting
    <2>5. ASSUME NEW i \in 2 .. Fields, loc'[Child(g, i)] # None, Child(g, i) \notin fresh'
          PROVE  end'[Child(g, i - 1)] # None /\ loc'[Child(g, i)] = end'[Child(g, i - 1)]
      <3>1. Child(g, i) # d /\ Child(g, i) \in Frame
        <4>1. Index(Child(g, i)) = i /\ Index(d) = 1 /\ i # 1
          BY <1>1, <1>2, <2>1, ChildShape
        <4> QED
          BY <1>1, <4>1, ChildShape
      <3> HIDE DEF d
      <3> QED
        BY <2>3, <2>5, <3>1 DEF AdjacentOK
    <2>6. loc'[Child(g, 1)] # None => loc'[Child(g, 1)] = After(loc'[g])
      <3>1. CASE g = f
        <4>1. loc'[g] = loc[f]
          BY <2>1, <2>2, <2>3, <3>1
        <4>2. Child(g, 1) = d
          BY <3>1
        <4> HIDE DEF d
        <4> QED
          BY <2>3, <4>1, <4>2
      <3>2. CASE g # f
        <4>1. Child(g, 1) # d /\ Child(g, 1) \in Frame
          BY <1>2, <2>1, <3>2, ChildShape
        <4>2. g = d => loc[Child(g, 1)] = None
          <5>1. pc[d] = "new"
            BY <1>2, <2>1 DEF IInv, StartedOK, Starting
          <5> QED
            BY <1>2, <5>1 DEF RegionInv, UnsetOK, Starting
        <4>3. g \in Frame
          BY InnerShape
        <4> HIDE DEF d
        <4> QED
          BY <2>3, <4>1, <4>2, <4>3 DEF AdjacentOK
      <3> QED
        BY <3>1, <3>2
    <2> QED
      BY <2>5, <2>6
  <1>5. ASSUME NEW w \in Worker, NEW f \in Frame, AfterAvailable(w, f) \/ FreshRegion(w, f)
        PROVE  AdjacentOK'
    <2>1. f \in Inner /\ pc[f] = "spawned"
      BY <1>5 DEF AfterAvailable, FreshRegion, At, IInv, LeavesOK
    <2> DEFINE c == Child(f, child[f])
               n == child[f] + 1
               d == Child(f, n)
    <2>2. n \in 1 .. Fields /\ n # 1 /\ child[f] \in 1 .. Fields /\ n - 1 = child[f] /\ n \in n .. Fields
      <3>1. f \in Frame
        BY <2>1, InnerShape
      <3>2. child[f] \in 1 .. Fields /\ child[f] < Fields
        BY <2>1, <3>1 DEF IInv, TypeOK, ChildOK
      <3> QED
        BY <3>2, FieldsAssumption
    <2>3. d \in Frame /\ d # f /\ d # Root /\ c \in Frame
      BY <2>1, <2>2, ChildShape
    <2>4. /\ \A e \in Frame : e # d => loc'[e] = loc[e]
          /\ UNCHANGED end
          /\ \/ d \in fresh'
             \/ loc'[d] = end[c] /\ not_stolen(w, f)
          /\ fresh \subseteq fresh'
      BY <1>5, <2>3 DEF AfterAvailable, FreshRegion, IInv, TypeOK
    <2>5. not_stolen(w, f) => end[c] # None
      <3>1. not_stolen(w, f) => pc[c] = "done"
        BY <1>5, <2>1 DEF not_stolen, AfterAvailable, FreshRegion, At, IInv, BackOK
      <3> QED
        BY <2>3, <3>1, AddressShape DEF IInv, LocOK
    <2> SUFFICES ASSUME NEW g \in Inner
                 PROVE  /\ loc'[Child(g, 1)] # None => loc'[Child(g, 1)] = After(loc'[g])
                        /\ \A i \in 2 .. Fields :
                             loc'[Child(g, i)] # None /\ Child(g, i) \notin fresh'
                             => end'[Child(g, i - 1)] # None /\ loc'[Child(g, i)] = end'[Child(g, i - 1)]
      BY DEF AdjacentOK, After
    <2>6. g \in Frame /\ (g = d => loc[Child(g, 1)] = None)
      <3>1. pc[d] = "new"
        BY <2>1, <2>2 DEF IInv, StartedOK
      <3> QED
        BY <1>2, <3>1, InnerShape DEF RegionInv, UnsetOK, Starting
    <2>7. loc'[Child(g, 1)] # None => loc'[Child(g, 1)] = After(loc'[g])
      <3>1. Child(g, 1) # d /\ Child(g, 1) \in Frame
        <4>1. Index(Child(g, 1)) = 1 /\ Index(d) = n
          BY <1>2, <2>1, <2>2, ChildShape
        <4> QED
          BY <1>2, <2>2, <4>1, ChildShape
      <3> HIDE DEF d
      <3> QED
        BY <2>4, <2>6, <3>1 DEF AdjacentOK
    <2>8. ASSUME NEW i \in 2 .. Fields, loc'[Child(g, i)] # None, Child(g, i) \notin fresh'
          PROVE  end'[Child(g, i - 1)] # None /\ loc'[Child(g, i)] = end'[Child(g, i - 1)]
      <3>1. CASE Child(g, i) = d
        <4>1. g = f /\ i = n
          BY <1>1, <2>1, <2>2, <3>1, ChildShape
        <4>2. Child(g, i - 1) = c
          BY <2>2, <4>1
        <4> HIDE DEF c, d
        <4> QED
          BY <2>4, <2>5, <2>8, <3>1, <4>2
      <3>2. CASE Child(g, i) # d
        <4>1. Child(g, i) \in Frame
          BY <1>1, ChildShape
        <4> HIDE DEF d
        <4> QED
          BY <2>4, <2>8, <3>2, <4>1 DEF AdjacentOK
      <3> QED
        BY <3>1, <3>2
    <2> QED
      BY <2>7, <2>8
  <1>6. ASSUME NEW w \in Worker, NEW f \in Frame, Step(w, f)
        PROVE  AdjacentOK'
    <2>1. CASE StartFields(w, f)
      BY <1>4, <2>1
    <2>2. CASE AfterAvailable(w, f) \/ FreshRegion(w, f)
      BY <1>5, <2>2
    <2>3. CASE \/ WriteLeaf(w, f) \/ Spawn(w, f) \/ CallLast(w, f) \/ Sync(w, f)
               \/ Tie(w, f) \/ Construct(w, f)
      BY <1>3, <2>3 DEF WriteLeaf, Spawn, CallLast, Sync, Tie, Construct
    <2>4. CASE ReturnCalled(w, f) \/ ReturnPopped(w, f) \/ ReturnStolen(w, f) \/ ReturnRoot(w, f)
      BY <1>3, <2>4 DEF ReturnCalled, ReturnPopped, ReturnStolen, ReturnRoot
    <2> QED
      BY <1>6, <2>1, <2>2, <2>3, <2>4 DEF Step
  <1>7. ASSUME NEW w \in Worker, NEW v \in Worker, Steal(w, v)
        PROVE  AdjacentOK'
    BY <1>3, <1>7 DEF Steal
  <1>8. UNCHANGED vars => AdjacentOK'
    BY <1>3 DEF vars
  <1> QED
    BY <1>6, <1>7, <1>8 DEF Next, Work

\* Who comes to the constructor has tied its fields, who is finished has just
\* written its value, and one call returns at a time.
LEMMA StepsMove ==
    ASSUME IInv, [Next]_vars
    PROVE  /\ \A f \in Frame :
                /\ pc'[f] = "construct" => pc[f] = "construct" \/ \E w \in Worker : Tie(w, f)
                /\ pc'[f] \in Finished
                     => pc[f] \in Finished \/ \E w \in Worker : WriteLeaf(w, f) \/ Construct(w, f)
           /\ \/ \A c \in Frame : pc'[c] = "done" <=> pc[c] = "done"
              \/ \E f \in Frame :
                   /\ pc[f] = "return" /\ pc'[f] = "done" /\ UNCHANGED <<loc, mem>>
                   /\ \A c \in Frame \ {f} : pc'[c] = "done" <=> pc[c] = "done"
  <1> DEFINE Arrives(f) ==
               /\ pc'[f] = "construct" => pc[f] = "construct" \/ \E w \in Worker : Tie(w, f)
               /\ pc'[f] \in Finished
                    => pc[f] \in Finished \/ \E w \in Worker : WriteLeaf(w, f) \/ Construct(w, f)
             NoReturn == \A c \in Frame : pc'[c] = "done" <=> pc[c] = "done"
             Returns(f) == /\ pc[f] = "return" /\ pc'[f] = "done" /\ UNCHANGED <<loc, mem>>
                           /\ \A c \in Frame \ {f} : pc'[c] = "done" <=> pc[c] = "done"
             Moves == (\A f \in Frame : Arrives(f)) /\ (NoReturn \/ \E f \in Frame : Returns(f))
  <1>1. ASSUME UNCHANGED pc
        PROVE  Moves
    BY <1>1
  <1>2. pc \in [Frame -> PC]
    BY DEF IInv, TypeOK
  <1>3. ASSUME NEW w \in Worker, NEW f \in Frame, WriteLeaf(w, f) \/ Construct(w, f)
        PROVE  Moves
    <2>1. /\ pc[f] \in {"entry", "construct"} /\ pc'[f] = "return"
          /\ \A c \in Frame \ {f} : pc'[c] = pc[c]
      BY <1>2, <1>3 DEF WriteLeaf, Construct, At
    <2>2. NoReturn
      BY <2>1
    <2>3. \A c \in Frame : Arrives(c)
      BY <1>3, <2>1 DEF Finished
    <2> QED
      BY <2>2, <2>3
  <1>4. ASSUME NEW w \in Worker, NEW f \in Frame, Tie(w, f)
        PROVE  Moves
    <2>1. /\ pc[f] = "tie" /\ pc'[f] = "construct"
          /\ \A c \in Frame \ {f} : pc'[c] = pc[c]
      BY <1>2, <1>4 DEF Tie, At
    <2>2. NoReturn
      BY <2>1
    <2>3. \A c \in Frame : Arrives(c)
      BY <1>4, <2>1 DEF Finished
    <2> QED
      BY <2>2, <2>3
  <1>5. ASSUME NEW w \in Worker, NEW f \in Frame,
               \/ StartFields(w, f) \/ Spawn(w, f) \/ AfterAvailable(w, f)
               \/ FreshRegion(w, f) \/ CallLast(w, f) \/ Sync(w, f)
        PROVE  Moves
    <2>1. ASSUME NEW c \in Frame
          PROVE  pc'[c] = pc[c] \/ (pc'[c] \notin Finished \cup {"construct"} /\ pc[c] # "done")
      <3>1. CASE StartFields(w, f)
        BY <1>2, <3>1 DEF StartFields, At, Finished
      <3>2. CASE Spawn(w, f) \/ CallLast(w, f)
        <4>1. f \in Inner /\ pc[f] = "build" /\ child[f] \in 1 .. Fields /\ Fields \in 1 .. Fields
          <5>1. pc[f] = "build"
            BY <3>2 DEF Spawn, CallLast, At
          <5>2. f \in Inner
            BY <5>1 DEF IInv, LeavesOK
          <5>3. child[f] \in 1 .. Fields
            BY DEF IInv, TypeOK
          <5> QED
            BY <5>1, <5>2, <5>3, FieldsAssumption
        <4>2. \A i \in 1 .. Fields : i = child[f] => pc[Child(f, i)] = "new"
          BY <4>1 DEF IInv, StartedOK
        <4>3. CASE Spawn(w, f)
          BY <1>2, <4>1, <4>2, <4>3 DEF Spawn, At, Finished
        <4>4. CASE CallLast(w, f)
          BY <1>2, <4>1, <4>2, <4>4 DEF CallLast, At, Finished
        <4> QED
          BY <3>2, <4>3, <4>4
      <3>3. CASE AfterAvailable(w, f) \/ FreshRegion(w, f)
        BY <1>2, <3>3 DEF AfterAvailable, FreshRegion, At, Finished
      <3>4. CASE Sync(w, f)
        BY <1>2, <3>4 DEF Sync, At, Finished
      <3> QED
        BY <1>5, <3>1, <3>2, <3>3, <3>4
    <2>2. NoReturn
      BY <2>1 DEF Finished
    <2>3. \A c \in Frame : Arrives(c)
      BY <2>1
    <2> QED
      BY <2>2, <2>3
  <1>6. ASSUME NEW w \in Worker, NEW f \in Frame,
               ReturnCalled(w, f) \/ ReturnPopped(w, f) \/ ReturnStolen(w, f) \/ ReturnRoot(w, f)
        PROVE  Moves
    <2>1. /\ pc[f] = "return" /\ pc'[f] = "done" /\ UNCHANGED <<loc, mem>>
          /\ \A c \in Frame \ {f} : pc'[c] = pc[c] \/ (pc'[c] \in {"sync", "tie"} /\ pc[c] # "done")
      <3>1. CASE ReturnCalled(w, f)
        <4>1. /\ f # Root /\ Parent(f) \in Inner /\ Index(f) \in 1 .. Fields /\ f = Child(Parent(f), Index(f))
              /\ pc[f] = "return"
          BY <3>1, ParentShape DEF ReturnCalled, At
        <4>2. f # Parent(f) /\ Parent(f) \in Frame
          BY <4>1, ChildShape
        <4>3. pc[Parent(f)] # "done"
          BY <4>1 DEF IInv, JoinOK, Joined
        <4> QED
          BY <1>2, <3>1, <4>2, <4>3 DEF ReturnCalled, At
      <3>2. CASE ReturnPopped(w, f) \/ ReturnRoot(w, f)
        BY <1>2, <3>2 DEF ReturnPopped, ReturnRoot, At
      <3>3. CASE ReturnStolen(w, f)
        <4>1. f # Parent(f)
          BY <3>3, ParentShape, ChildShape DEF ReturnStolen, Spawned
        <4> QED
          BY <1>2, <3>3, <4>1 DEF ReturnStolen, At
      <3> QED
        BY <1>6, <3>1, <3>2, <3>3
    <2>2. Returns(f)
      BY <2>1
    <2>3. \A c \in Frame : Arrives(c)
      BY <2>1 DEF Finished
    <2> QED
      BY <2>2, <2>3
  <1>7. ASSUME NEW w \in Worker, NEW f \in Frame, Step(w, f)
        PROVE  Moves
    <2> HIDE DEF Moves
    <2> QED
      BY <1>3, <1>4, <1>5, <1>6, <1>7 DEF Step
  <1>8. ASSUME NEW w \in Worker, NEW v \in Worker, Steal(w, v)
        PROVE  Moves
    BY <1>1, <1>8 DEF Steal
  <1>9. UNCHANGED vars => Moves
    BY <1>1 DEF vars
  <1>10. Moves
    <2> HIDE DEF Moves
    <2> QED
      BY <1>7, <1>8, <1>9 DEF Next, Work
  <1> QED
    BY <1>10

\* Regions are made while the fields are begun.
LEMMA TiedKept ==
    ASSUME IInv, RegionInv, [Next]_vars, NEW f \in Inner, pc[f] # "spawned"
    PROVE  TiedFields(f)' = TiedFields(f)
  <1>1. \A i \in 1 .. Fields : Child(f, i) \in fresh' => Child(f, i) \in fresh
    <2> SUFFICES ASSUME NEW i \in 1 .. Fields, Child(f, i) \notin fresh
                 PROVE  Child(f, i) \notin fresh'
      OBVIOUS
    <2>1. ASSUME NEW w \in Worker, NEW g \in Frame, FreshRegion(w, g)
          PROVE  Child(f, i) \notin fresh'
      <3>1. g \in Inner /\ pc[g] = "spawned"
        BY <2>1 DEF FreshRegion, At, IInv, LeavesOK
      <3>2. child[g] + 1 \in 1 .. Fields /\ g # f
        <4>1. g \in Frame
          BY <3>1, InnerShape
        <4>2. child[g] \in 1 .. Fields /\ child[g] < Fields
          BY <3>1, <4>1 DEF IInv, TypeOK, ChildOK
        <4> QED
          BY <3>1, <4>2, FieldsAssumption
      <3>3. Child(f, i) # Child(g, child[g] + 1)
        BY <3>1, <3>2, ChildShape
      <3> QED
        BY <2>1, <3>3 DEF FreshRegion
    <2>2. ASSUME UNCHANGED fresh
          PROVE  Child(f, i) \notin fresh'
      BY <2>2
    <2>3. ASSUME NEW w \in Worker, NEW g \in Frame, Step(w, g)
          PROVE  Child(f, i) \notin fresh'
      <3>1. CASE FreshRegion(w, g)
        BY <2>1, <3>1
      <3>2. CASE \/ WriteLeaf(w, g) \/ StartFields(w, g) \/ Spawn(w, g) \/ AfterAvailable(w, g)
                 \/ CallLast(w, g) \/ Sync(w, g) \/ Tie(w, g) \/ Construct(w, g)
        BY <2>2, <3>2 DEF WriteLeaf, StartFields, Spawn, AfterAvailable, CallLast, Sync, Tie, Construct
      <3>3. CASE ReturnCalled(w, g) \/ ReturnPopped(w, g) \/ ReturnStolen(w, g) \/ ReturnRoot(w, g)
        BY <2>2, <3>3 DEF ReturnCalled, ReturnPopped, ReturnStolen, ReturnRoot
      <3> QED
        BY <2>3, <3>1, <3>2, <3>3 DEF Step
    <2> QED
      BY <2>2, <2>3 DEF Next, Work, Steal, vars
  <1>2. \A i \in 2 .. Fields : i \in 1 .. Fields
    BY FieldsAssumption
  <1>3. fresh \subseteq fresh'
    BY StepsKeep
  <1> QED
    BY <1>1, <1>2, <1>3 DEF TiedFields

\* Fields that have joined are in their places, and a call that joined them has
\* been placed.
LEMMA JoinedFields ==
    ASSUME IInv, NEW f \in Inner, pc[f] \in Joined, NEW i \in 1 .. Fields
    PROVE  LET c == Child(f, i)
           IN /\ c \in Frame /\ pc[c] = "done"
              /\ loc[c] \in Address /\ loc[c] # None
              /\ end[c] \in Address /\ end[c] # None
  <1>1. Child(f, i) \in Frame /\ pc[Child(f, i)] = "done"
    BY ChildShape DEF IInv, JoinOK
  <1> QED
    BY <1>1, AddressShape DEF IInv, LocOK

\* The pointers that a sync ties are there when the constructor is written.
LEMMA NextTieOK ==
    ASSUME MemoryInv, WrittenOK, TieOK, [Next]_vars
    PROVE  TieOK'
  <1> SUFFICES ASSUME NEW f \in Inner, pc'[f] = "construct", NEW i \in TiedFields(f)'
               PROVE  /\ TieFrom(f, i)' \in DOMAIN mem'
                      /\ mem'[TieFrom(f, i)'] = Indirection(loc'[Child(f, i)])
    BY DEF TieOK, Indirection
  <1>1. IInv /\ RegionInv /\ f \in Frame
    BY InnerShape DEF MemoryInv
  <1>2. CASE pc[f] = "construct"
    <2>1. i \in TiedFields(f) /\ i \in 1 .. Fields /\ i - 1 \in 1 .. Fields
      <3>1. i \in TiedFields(f)
        BY <1>1, <1>2, TiedKept
      <3> QED
        BY <3>1, FieldsAssumption DEF TiedFields
    <2>2. TieFrom(f, i) \in DOMAIN mem /\ mem[TieFrom(f, i)] = Indirection(loc[Child(f, i)])
      BY <1>2, <2>1 DEF TieOK
    <2>3. TieFrom(f, i)' = TieFrom(f, i) /\ loc'[Child(f, i)] = loc[Child(f, i)]
      BY <1>1, <1>2, <2>1, JoinedFields, StepsKeep DEF Joined, TieFrom
    <2> QED
      BY <2>2, <2>3, StepsWriteOnce
  <1>3. CASE pc[f] # "construct"
    <2>1. PICK w \in Worker : Tie(w, f)
      BY <1>1, <1>3, StepsMove
    <2>2. pc[f] = "tie" /\ UNCHANGED <<loc, end, fresh>> /\ i \in TiedFields(f)
      BY <2>1 DEF Tie, At, TiedFields
    <2>3. \A k \in 1 .. Fields : loc[Child(f, k)] # None /\ end[Child(f, k)] # None
      BY <1>1, <2>2, JoinedFields DEF Joined
    <2> DEFINE a == TieFrom(f, i)
               Here(k) == k \in TiedFields(f) /\ TieFrom(f, k) = a
               k0 == CHOOSE k \in TiedFields(f) : TieFrom(f, k) = a
    <2>4. ASSUME NEW k \in TiedFields(f), TieFrom(f, k) = a
          PROVE  k = i
      <3>1. k \in Nat /\ i \in Nat
        BY <2>2, FieldsAssumption DEF TiedFields
      <3>2. ~(k < i) /\ ~(i < k)
        BY <2>2, <2>3, <2>4, TiesApart
      <3> QED
        BY <3>1, <3>2
    <2>5. k0 = i
      BY <2>2, <2>4
    <2>6. a \in DOMAIN mem' /\ mem'[a] = Indirection(loc[Child(f, k0)])
      BY <2>1, <2>2 DEF Tie
    <2>7. TieFrom(f, i)' = a
      BY <2>2 DEF TieFrom
    <2> HIDE DEF a, k0
    <2> QED
      BY <2>2, <2>5, <2>6, <2>7
  <1> QED
    BY <1>2, <1>3

\* The readers still read what they have read: nothing is written twice.
LEMMA ReadsKept ==
    ASSUME MemoryInv, WrittenOK, [Next]_vars, NEW c \in Frame, loc[c] # None, end[c] # None,
           NEW v, Reads(c, v)
    PROVE  Reads(c, v)'
  <1>1. loc'[c] = loc[c] /\ end'[c] = end[c]
    BY StepsKeep DEF MemoryInv
  <1>2. ASSUME NEW a \in DOMAIN mem
        PROVE  a \in DOMAIN mem' /\ mem'[a] = mem[a]
    BY StepsWriteOnce
  <1>3. CursorSteps \subseteq CursorSteps'
    <2>1. ASSUME NEW s \in Cursor, s.at \in DOMAIN mem
          PROVE  s.at \in DOMAIN mem' /\ NextCell(s)' = NextCell(s)
      BY <1>2, <2>1 DEF NextCell, IsIndirection, Redirect, ReadCell, After
    <2> QED
      BY <2>1 DEF CursorSteps
  <1>4. VisitSteps \subseteq VisitSteps'
    <2>1. ASSUME NEW s \in Visit, Head(s.todo) \in DOMAIN mem
          PROVE  Head(s.todo) \in DOMAIN mem' /\ NextPointer(s)' = NextPointer(s)
      BY <1>2, <2>1 DEF NextPointer
    <2> QED
      BY <2>1 DEF VisitSteps
  <1>5. ASSUME NEW k \in Nat, NEW u \in Values
        PROVE  Leads(CursorSteps', [at |-> loc'[c], left |-> k + 1, value |-> u],
                                   [at |-> end'[c], left |-> k, value |-> u \o v])
    <2>1. Leads(CursorSteps, [at |-> loc[c], left |-> k + 1, value |-> u],
                             [at |-> end[c], left |-> k, value |-> u \o v])
      BY DEF Reads
    <2> QED
      BY <1>1, <1>3, <2>1, LeadsOn
  <1>6. ASSUME NEW rest \in Seq(Address), NEW u \in Values
        PROVE  Leads(VisitSteps', [todo |-> <<loc'[c]>> \o rest, value |-> u],
                                  [todo |-> rest, value |-> u \o v])
    <2>1. Leads(VisitSteps, [todo |-> <<loc[c]>> \o rest, value |-> u],
                            [todo |-> rest, value |-> u \o v])
      BY DEF Reads
    <2>2. Leads(VisitSteps', [todo |-> <<loc[c]>> \o rest, value |-> u],
                             [todo |-> rest, value |-> u \o v])
      <3>1. \A s, t : Leads(VisitSteps, s, t) => Leads(VisitSteps', s, t)
        BY <1>4, LeadsOn
      <3> QED
        BY <2>1, <3>1, Zenon
    <2> QED
      BY <1>1, <2>2
  <1> QED
    BY <1>5, <1>6 DEF Reads, Leads

\* What a finished call has is what both readers find there.
LEMMA FinishedReads ==
    ASSUME TypeOK, LocOK, ReadOK, NEW f \in Frame, pc[f] \in Finished
    PROVE  /\ loc[f] \in Address /\ end[f] \in Address
           /\ ValueAt(loc[f]) = Built(f) /\ ValueByPointer(loc[f]) = Built(f)
           /\ ValueAt(loc[f]) \in Seq(Frame)
           /\ Reads(f, ValueAt(loc[f]))
  <1>1. loc[f] \in Address /\ end[f] \in Address
    BY DEF LocOK, Finished
  <1>2. Built(f) \in Seq(Frame) /\ Reads(f, Built(f))
    BY DEF ReadOK
  <1>3. Built(f) \in Values
    BY <1>2 DEF Values
  <1>4. ValueAt(loc[f]) = Built(f) /\ ValueByPointer(loc[f]) = Built(f)
    BY <1>1, <1>2, <1>3, ReadsValue
  <1> QED
    BY <1>1, <1>2, <1>4

\* What a reader finds, after a step.
LEMMA ReadsValueNext ==
    (TypeOK => \A c \in Frame, v \in Values :
                 loc[c] \in Address /\ end[c] \in Address /\ Reads(c, v)
                   => ValueAt(loc[c]) = v /\ ValueByPointer(loc[c]) = v)'
  <1>1. TypeOK => \A c \in Frame, v \in Values :
                    loc[c] \in Address /\ end[c] \in Address /\ Reads(c, v)
                      => ValueAt(loc[c]) = v /\ ValueByPointer(loc[c]) = v
    BY ReadsValue
  <1> QED
    BY <1>1, PTL

\* The value of a finished call stays as it is.
LEMMA ValueKept ==
    ASSUME MemoryInv, WrittenOK, ReadOK, [Next]_vars, NEW f \in Frame, pc[f] \in Finished
    PROVE  /\ loc'[f] = loc[f] /\ loc[f] \in Address /\ end'[f] = end[f] /\ end[f] \in Address
           /\ ValueAt(loc[f])' = ValueAt(loc[f])
           /\ ValueAt(loc[f]) \in Seq(Frame)
           /\ Reads(f, ValueAt(loc[f]))
           /\ Reads(f, ValueAt(loc[f]))'
  <1>1. IInv /\ RegionInv /\ TypeOK /\ LocOK
    BY DEF MemoryInv, IInv
  <1>2. TypeOK'
    BY <1>1, NextIInv DEF IInv
  <1>3. PICK v : v = ValueAt(loc[f])
    OBVIOUS
  <1>4. loc[f] \in Address /\ end[f] \in Address /\ v \in Seq(Frame) /\ Reads(f, v)
    BY <1>1, <1>3, FinishedReads
  <1>5. Reads(f, v)' /\ loc'[f] = loc[f] /\ end'[f] = end[f]
    BY <1>1, <1>4, AddressShape, ReadsKept, StepsKeep
  <1>6. v \in Values
    BY <1>4 DEF Values
  <1>7. ValueAt(loc[f])' = v
    BY <1>2, <1>4, <1>5, <1>6, ReadsValueNext
  <1> QED
    BY <1>3, <1>4, <1>5, <1>7

\* A call that writes its value leaves it complete: a leaf is one cell, ...
LEMMA LeafComplete ==
    ASSUME MemoryInv, NEW w \in Worker, NEW f \in Frame, WriteLeaf(w, f)
    PROVE  f \notin Inner /\ Complete(f)'
  <1>1. f \notin Inner
    BY DEF WriteLeaf, Sequential
  <1>2. /\ loc' = loc /\ mem' = Put(mem, loc[f], Leaf(f))
        /\ end'[f] = After(loc[f])
    BY DEF WriteLeaf, MemoryInv, IInv, TypeOK
  <1>3. loc[f] \in DOMAIN mem' /\ mem'[loc[f]] = Leaf(f)
    BY <1>2 DEF Put
  <1> QED
    BY <1>1, <1>2, <1>3 DEF Complete, Leaf, After

\* ... and the fields of a constructor are tied to each other.
LEMMA NodeComplete ==
    ASSUME MemoryInv, WrittenOK, AdjacentOK, TieOK, NEW w \in Worker, NEW f \in Frame,
           Construct(w, f), [Next]_vars
    PROVE  f \in Inner /\ pc[f] = "construct" /\ Complete(f)'
  <1>1. f \in Inner /\ pc[f] = "construct"
    BY DEF Construct, At, MemoryInv, IInv, LeavesOK
  <1>2. IInv /\ RegionInv
    BY DEF MemoryInv
  <1>3. \A i \in 1 .. Fields : /\ Child(f, i) \in Frame /\ Child(f, i) # f
                               /\ loc[Child(f, i)] # None /\ end[Child(f, i)] # None
    BY <1>1, <1>2, ChildShape, JoinedFields DEF Joined
  <1>4. /\ loc' = loc /\ mem' = Put(mem, loc[f], Node(f))
        /\ end'[f] = end[Child(f, Fields)]
        /\ \A i \in 1 .. Fields : end'[Child(f, i)] = end[Child(f, i)]
    BY <1>2, <1>3 DEF Construct, IInv, TypeOK
  <1>5. loc[f] \in DOMAIN mem' /\ mem'[loc[f]] = Node(f)
    BY <1>4 DEF Put
  <1>6. Node(f)' = Node(f)
    BY <1>4 DEF Node
  <1>7. 1 \in 1 .. Fields /\ Fields \in 1 .. Fields
    BY FieldsAssumption
  <1>8. Linked(f)'
    <2>1. loc[Child(f, 1)] = After(loc[f])
      BY <1>1, <1>3, <1>7 DEF AdjacentOK
    <2>2. ASSUME NEW i \in 2 .. Fields
          PROVE  \/ loc[Child(f, i)] = end'[Child(f, i - 1)]
                 \/ /\ end'[Child(f, i - 1)] \in DOMAIN mem'
                    /\ mem'[end'[Child(f, i - 1)]] = Indirection(loc[Child(f, i)])
      <3>1. i \in 1 .. Fields /\ i - 1 \in 1 .. Fields
        BY FieldsAssumption
      <3>2. end'[Child(f, i - 1)] = end[Child(f, i - 1)]
        BY <1>4, <3>1
      <3>3. CASE Child(f, i) \notin fresh
        BY <1>1, <1>3, <3>1, <3>2, <3>3 DEF AdjacentOK
      <3>4. CASE Child(f, i) \in fresh
        <4>1. i \in TiedFields(f)
          BY <3>4 DEF TiedFields
        <4>2. TieFrom(f, i) \in DOMAIN mem /\ mem[TieFrom(f, i)] = Indirection(loc[Child(f, i)])
          BY <1>1, <4>1 DEF TieOK
        <4>3. TieFrom(f, i) \in DOMAIN mem' /\ mem'[TieFrom(f, i)] = Indirection(loc[Child(f, i)])
          BY <4>2, StepsWriteOnce
        <4> QED
          BY <3>2, <4>3 DEF TieFrom
      <3> QED
        BY <3>3, <3>4
    <2> QED
      BY <1>4, <2>1, <2>2 DEF Linked, After, Indirection
  <1>9. end'[f] = end'[Child(f, Fields)]
    BY <1>4, <1>7
  <1> QED
    BY <1>1, <1>4, <1>5, <1>6, <1>8, <1>9 DEF Complete

\* What a call is to return is known when its fields have joined.
LEMMA BuiltKept ==
    ASSUME MemoryInv, WrittenOK, ReadOK, [Next]_vars, NEW f \in Frame,
           f \in Inner => pc[f] \in Joined
    PROVE  Built(f)' = Built(f) /\ FieldsRead(f)'
  <1>1. ASSUME f \in Inner, NEW i \in 1 .. Fields
        PROVE  LET c == Child(f, i)
               IN /\ loc'[c] = loc[c] /\ loc'[c] \in Address /\ end'[c] \in Address
                  /\ ValueAt(loc[c])' = ValueAt(loc[c])
                  /\ ValueAt(loc[c])' \in Seq(Frame)
                  /\ Reads(c, ValueAt(loc[c]))'
    <2>1. Child(f, i) \in Frame /\ pc[Child(f, i)] \in Finished
      BY <1>1, JoinedFields DEF MemoryInv, Finished
    <2> QED
      BY <2>1, ValueKept
  <1>2. FieldsRead(f)'
    BY <1>1 DEF FieldsRead
  <1>3. ASSUME NEW i \in DOMAIN CallsMade(f)
        PROVE  ValueAt(loc[CallsMade(f)[i]])' = ValueAt(loc[CallsMade(f)[i]])
    <2>1. f \in Inner /\ i \in 1 .. Fields /\ CallsMade(f)[i] = Child(f, i)
      BY DEF CallsMade, Sequential
    <2> QED
      BY <1>1, <2>1
  <1>4. Built(f)' = Built(f)
    BY <1>3 DEF Built
  <1> QED
    BY <1>2, <1>4

\* The values of the calls that have finished are what they are to return, and
\* stay.
LEMMA NextReadOK ==
    ASSUME MemoryInv, WrittenOK, AdjacentOK, TieOK, ReadOK, [Next]_vars
    PROVE  ReadOK'
  <1> SUFFICES ASSUME NEW f \in Frame, pc'[f] \in Finished
               PROVE  (Built(f) \in Seq(Frame) /\ Reads(f, Built(f)))'
    BY DEF ReadOK, Finished
  <1>1. IInv /\ TypeOK'
    BY NextIInv DEF MemoryInv, IInv
  <1>2. CASE pc[f] \in Finished
    <2>1. Built(f)' = Built(f)
      BY <1>2, BuiltKept DEF Finished, Joined
    <2>2. ValueAt(loc[f]) = Built(f)
      BY <1>1, <1>2, FinishedReads DEF IInv
    <2>3. /\ ValueAt(loc[f])' = ValueAt(loc[f]) /\ ValueAt(loc[f]) \in Seq(Frame)
          /\ Reads(f, ValueAt(loc[f]))'
      BY <1>2, ValueKept
    <2>4. ValueAt(loc[f])' = Built(f)'
      BY <2>1, <2>2, <2>3
    <2> QED
      BY <2>2, <2>1, <2>3, <2>4
  <1>3. ASSUME NEW w \in Worker, WriteLeaf(w, f)
        PROVE  (Built(f) \in Seq(Frame) /\ Reads(f, Built(f)))'
    <2>1. f \notin Inner /\ Complete(f)'
      BY <1>3, LeafComplete
    <2>2. FieldsRead(f)'
      BY <2>1 DEF FieldsRead
    <2> QED
      BY <1>1, <2>1, <2>2, CompleteReadsNext
  <1>4. ASSUME NEW w \in Worker, Construct(w, f)
        PROVE  (Built(f) \in Seq(Frame) /\ Reads(f, Built(f)))'
    <2>1. f \in Inner /\ pc[f] = "construct" /\ Complete(f)'
      BY <1>4, NodeComplete
    <2>2. FieldsRead(f)'
      BY <2>1, BuiltKept DEF Joined
    <2> QED
      BY <1>1, <2>1, <2>2, CompleteReadsNext
  <1> QED
    BY <1>1, <1>2, <1>3, <1>4, StepsMove

-----------------------------------------------------------------------------
(* The invariant holds in every reachable state. *)
THEOREM ParReadInv == Spec => [](MemoryInv /\ WrittenOK /\ ReadInv)
  <1>1. Init => ReadInv
    BY InitReadInv
  <1>2. MemoryInv /\ WrittenOK /\ ReadInv /\ [Next]_vars => ReadInv'
    BY NextAdjacentOK, NextTieOK, NextReadOK DEF ReadInv, MemoryInv
  <1> QED
    BY <1>1, <1>2, ParMemoryInv, PTL DEF Spec

(* The random access nodes lead to the same value as the reading in order, cell
   for cell, whatever was stolen: what AddRAN takes down before the sync is right
   after it (AddRAN; Cursorize, unpackWithAbsRAN). *)
THEOREM ParPointersReadBack == Spec => []PointersReadBack
  <1>1. MemoryInv /\ ReadInv => PointersReadBack
    BY FinishedReads DEF MemoryInv, IInv, ReadInv, PointersReadBack, Finished
  <1> QED
    BY <1>1, ParReadInv, PTL

-----------------------------------------------------------------------------
(***************************************************************************)
(* The refinement: calls return one after the other, each when those that  *)
(* it makes have, and nothing else is seen of the workers.                 *)
(***************************************************************************)
Results == [f \in Frame |-> ReturnedValue(f)]

\* A call that has returned has a value, and it is the one that it is to return.
LEMMA ReturnedBuilt ==
    ASSUME MemoryInv, ReadInv, NEW c \in Frame, pc[c] \in Finished
    PROVE  /\ ValueAt(loc[c]) = <<c>> \o B!FlattenSeq([i \in DOMAIN CallsMade(c) |->
                                                        ValueAt(loc[CallsMade(c)[i]])])
           /\ ValueAt(loc[c]) # <<>>
  <1>1. ValueAt(loc[c]) = Built(c) /\ Built(c) \in Seq(Frame)
    BY FinishedReads DEF MemoryInv, IInv, ReadInv
  <1> DEFINE rest == B!FlattenSeq([i \in DOMAIN CallsMade(c) |-> ValueAt(loc[CallsMade(c)[i]])])
  <1>3. <<c>> \o rest # <<>>
    <2> HIDE DEF rest
    <2> QED
      OBVIOUS
  <1> QED
    BY <1>1, <1>3 DEF Built

\* The calls that a call makes are calls, and have returned before it.
LEMMA CallsReturned ==
    ASSUME MemoryInv, ReadInv, NEW f \in Frame, pc[f] = "return", NEW i \in DOMAIN CallsMade(f)
    PROVE  /\ CallsMade(f)[i] \in Frame
           /\ Results[CallsMade(f)[i]] = ValueAt(loc[CallsMade(f)[i]])
           /\ Results[CallsMade(f)[i]] # <<>>
  <1>1. f \in Inner /\ i \in 1 .. Fields /\ CallsMade(f)[i] = Child(f, i)
    BY DEF CallsMade, Sequential
  <1>2. Child(f, i) \in Frame /\ pc[Child(f, i)] = "done"
    BY <1>1, JoinedFields DEF MemoryInv, Joined
  <1>3. ValueAt(loc[Child(f, i)]) # <<>>
    BY <1>2, ReturnedBuilt DEF Finished
  <1> QED
    BY <1>1, <1>2, <1>3 DEF Results, ReturnedValue

\* Every step returns from one call or is not seen.
LEMMA StepReturns ==
    ASSUME MemoryInv, WrittenOK, ReadInv, [Next]_vars
    PROVE  \/ Results' = Results
           \/ \E f \in Frame :
                /\ Results[f] = <<>>
                /\ \A i \in DOMAIN CallsMade(f) : Results[CallsMade(f)[i]] # <<>>
                /\ Results' = [Results EXCEPT ![f] =
                     <<f>> \o B!FlattenSeq([i \in DOMAIN CallsMade(f) |-> Results[CallsMade(f)[i]]])]
  <1>1. ASSUME NEW c \in Frame, pc'[c] = "done" <=> pc[c] = "done"
        PROVE  ReturnedValue(c)' = ReturnedValue(c)
    <2>1. CASE pc[c] = "done"
      <3>1. loc'[c] = loc[c] /\ ValueAt(loc[c])' = ValueAt(loc[c])
        BY <2>1, ValueKept DEF ReadInv, Finished
      <3> QED
        BY <1>1, <2>1, <3>1 DEF ReturnedValue
    <2>2. CASE pc[c] # "done"
      BY <1>1, <2>2 DEF ReturnedValue
    <2> QED
      BY <2>1, <2>2
  <1>2. CASE \A c \in Frame : pc'[c] = "done" <=> pc[c] = "done"
    <2>1. \A c \in Frame : ReturnedValue(c)' = ReturnedValue(c)
      BY <1>1, <1>2
    <2> QED
      BY <2>1 DEF Results
  <1>3. ASSUME NEW f \in Frame, pc[f] = "return", pc'[f] = "done",
               \A c \in Frame \ {f} : pc'[c] = "done" <=> pc[c] = "done"
        PROVE  /\ Results[f] = <<>>
               /\ \A i \in DOMAIN CallsMade(f) : Results[CallsMade(f)[i]] # <<>>
               /\ Results' = [Results EXCEPT ![f] =
                    <<f>> \o B!FlattenSeq([i \in DOMAIN CallsMade(f) |-> Results[CallsMade(f)[i]]])]
    <2>1. Results[f] = <<>>
      BY <1>3 DEF Results, ReturnedValue
    <2>2. \A i \in DOMAIN CallsMade(f) : /\ Results[CallsMade(f)[i]] # <<>>
                                         /\ Results[CallsMade(f)[i]] = ValueAt(loc[CallsMade(f)[i]])
      BY <1>3, CallsReturned
    <2>3. [i \in DOMAIN CallsMade(f) |-> Results[CallsMade(f)[i]]]
            = [i \in DOMAIN CallsMade(f) |-> ValueAt(loc[CallsMade(f)[i]])]
      BY <2>2
    <2>4. ValueAt(loc[f])
            = <<f>> \o B!FlattenSeq([i \in DOMAIN CallsMade(f) |-> Results[CallsMade(f)[i]]])
      BY <1>3, <2>3, ReturnedBuilt DEF Finished
    <2>5. ReturnedValue(f)' = ValueAt(loc[f])
      <3>1. ValueAt(loc[f])' = ValueAt(loc[f])
        BY <1>3, ValueKept DEF ReadInv, Finished
      <3> QED
        BY <1>3, <3>1 DEF ReturnedValue
    <2>6. \A c \in Frame \ {f} : ReturnedValue(c)' = ReturnedValue(c)
      BY <1>1, <1>3
    <2>7. Results' = [Results EXCEPT ![f] = ValueAt(loc[f])]
      BY <2>5, <2>6 DEF Results
    <2> QED
      BY <2>1, <2>2, <2>4, <2>7
  <1> QED
    BY <1>2, <1>3, StepsMove DEF MemoryInv

(* For readers that go on behind the target of each pointer, the parallel program
   implements the sequential one: a call returns, after the calls it makes, the
   value of the sequential call, whoever executed which part of it, and what is
   written later does not change it (ParAlloc.hs, SyncE). *)
THEOREM ParImplementsTreeBuild == Spec => ImplementsTreeBuild
  <1>1. Init => B!Init
    BY DEF Init, B!Init, ReturnedValue
  <1>2. MemoryInv /\ WrittenOK /\ ReadInv /\ [Next]_vars
          => [B!Next]_[f \in Frame |-> ReturnedValue(f)]
    <2> SUFFICES ASSUME MemoryInv, WrittenOK, ReadInv, [Next]_vars
                 PROVE  [B!Next]_[f \in Frame |-> ReturnedValue(f)]
      OBVIOUS
    <2>1. CASE Results' = Results
      BY <2>1 DEF Results
    <2>2. ASSUME NEW f \in Frame,
                 Results[f] = <<>>,
                 \A i \in DOMAIN CallsMade(f) : Results[CallsMade(f)[i]] # <<>>,
                 Results' = [Results EXCEPT ![f] =
                   <<f>> \o B!FlattenSeq([i \in DOMAIN CallsMade(f) |-> Results[CallsMade(f)[i]]])]
          PROVE  B!Return(f)
      BY <2>2 DEF B!Return, B!Returned, Results
    <2> QED
      BY <2>1, <2>2, StepReturns DEF B!Next
  <1> QED
    BY <1>1, <1>2, ParReadInv, PTL DEF Spec, B!Spec, ImplementsTreeBuild

=============================================================================
