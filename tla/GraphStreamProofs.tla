-------------------------- MODULE GraphStreamProofs --------------------------
(***************************************************************************)
(* Theorems about what one execution of a graph publishes while it streams *)
(* and when it ends, for every set of calls, tools, texts and scenes and   *)
(* every bound: the identities of messages, the blocks of the protocol,    *)
(* the interrupts and the final state, and what SDK clients are told.      *)
(***************************************************************************)
EXTENDS GraphStream, FiniteSetTheorems, SequenceTheorems, WellFoundedInduction, TLAPS

-----------------------------------------------------------------------------
(* Lists, and what comes to be at their end.                               *)

IsList(l) == \E S : l \in Seq(S)

\* m goes on where l ends.
Grows(l, m) ==
  /\ IsList(m) /\ Len(l) <= Len(m)
  /\ \A n \in 1 .. Len(l) : m[n] = l[n]

\* The numbers of what m has more than l.
New(l, m) == Len(l) + 1 .. Len(m)

LEMMA ListIs ==
  ASSUME NEW l, IsList(l)
  PROVE  Len(l) \in Nat /\ DOMAIN l = 1 .. Len(l)
BY DEF IsList

LEMMA ListEmpty == IsList(<<>>) /\ Len(<<>>) = 0 /\ DOMAIN <<>> = {}
<1>1. <<>> \in Seq({})
  OBVIOUS
<1> QED  BY <1>1 DEF IsList

LEMMA ListAppend ==
  ASSUME NEW l, IsList(l), NEW e
  PROVE  /\ IsList(Append(l, e)) /\ Len(Append(l, e)) = Len(l) + 1 /\ Grows(l, Append(l, e))
         /\ Append(l, e)[Len(l) + 1] = e /\ New(l, Append(l, e)) = {Len(l) + 1}
         /\ DOMAIN Append(l, e) = 1 .. Len(l) + 1
<1>1. PICK S : l \in Seq(S)
  BY DEF IsList
<1>2. PICK R : R = S \cup {e}
  OBVIOUS
<1>3. l \in Seq(R) /\ e \in R
  <2>1. S \subseteq R /\ e \in R
    BY <1>2
  <2> QED  BY <1>1, <2>1
<1>4. Append(l, e) \in Seq(R)
  BY <1>3
<1>5. /\ Len(Append(l, e)) = Len(l) + 1 /\ Append(l, e)[Len(l) + 1] = e /\ Len(l) \in Nat
      /\ \A n \in 1 .. Len(l) : Append(l, e)[n] = l[n]
      /\ DOMAIN Append(l, e) = 1 .. Len(l) + 1
  BY <1>3
<1>6. Len(l) + 1 .. Len(l) + 1 = {Len(l) + 1}
  BY <1>5
<1>7. IsList(Append(l, e))
  BY <1>4 DEF IsList
<1> HIDE DEF IsList
<1> QED  BY <1>5, <1>6, <1>7 DEF Grows, New

LEMMA ListConcat ==
  ASSUME NEW l, IsList(l), NEW m, IsList(m)
  PROVE  /\ IsList(l \o m) /\ Len(l \o m) = Len(l) + Len(m) /\ Grows(l, l \o m)
         /\ \A i \in 1 .. Len(m) : (l \o m)[Len(l) + i] = m[i]
         /\ \A n \in New(l, l \o m) : n - Len(l) \in 1 .. Len(m) /\ (l \o m)[n] = m[n - Len(l)]
<1>1. PICK S : l \in Seq(S)
  BY DEF IsList
<1>2. PICK T : m \in Seq(T)
  BY DEF IsList
<1>3. PICK R : R = S \cup T
  OBVIOUS
<1>4. l \in Seq(R) /\ m \in Seq(R)
  <2>1. S \subseteq R /\ T \subseteq R
    BY <1>3
  <2> QED  BY <1>1, <1>2, <2>1
<1>5. l \o m \in Seq(R)
  BY <1>4
<1>6. IsList(l \o m)
  BY <1>5 DEF IsList
<1>7. /\ Len(l \o m) = Len(l) + Len(m) /\ Len(l) \in Nat /\ Len(m) \in Nat
      /\ \A n \in 1 .. Len(l) + Len(m) : (l \o m)[n] = IF n <= Len(l) THEN l[n] ELSE m[n - Len(l)]
  BY <1>4
<1>8. \A n \in 1 .. Len(l) : (l \o m)[n] = l[n]
  BY <1>7
<1>9. ASSUME NEW n \in Len(l) + 1 .. Len(l) + Len(m)
      PROVE  n - Len(l) \in 1 .. Len(m) /\ (l \o m)[n] = m[n - Len(l)]
  BY <1>7
<1>10. ASSUME NEW i \in 1 .. Len(m) PROVE (l \o m)[Len(l) + i] = m[i]
  <2>1. Len(l) + i \in 1 .. Len(l) + Len(m) /\ ~(Len(l) + i <= Len(l)) /\ Len(l) + i - Len(l) = i
    BY <1>7
  <2> QED  BY <1>7, <2>1
<1> QED  BY <1>6, <1>7, <1>8, <1>9, <1>10 DEF Grows, New

LEMMA ListPut ==
  ASSUME NEW l, IsList(l), NEW i \in DOMAIN l, NEW e
  PROVE  LET m == [l EXCEPT ![i] = e] IN
         /\ IsList(m) /\ Len(m) = Len(l) /\ DOMAIN m = DOMAIN l /\ m[i] = e
         /\ \A n \in DOMAIN l : n # i => m[n] = l[n]
<1>1. PICK S : l \in Seq(S)
  BY DEF IsList
<1>2. PICK R : R = S \cup {e}
  OBVIOUS
<1>3. l \in Seq(R) /\ e \in R
  <2>1. S \subseteq R /\ e \in R
    BY <1>2
  <2> QED  BY <1>1, <2>1
<1> DEFINE m == [l EXCEPT ![i] = e]
<1>4. m \in Seq(R) /\ Len(m) = Len(l)
  BY <1>3
<1>5. IsList(m)
  BY <1>4 DEF IsList
<1>6. DOMAIN m = DOMAIN l /\ m[i] = e /\ \A n \in DOMAIN l : n # i => m[n] = l[n]
  OBVIOUS
<1> QED  BY <1>4, <1>5, <1>6

LEMMA GrowsTrans ==
  ASSUME NEW l, NEW m, NEW k, IsList(l), Grows(l, m), Grows(m, k)
  PROVE  /\ Grows(l, k)
         /\ \A n \in New(l, k) : n \in New(l, m) \/ n \in New(m, k)
         /\ \A n \in New(l, m) : k[n] = m[n]
<1>1. Len(l) \in Nat /\ Len(m) \in Nat /\ Len(k) \in Nat
  BY ListIs DEF Grows
<1>2. Len(l) <= Len(m) /\ Len(m) <= Len(k)
  BY DEF Grows
<1>3. ASSUME NEW n \in 1 .. Len(l) PROVE k[n] = l[n]
  <2>1. n \in 1 .. Len(m)
    BY <1>1, <1>2
  <2> QED  BY <2>1 DEF Grows
<1>4. \A n \in Len(l) + 1 .. Len(k) : n \in Len(l) + 1 .. Len(m) \/ n \in Len(m) + 1 .. Len(k)
  BY <1>1
<1>5. \A n \in Len(l) + 1 .. Len(m) : n \in 1 .. Len(m)
  BY <1>1
<1>6. Grows(l, k)
  BY <1>1, <1>2, <1>3 DEF Grows
<1> QED  BY <1>4, <1>5, <1>6 DEF Grows, New

LEMMA GrowsSame == ASSUME NEW l, IsList(l) PROVE Grows(l, l) /\ New(l, l) = {}
<1>1. Len(l) \in Nat
  BY ListIs
<1> QED  BY <1>1 DEF Grows, New

LEMMA GrowsOver ==
  ASSUME NEW l, IsList(l), NEW m, Grows(l, m)
  PROVE  /\ IsList(m) /\ DOMAIN l \subseteq DOMAIN m
         /\ \A n \in DOMAIN m : n \in DOMAIN l \/ n \in New(l, m)
         /\ \A n \in DOMAIN l : m[n] = l[n] /\ n \notin New(l, m)
         /\ New(l, m) \subseteq DOMAIN m
<1>1. IsList(m)
  BY DEF Grows
<1>2. Len(l) \in Nat /\ Len(m) \in Nat /\ Len(l) <= Len(m) /\ DOMAIN l = 1 .. Len(l) /\ DOMAIN m = 1 .. Len(m)
  BY <1>1, ListIs DEF Grows
<1>3. /\ 1 .. Len(l) \subseteq 1 .. Len(m)
      /\ \A n \in 1 .. Len(m) : n \in 1 .. Len(l) \/ n \in Len(l) + 1 .. Len(m)
      /\ \A n \in 1 .. Len(l) : n \notin Len(l) + 1 .. Len(m)
      /\ Len(l) + 1 .. Len(m) \subseteq 1 .. Len(m)
  BY <1>2
<1> QED  BY <1>1, <1>2, <1>3 DEF Grows, New

-----------------------------------------------------------------------------
(* Recursion along a list: what is true of no element and of one more.     *)

\* A set of numbers has a least one: what induction along a list rests on.
LEMMA LeastOf ==
  ASSUME NEW T \in SUBSET Nat, T # {}
  PROVE  \E x \in T : \A y \in T : x <= y
<1> DEFINE R == OpToRel(<, Nat)
<1>1. IsWellFoundedOn(R, Nat)
  BY NatLessThanWellFounded
<1>2. \E x \in T : \A y \in T : <<y, x>> \notin R
  <2> HIDE DEF R
  <2> QED  BY <1>1, WFMin
<1>3. \A x, y \in Nat : y < x => <<y, x>> \in R
  BY DEF R, OpToRel
<1> HIDE DEF R
<1>4. PICK x \in T : \A y \in T : <<y, x>> \notin R
  BY <1>2
<1>5. ASSUME NEW y \in T PROVE x <= y
  <2>1. x \in Nat /\ y \in Nat
    OBVIOUS
  <2>2. ~ (y < x)
    BY <1>3, <1>4, <2>1
  <2> QED  BY <2>1, <2>2
<1> QED  BY <1>4, <1>5

\* What holds of no elements, and of one more, holds of all: T are the counterexamples.
LEMMA NoCounterexample ==
  ASSUME NEW n \in Nat, NEW T \in SUBSET (0 .. n),
         0 \notin T,
         \A k \in 1 .. n : k - 1 \notin T => k \notin T
  PROVE  T = {}
<1> SUFFICES ASSUME T # {} PROVE FALSE
  OBVIOUS
<1>1. T \in SUBSET Nat
  OBVIOUS
<1>2. PICK k \in T : \A y \in T : k <= y
  BY <1>1, LeastOf
<1>3. k \in 1 .. n
  <2>1. k \in 0 .. n /\ k # 0
    BY <1>2
  <2> QED  BY <2>1
<1>4. k - 1 \notin T
  <2>1. ~ (k <= k - 1)
    BY <1>3
  <2> QED  BY <1>2, <2>1
<1> QED  BY <1>2, <1>3, <1>4

\* What the operators that go along a list do with its k-th element.
StepOf(kind, v, k, par) ==
  IF kind = "below" THEN IF k - 1 \in v.open.blocks THEN FinishBlock(v, k - 1) ELSE v
  ELSE IF kind = "handle" THEN Handle(v, par[k])
  ELSE IF kind = "complete" THEN Completed(v, par.from + k, graph.said[par.cs[par.skip + k]])
  ELSE IF kind = "list" THEN Transcript(v, par.cs[k], par.from + k - 1)
  ELSE IF kind = "assemble" THEN
    IF ~(par.log[k].event = "tuple" /\ par.log[k].id = par.id) THEN v
    ELSE IF par.log[k].whole THEN par.log[k].content
    ELSE Add(v, par.log[k].content)
  ELSE Close(v, par[k])

\* g are the values on the way: none, one, ... and k of the elements handled.
Runs(g, kind, start, k, par) ==
  /\ g = [n \in 0 .. k |-> g[n]]
  /\ g[0] = start
  /\ \A n \in 1 .. k : g[n] = StepOf(kind, g[n - 1], n, par)

LEMMA RunsOneMore ==
  ASSUME NEW kind, NEW start, NEW par, NEW k \in Nat \ {0}, NEW f, Runs(f, kind, start, k - 1, par)
  PROVE  \E g : Runs(g, kind, start, k, par)
<1> DEFINE next == StepOf(kind, f[k - 1], k, par)
           g    == [n \in 0 .. k |-> IF n = k THEN next ELSE f[n]]
<1>1. k \in 0 .. k /\ k - 1 \in 0 .. k /\ k - 1 # k /\ 0 \in 0 .. k /\ 0 # k
  OBVIOUS
<1> HIDE DEF next
<1>2. g = [n \in 0 .. k |-> g[n]]
  OBVIOUS
<1>3. /\ g[k] = next
      /\ \A n \in 0 .. k : n # k => g[n] = f[n]
  BY <1>1
<1> HIDE DEF g
<1>4. ASSUME NEW n \in 1 .. k PROVE g[n] = StepOf(kind, g[n - 1], n, par)
  <2>1. n - 1 \in 0 .. k /\ n - 1 # k /\ n \in 0 .. k
    OBVIOUS
  <2>2. g[n - 1] = f[n - 1]
    BY <1>3, <2>1
  <2>3. CASE n = k
    BY <1>3, <2>2, <2>3 DEF next
  <2>4. CASE n # k
    <3>1. n \in 1 .. k - 1
      BY <2>4
    <3>2. g[n] = f[n]
      BY <1>3, <2>1, <2>4
    <3> QED  BY <2>2, <3>1, <3>2 DEF Runs
  <2> QED  BY <2>3, <2>4
<1>5. g[0] = start
  BY <1>1, <1>3 DEF Runs
<1> QED  BY <1>2, <1>4, <1>5 DEF Runs

Unrun(kind, start, n, par) == {k \in 0 .. n : ~ \E g : Runs(g, kind, start, k, par)}

LEMMA RunsExist ==
  ASSUME NEW kind, NEW start, NEW par, NEW n \in Nat
  PROVE  \E g : Runs(g, kind, start, n, par)
<1>1. Unrun(kind, start, n, par) \in SUBSET (0 .. n)
  BY DEF Unrun
<1>2. 0 \notin Unrun(kind, start, n, par)
  <2> DEFINE g == [k \in 0 .. 0 |-> start]
  <2>1. g = [k \in 0 .. 0 |-> g[k]] /\ g[0] = start
    OBVIOUS
  <2> HIDE DEF g
  <2>2. Runs(g, kind, start, 0, par)
    BY <2>1 DEF Runs
  <2> QED  BY <2>2 DEF Unrun
<1>3. ASSUME NEW k \in 1 .. n, k - 1 \notin Unrun(kind, start, n, par)
      PROVE  k \notin Unrun(kind, start, n, par)
  <2>1. k \in Nat \ {0} /\ k - 1 \in 0 .. n
    OBVIOUS
  <2>2. PICK g : Runs(g, kind, start, k - 1, par)
    BY <1>3, <2>1 DEF Unrun
  <2> QED  BY <2>1, <2>2, RunsOneMore DEF Unrun
<1>4. Unrun(kind, start, n, par) = {}
  BY <1>1, <1>2, <1>3, NoCounterexample
<1>5. n \in 0 .. n
  OBVIOUS
<1> QED  BY <1>4, <1>5 DEF Unrun

-----------------------------------------------------------------------------
(* The operators that go along a list, by their values on the way.         *)

Below(f, w, i) ==
  f = [j \in 0..i |->
        IF j = 0 THEN w
        ELSE IF j - 1 \in f[j - 1].open.blocks THEN FinishBlock(f[j - 1], j - 1)
        ELSE f[j - 1]]

LEMMA FinishBeforeRuns ==
  ASSUME NEW w, NEW i \in Nat
  PROVE  \E g : Runs(g, "below", w, i, w) /\ FinishBefore(w, i) = g[i]
<1>1. PICK g : Runs(g, "below", w, i, w)
  BY RunsExist
<1>2. \A j \in 0 .. i : j = 0 \/ j \in 1 .. i
  OBVIOUS
<1>3. \A j \in 0 .. i :
        g[j] = IF j = 0 THEN w
               ELSE IF j - 1 \in g[j - 1].open.blocks THEN FinishBlock(g[j - 1], j - 1)
               ELSE g[j - 1]
  BY <1>1, <1>2 DEF Runs, StepOf
<1>4. g = [j \in 0 .. i |-> g[j]]
  BY <1>1 DEF Runs
<1>5. Below(g, w, i)
  BY <1>3, <1>4 DEF Below
<1>6. PICK f : f = CHOOSE h : Below(h, w, i)
  OBVIOUS
<1>7. Below(f, w, i)
  BY <1>5, <1>6
<1>8. FinishBefore(w, i) = f[i]
  BY <1>6 DEF FinishBefore, Below
<1>9. \A j \in 0 .. i :
        f[j] = IF j = 0 THEN w
               ELSE IF j - 1 \in f[j - 1].open.blocks THEN FinishBlock(f[j - 1], j - 1)
               ELSE f[j - 1]
  BY <1>7 DEF Below
<1>10. f = [j \in 0 .. i |-> f[j]]
  BY <1>7 DEF Below
<1>11. Runs(f, "below", w, i, w)
  <2>1. 0 \in 0 .. i /\ \A j \in 1 .. i : j \in 0 .. i /\ j # 0
    OBVIOUS
  <2> QED  BY <1>9, <1>10, <2>1 DEF Runs, StepOf
<1> QED  BY <1>8, <1>11

-----------------------------------------------------------------------------
(* The blocks of one message in a log that goes on.                        *)

Speaks(e, id) == e.event \in ProtocolEvents /\ e.id = id

LEMMA OpenAtGrows ==
  ASSUME NEW l, IsList(l), NEW m, Grows(l, m), NEW id, NEW i, NEW n \in 0 .. Len(l)
  PROVE  OpenAt(m, id, i, n) <=> OpenAt(l, id, i, n)
<1>1. Len(l) \in Nat
  BY ListIs
<1>2. \A k \in 1 .. n : m[k] = l[k]
  BY <1>1 DEF Grows
<1>3. \A k \in 1 .. n : Mark(m, k, id, i) <=> Mark(l, k, id, i)
  BY <1>2 DEF Mark
<1>4. \A k \in 1 .. n : \A j \in (k + 1) .. n : j \in 1 .. n
  BY <1>1
<1> QED  BY <1>2, <1>3, <1>4 DEF OpenAt

\* Entries about other things change nothing.
LEMMA OpenAtQuiet ==
  ASSUME NEW l, IsList(l), NEW m, Grows(l, m), NEW id, NEW i,
         \A n \in New(l, m) : ~Speaks(m[n], id)
  PROVE  OpenAt(m, id, i, Len(m)) <=> OpenAt(l, id, i, Len(l))
<1>1. Len(l) \in Nat /\ Len(m) \in Nat /\ Len(l) <= Len(m)
  BY ListIs DEF Grows
<1>2. \A k \in New(l, m) : ~Mark(m, k, id, i)
  BY DEF Speaks, Mark, ProtocolEvents
<1>3. \A k \in 1 .. Len(m) : k \in 1 .. Len(l) \/ k \in New(l, m)
  BY <1>1 DEF New
<1>4. OpenAt(m, id, i, Len(m)) <=> OpenAt(m, id, i, Len(l))
  <2>1. ASSUME OpenAt(m, id, i, Len(m)) PROVE OpenAt(m, id, i, Len(l))
    <3>1. PICK k \in 1 .. Len(m) :
            /\ Mark(m, k, id, i) /\ m[k].event = "block-start"
            /\ \A j \in (k + 1) .. Len(m) : ~Mark(m, j, id, i)
      BY <2>1 DEF OpenAt
    <3>2. k \in 1 .. Len(l)
      BY <1>2, <1>3, <3>1
    <3>3. \A j \in (k + 1) .. Len(l) : j \in (k + 1) .. Len(m)
      BY <1>1
    <3> QED  BY <3>1, <3>2, <3>3 DEF OpenAt
  <2>2. ASSUME OpenAt(m, id, i, Len(l)) PROVE OpenAt(m, id, i, Len(m))
    <3>1. PICK k \in 1 .. Len(l) :
            /\ Mark(m, k, id, i) /\ m[k].event = "block-start"
            /\ \A j \in (k + 1) .. Len(l) : ~Mark(m, j, id, i)
      BY <2>2 DEF OpenAt
    <3>2. k \in 1 .. Len(m)
      BY <1>1
    <3>3. \A j \in (k + 1) .. Len(m) : j \in (k + 1) .. Len(l) \/ j \in New(l, m)
      BY <1>1 DEF New
    <3> QED  BY <1>2, <3>1, <3>2, <3>3 DEF OpenAt
  <2> QED  BY <2>1, <2>2
<1> QED  BY <1>1, <1>4, OpenAtGrows

\* One more entry: a mark decides, anything else leaves it.
LEMMA OpenAtNext ==
  ASSUME NEW l, IsList(l), NEW e, NEW id, NEW i
  PROVE  LET m == Append(l, e) IN
         OpenAt(m, id, i, Len(m)) <=>
           IF Mark(m, Len(m), id, i) THEN e.event = "block-start" ELSE OpenAt(l, id, i, Len(l))
<1> DEFINE m == Append(l, e)
<1>1. Len(l) \in Nat
  BY ListIs
<1>2. IsList(m) /\ Len(m) = Len(l) + 1 /\ m[Len(m)] = e /\ Grows(l, m)
  BY ListAppend
<1> HIDE DEF m
<1>3. CASE Mark(m, Len(m), id, i)
  <2>1. ASSUME e.event = "block-start" PROVE OpenAt(m, id, i, Len(m))
    <3>1. Len(m) \in 1 .. Len(m) /\ \A j \in (Len(m) + 1) .. Len(m) : FALSE
      BY <1>1, <1>2
    <3> QED  BY <1>2, <1>3, <2>1, <3>1 DEF OpenAt
  <2>2. ASSUME OpenAt(m, id, i, Len(m)) PROVE e.event = "block-start"
    <3>1. PICK k \in 1 .. Len(m) :
            /\ Mark(m, k, id, i) /\ m[k].event = "block-start"
            /\ \A j \in (k + 1) .. Len(m) : ~Mark(m, j, id, i)
      BY <2>2 DEF OpenAt
    <3>2. k = Len(m) \/ Len(m) \in (k + 1) .. Len(m)
      BY <1>1, <1>2
    <3> QED  BY <1>2, <1>3, <3>1, <3>2
  <2> QED  BY <1>3, <2>1, <2>2 DEF m
<1>4. CASE ~Mark(m, Len(m), id, i)
  <2>1. OpenAt(m, id, i, Len(m)) => OpenAt(m, id, i, Len(l))
    <3>1. SUFFICES ASSUME OpenAt(m, id, i, Len(m)) PROVE OpenAt(m, id, i, Len(l))
      OBVIOUS
    <3>2. PICK k \in 1 .. Len(m) :
            /\ Mark(m, k, id, i) /\ m[k].event = "block-start"
            /\ \A j \in (k + 1) .. Len(m) : ~Mark(m, j, id, i)
      BY <3>1 DEF OpenAt
    <3>3. k # Len(m)
      BY <1>4, <3>2
    <3>4. k \in 1 .. Len(l) /\ \A j \in (k + 1) .. Len(l) : j \in (k + 1) .. Len(m)
      BY <1>1, <1>2, <3>3
    <3> QED  BY <3>2, <3>4 DEF OpenAt
  <2>2. OpenAt(m, id, i, Len(l)) => OpenAt(m, id, i, Len(m))
    <3>1. SUFFICES ASSUME OpenAt(m, id, i, Len(l)) PROVE OpenAt(m, id, i, Len(m))
      OBVIOUS
    <3>2. PICK k \in 1 .. Len(l) :
            /\ Mark(m, k, id, i) /\ m[k].event = "block-start"
            /\ \A j \in (k + 1) .. Len(l) : ~Mark(m, j, id, i)
      BY <3>1 DEF OpenAt
    <3>3. k \in 1 .. Len(m) /\ \A j \in (k + 1) .. Len(m) : j \in (k + 1) .. Len(l) \/ j = Len(m)
      BY <1>1, <1>2
    <3> QED  BY <1>4, <3>2, <3>3 DEF OpenAt
  <2>3. OpenAt(m, id, i, Len(l)) <=> OpenAt(l, id, i, Len(l))
    BY <1>1, <1>2, OpenAtGrows
  <2> QED  BY <1>4, <2>1, <2>2, <2>3 DEF m
<1> QED  BY <1>3, <1>4

\* What is said of a message so far stays where it was.
LEMMA ToldQuiet ==
  ASSUME NEW l, IsList(l), NEW m, Grows(l, m), NEW id, NEW events \in SUBSET ProtocolEvents,
         \A n \in New(l, m) : ~Speaks(m[n], id)
  PROVE  Told(m, id, events) = Told(l, id, events)
<1>1. /\ DOMAIN l \subseteq DOMAIN m
      /\ \A n \in DOMAIN m : n \in DOMAIN l \/ n \in New(l, m)
      /\ \A n \in DOMAIN l : m[n] = l[n] /\ n \notin New(l, m)
  BY GrowsOver
<1>2. ASSUME NEW n \in DOMAIN m, m[n].event \in events, m[n].id = id
      PROVE  n \in DOMAIN l /\ l[n].event \in events /\ l[n].id = id
  <2>1. Speaks(m[n], id)
    BY <1>2 DEF Speaks
  <2>2. n \in DOMAIN l
    BY <1>1, <2>1
  <2> QED  BY <1>1, <1>2, <2>2
<1>3. ASSUME NEW n \in DOMAIN l, l[n].event \in events, l[n].id = id
      PROVE  n \in DOMAIN m /\ m[n].event \in events /\ m[n].id = id
  BY <1>1, <1>3
<1> QED  BY <1>2, <1>3 DEF Told

LEMMA NestedQuiet ==
  ASSUME NEW l, IsList(l), NEW m, Grows(l, m), NEW id, Nested(l, id),
         \A n \in New(l, m) : ~Speaks(m[n], id)
  PROVE  Nested(m, id)
<1>1. Told(m, id, ProtocolEvents) = Told(l, id, ProtocolEvents)
  BY ToldQuiet
<1>2. DOMAIN l = 1 .. Len(l) /\ Len(l) \in Nat
  BY ListIs
<1>3. ASSUME NEW n \in Told(l, id, ProtocolEvents)
      PROVE  /\ m[n] = l[n]
             /\ \A i : OpenAt(m, id, i, n - 1) <=> OpenAt(l, id, i, n - 1)
             /\ \A i : OpenAt(m, id, i, n) <=> OpenAt(l, id, i, n)
  <2>1. n \in 1 .. Len(l) /\ n - 1 \in 0 .. Len(l) /\ n \in 0 .. Len(l)
    BY <1>2 DEF Told
  <2> QED  BY <2>1, OpenAtGrows DEF Grows
<1> QED  BY <1>1, <1>3 DEF Nested

\* The next entry about a message fits what was told before.
LEMMA NestedNext ==
  ASSUME NEW l, IsList(l), NEW e, NEW id, Speaks(e, id), Nested(l, id),
         Told(l, id, {"message-finish"}) = {},
         e.event = "message-start" <=> Told(l, id, ProtocolEvents) = {},
         e.event = "block-start" => ~OpenAt(l, id, e.index, Len(l)),
         e.event \in {"block-delta", "block-finish"} => OpenAt(l, id, e.index, Len(l)),
         e.event = "message-finish" => \A i \in {0, 1} : ~OpenAt(l, id, i, Len(l))
  PROVE  Nested(Append(l, e), id)
<1> DEFINE m == Append(l, e)
           L == Told(l, id, ProtocolEvents)
           M == Told(m, id, ProtocolEvents)
           N == Len(l) + 1
<1>1. Len(l) \in Nat /\ DOMAIN l = 1 .. Len(l)
  BY ListIs
<1>2. IsList(m) /\ Len(m) = N /\ m[N] = e /\ Grows(l, m) /\ DOMAIN m = 1 .. N
  BY ListAppend
<1>3. \A i : OpenAt(m, id, i, Len(m)) <=> IF Mark(m, Len(m), id, i) THEN e.event = "block-start" ELSE OpenAt(l, id, i, Len(l))
  BY OpenAtNext
<1> HIDE DEF m
<1>4. /\ \A n \in 1 .. N : n \in 1 .. Len(l) \/ n = N
      /\ \A n \in 1 .. Len(l) : n \in 1 .. N /\ n < N /\ m[n] = l[n]
      /\ N \in 1 .. N
  BY <1>1, <1>2 DEF Grows
<1>5. M = L \cup {N}
  <2>1. ASSUME NEW n \in M PROVE n \in L \/ n = N
    BY <1>1, <1>2, <1>4 DEF Told
  <2>2. ASSUME NEW n \in L PROVE n \in M
    BY <1>1, <1>2, <1>4 DEF Told
  <2>3. N \in M
    BY <1>2, <1>4 DEF Told, Speaks
  <2> QED  BY <2>1, <2>2, <2>3
<1>6. \A n \in L : n \in 1 .. Len(l) /\ n < N /\ m[n] = l[n]
  BY <1>1, <1>4 DEF Told
<1>7. \A n \in L : l[n].event # "message-finish"
  BY DEF Told
<1>8. ASSUME NEW n \in L
      PROVE  /\ m[n].event = "message-start" <=> First(n, M)
             /\ m[n].event = "block-start" => ~OpenAt(m, id, m[n].index, n - 1)
             /\ m[n].event \in {"block-delta", "block-finish"} => OpenAt(m, id, m[n].index, n - 1)
             /\ m[n].event # "message-finish"
  <2>1. First(n, M) <=> First(n, L)
    <3>1. n <= N
      BY <1>1, <1>6
    <3> QED  BY <1>5, <3>1 DEF First
  <2>2. n - 1 \in 0 .. Len(l)
    BY <1>1, <1>6
  <2>3. \A i : OpenAt(m, id, i, n - 1) <=> OpenAt(l, id, i, n - 1)
    BY <1>2, <2>2, OpenAtGrows
  <2>4. m[n] = l[n]
    BY <1>6
  <2> QED  BY <1>7, <2>1, <2>3, <2>4 DEF Nested
<1>9. /\ m[N].event = "message-start" <=> First(N, M)
      /\ m[N].event = "block-start" => ~OpenAt(m, id, m[N].index, N - 1)
      /\ m[N].event \in {"block-delta", "block-finish"} => OpenAt(m, id, m[N].index, N - 1)
      /\ m[N].event = "message-finish" => Final(N, M) /\ \A i \in {0, 1} : ~OpenAt(m, id, i, N)
  <2>1. First(N, M) <=> L = {}
    <3>1. \A n \in L : ~ (N <= n)
      BY <1>1, <1>6
    <3>2. N <= N
      BY <1>1
    <3> QED  BY <1>5, <3>1, <3>2 DEF First
  <2>2. Final(N, M)
    <3>1. \A n \in M : n <= N
      BY <1>1, <1>5, <1>6
    <3> QED  BY <3>1 DEF Final
  <2>3. N - 1 = Len(l) /\ Len(l) \in 0 .. Len(l)
    BY <1>1
  <2>4. \A i : OpenAt(m, id, i, N - 1) <=> OpenAt(l, id, i, Len(l))
    BY <1>2, <2>3, OpenAtGrows
  <2>5. e.event = "message-finish" => \A i : ~Mark(m, Len(m), id, i)
    BY <1>2 DEF Mark
  <2>6. m[N].event = "message-finish" => \A i \in {0, 1} : ~OpenAt(m, id, i, N)
    BY <1>2, <1>3, <2>5
  <2> QED  BY <1>2, <2>1, <2>2, <2>4, <2>6
<1>10. \A n \in M :
         /\ m[n].event = "message-start" <=> First(n, M)
         /\ m[n].event = "block-start" => ~OpenAt(m, id, m[n].index, n - 1)
         /\ m[n].event \in {"block-delta", "block-finish"} => OpenAt(m, id, m[n].index, n - 1)
         /\ m[n].event = "message-finish" => Final(n, M) /\ \A i \in {0, 1} : ~OpenAt(m, id, i, n)
  BY <1>5, <1>8, <1>9
<1>11. Nested(m, id)
  BY <1>10 DEF Nested
<1> QED  BY <1>11 DEF m

-----------------------------------------------------------------------------
(* A message in the log: not heard of, begun with some blocks open, ended. *)

Unheard(l, id) == Told(l, id, ProtocolEvents) = {}

Begun(l, id, B) ==
  /\ Nested(l, id)
  /\ ~Unheard(l, id)
  /\ Told(l, id, {"message-finish"}) = {}
  /\ \A i \in {0, 1} : OpenAt(l, id, i, Len(l)) <=> i \in B

Ended(l, id) == Nested(l, id) /\ Told(l, id, {"message-finish"}) # {}

\* Entries that are not about a message leave it as it is.
LEMMA Quiet ==
  ASSUME NEW l, IsList(l), NEW m, Grows(l, m), NEW id,
         \A n \in New(l, m) : ~Speaks(m[n], id)
  PROVE  /\ Unheard(l, id) => Unheard(m, id)
         /\ \A B : Begun(l, id, B) => Begun(m, id, B)
         /\ Ended(l, id) => Ended(m, id)
<1>1. /\ Told(m, id, ProtocolEvents) = Told(l, id, ProtocolEvents)
      /\ Told(m, id, {"message-finish"}) = Told(l, id, {"message-finish"})
  <2>1. {"message-finish"} \in SUBSET ProtocolEvents /\ ProtocolEvents \in SUBSET ProtocolEvents
    BY DEF ProtocolEvents
  <2> QED  BY <2>1, ToldQuiet
<1>2. Nested(l, id) => Nested(m, id)
  BY NestedQuiet
<1>3. \A i : OpenAt(m, id, i, Len(m)) <=> OpenAt(l, id, i, Len(l))
  BY OpenAtQuiet
<1> QED  BY <1>1, <1>2, <1>3 DEF Unheard, Begun, Ended

LEMMA ToldNext ==
  ASSUME NEW l, IsList(l), NEW e, NEW id, NEW events
  PROVE  /\ e.event \in events /\ e.id = id => Told(Append(l, e), id, events) # {}
         /\ ~(e.event \in events /\ e.id = id) => Told(Append(l, e), id, events) = Told(l, id, events)
<1> DEFINE m == Append(l, e)
<1>1. Len(l) \in Nat /\ DOMAIN l = 1 .. Len(l)
  BY ListIs
<1>2. m[Len(l) + 1] = e /\ Grows(l, m) /\ DOMAIN m = 1 .. Len(l) + 1
  BY ListAppend
<1> HIDE DEF m
<1>3. /\ \A n \in 1 .. Len(l) + 1 : n \in 1 .. Len(l) \/ n = Len(l) + 1
      /\ \A n \in 1 .. Len(l) : n \in 1 .. Len(l) + 1 /\ m[n] = l[n]
      /\ Len(l) + 1 \in 1 .. Len(l) + 1
  BY <1>1, <1>2 DEF Grows
<1>4. Told(m, id, events) =
           Told(l, id, events) \cup (IF e.event \in events /\ e.id = id THEN {Len(l) + 1} ELSE {})
  BY <1>1, <1>2, <1>3 DEF Told
<1> HIDE DEF Told
<1>5. /\ e.event \in events /\ e.id = id => Told(m, id, events) # {}
      /\ ~(e.event \in events /\ e.id = id) => Told(m, id, events) = Told(l, id, events)
  BY <1>4
<1> QED  BY <1>5 DEF m

LEMMA StartBegins ==
  ASSUME NEW l, IsList(l), NEW e, NEW id, e.event = "message-start", e.id = id, Unheard(l, id)
  PROVE  Begun(Append(l, e), id, {})
<1>1. Speaks(e, id)
  BY DEF Speaks, ProtocolEvents
<1>2. Told(l, id, {"message-finish"}) = {} /\ Told(l, id, {"block-start", "block-finish"}) = {}
  BY DEF Unheard, Told, ProtocolEvents
<1>3. Nested(l, id)
  BY DEF Unheard, Nested
<1>4. Nested(Append(l, e), id)
  BY <1>1, <1>2, <1>3, NestedNext DEF Unheard
<1>5. ~Unheard(Append(l, e), id) /\ Told(Append(l, e), id, {"message-finish"}) = {}
  <2>1. ~Unheard(Append(l, e), id)
    BY <1>1, ToldNext DEF Unheard, Speaks
  <2>2. Told(Append(l, e), id, {"message-finish"}) = Told(l, id, {"message-finish"})
    <3>1. ~(e.event \in {"message-finish"} /\ e.id = id)
      OBVIOUS
    <3> QED  BY <3>1, ToldNext
  <2> QED  BY <1>2, <2>1, <2>2
<1>6. \A i : ~OpenAt(l, id, i, Len(l))
  <2>1. Len(l) \in Nat /\ DOMAIN l = 1 .. Len(l)
    BY ListIs
  <2> QED  BY <1>2, <2>1 DEF OpenAt, Mark, Told
<1>7. \A i : ~Mark(Append(l, e), Len(Append(l, e)), id, i)
  <2>1. Append(l, e)[Len(Append(l, e))] = e
    BY ListAppend
  <2> QED  BY <2>1 DEF Mark
<1>8. \A i : ~OpenAt(Append(l, e), id, i, Len(Append(l, e)))
  BY <1>6, <1>7, OpenAtNext
<1> QED  BY <1>4, <1>5, <1>8 DEF Begun

\* The events of blocks, by the blocks that are open.
LEMMA BlockNext ==
  ASSUME NEW l, IsList(l), NEW e, NEW id, NEW B, Begun(l, id, B), e.id = id, e.index \in {0, 1},
         \/ e.event = "block-start" /\ e.index \notin B
         \/ e.event = "block-delta" /\ e.index \in B
         \/ e.event = "block-finish" /\ e.index \in B
  PROVE  Begun(Append(l, e), id, IF e.event = "block-start" THEN B \cup {e.index}
                                 ELSE IF e.event = "block-finish" THEN B \ {e.index} ELSE B)
<1> DEFINE m == Append(l, e)
<1>1. Speaks(e, id)
  BY DEF Speaks, ProtocolEvents
<1>2. \A i \in {0, 1} : OpenAt(l, id, i, Len(l)) <=> i \in B
  BY DEF Begun
<1>3. Nested(m, id)
  BY <1>1, <1>2, NestedNext DEF Begun, Unheard
<1>4. ~Unheard(m, id) /\ Told(m, id, {"message-finish"}) = {}
  <2>1. ~Unheard(m, id)
    BY <1>1, ToldNext DEF Unheard, Speaks
  <2>2. Told(m, id, {"message-finish"}) = Told(l, id, {"message-finish"})
    <3>1. ~(e.event \in {"message-finish"} /\ e.id = id)
      OBVIOUS
    <3> QED  BY <3>1, ToldNext
  <2> QED  BY <2>1, <2>2 DEF Begun
<1>5. \A i : Mark(m, Len(m), id, i) <=> e.event \in {"block-start", "block-finish"} /\ i = e.index
  <2>1. m[Len(m)] = e
    BY ListAppend
  <2> QED  BY <2>1 DEF Mark
<1>6. ASSUME NEW i \in {0, 1}
      PROVE  OpenAt(m, id, i, Len(m)) <=>
               IF e.event \in {"block-start", "block-finish"} /\ i = e.index THEN e.event = "block-start" ELSE i \in B
  BY <1>2, <1>5, OpenAtNext
<1> HIDE DEF m
<1>7. Begun(m, id, IF e.event = "block-start" THEN B \cup {e.index}
                   ELSE IF e.event = "block-finish" THEN B \ {e.index} ELSE B)
  BY <1>3, <1>4, <1>6 DEF Begun
<1> QED  BY <1>7 DEF m

LEMMA FinishEnds ==
  ASSUME NEW l, IsList(l), NEW e, NEW id, e.event = "message-finish", e.id = id, NEW B, Begun(l, id, B),
         B \cap {0, 1} = {}
  PROVE  Ended(Append(l, e), id)
<1>1. Speaks(e, id)
  BY DEF Speaks, ProtocolEvents
<1>2. \A i \in {0, 1} : ~OpenAt(l, id, i, Len(l))
  BY DEF Begun
<1>3. Nested(Append(l, e), id)
  BY <1>1, <1>2, NestedNext DEF Begun, Unheard
<1>4. Told(Append(l, e), id, {"message-finish"}) # {}
  <2>1. e.event \in {"message-finish"} /\ e.id = id
    OBVIOUS
  <2> QED  BY <2>1, ToldNext
<1> QED  BY <1>3, <1>4 DEF Ended

-----------------------------------------------------------------------------
(* The writer of a message's blocks.                                       *)

\* The message is begun and its open blocks are those the log has open.
Writer(w) ==
  /\ w = [open |-> w.open, log |-> w.log]
  /\ w.open = [id |-> w.open.id, of |-> w.open.of, role |-> w.open.role, blocks |-> w.open.blocks, last |-> w.open.last]
  /\ w.open.blocks \subseteq {0, 1}
  /\ IsList(w.log)
  /\ Begun(w.log, w.open.id, w.open.blocks)

BlockEvents == {"block-start", "block-delta", "block-finish"}

\* v goes on from w with entries about the blocks of the same message.
Writes(w, v) ==
  /\ v.open.id = w.open.id /\ v.open.of = w.open.of /\ v.open.role = w.open.role
  /\ Grows(w.log, v.log)
  /\ \A n \in New(w.log, v.log) :
       v.log[n].event \in BlockEvents /\ v.log[n].id = w.open.id /\ v.log[n].of = w.open.of

LEMMA WritesTrans ==
  ASSUME NEW w, NEW v, NEW u, Writer(w), Writes(w, v), Writes(v, u)
  PROVE  Writes(w, u)
<1>1. IsList(w.log) /\ Grows(w.log, v.log) /\ Grows(v.log, u.log)
  BY DEF Writer, Writes
<1>2. /\ Grows(w.log, u.log)
      /\ \A n \in New(w.log, u.log) : n \in New(w.log, v.log) \/ n \in New(v.log, u.log)
      /\ \A n \in New(w.log, v.log) : u.log[n] = v.log[n]
  BY <1>1, GrowsTrans
<1>3. ASSUME NEW n \in New(w.log, u.log)
      PROVE  u.log[n].event \in BlockEvents /\ u.log[n].id = w.open.id /\ u.log[n].of = w.open.of
  <2>1. CASE n \in New(w.log, v.log)
    BY <1>2, <2>1 DEF Writes
  <2>2. CASE n \in New(v.log, u.log)
    BY <2>2 DEF Writes
  <2> QED  BY <1>2, <2>1, <2>2
<1> QED  BY <1>2, <1>3 DEF Writes

LEMMA WritesSame == ASSUME NEW w, Writer(w) PROVE Writes(w, w)
BY GrowsSame DEF Writer, Writes

\* One more entry about a block.
LEMMA WritesNext ==
  ASSUME NEW w, Writer(w), NEW event \in BlockEvents, NEW i \in {0, 1}, NEW B \in SUBSET {0, 1}, NEW last,
         \/ event = "block-start" /\ i \notin w.open.blocks /\ B = w.open.blocks \cup {i}
         \/ event = "block-delta" /\ i \in w.open.blocks /\ B = w.open.blocks
         \/ event = "block-finish" /\ i \in w.open.blocks /\ B = w.open.blocks \ {i}
  PROVE  LET v == [open |-> [id |-> w.open.id, of |-> w.open.of, role |-> w.open.role, blocks |-> B, last |-> last],
                   log |-> Append(w.log, BlockEntry(event, w.open, i))]
         IN  Writer(v) /\ Writes(w, v)
<1> DEFINE e == BlockEntry(event, w.open, i)
           v == [open |-> [id |-> w.open.id, of |-> w.open.of, role |-> w.open.role, blocks |-> B, last |-> last],
                 log |-> Append(w.log, e)]
<1>1. e.event = event /\ e.id = w.open.id /\ e.of = w.open.of /\ e.index = i
  BY DEF BlockEntry
<1> HIDE DEF e
<1>2. IsList(w.log) /\ Begun(w.log, w.open.id, w.open.blocks)
  BY DEF Writer
<1>3. Begun(Append(w.log, e), w.open.id, B)
  <2>1. Begun(Append(w.log, e), w.open.id, IF e.event = "block-start" THEN w.open.blocks \cup {e.index}
                                 ELSE IF e.event = "block-finish" THEN w.open.blocks \ {e.index} ELSE w.open.blocks)
    BY <1>1, <1>2, BlockNext
  <2> QED  BY <1>1, <2>1
<1>4. /\ IsList(Append(w.log, e)) /\ Grows(w.log, Append(w.log, e))
      /\ Append(w.log, e)[Len(w.log) + 1] = e /\ New(w.log, Append(w.log, e)) = {Len(w.log) + 1}
  BY <1>2, ListAppend
<1>5. /\ v.open.id = w.open.id /\ v.open.of = w.open.of /\ v.open.role = w.open.role /\ v.open.blocks = B
      /\ v.log = Append(w.log, e) /\ v.open.last = last
      /\ v = [open |-> v.open, log |-> v.log]
      /\ v.open = [id |-> v.open.id, of |-> v.open.of, role |-> v.open.role, blocks |-> v.open.blocks, last |-> v.open.last]
  OBVIOUS
<1> HIDE DEF v
<1>6. Writer(v)
  BY <1>3, <1>4, <1>5 DEF Writer
<1>7. Writes(w, v)
  BY <1>1, <1>4, <1>5 DEF Writes
<1> QED  BY <1>6, <1>7 DEF v, e

\* What an operator of the writer does: v is a writer that goes on from w.
Advances(w, v) == Writer(v) /\ Writes(w, v)

LEMMA AdvancesTrans ==
  ASSUME NEW w, NEW v, NEW u, Writer(w), Advances(w, v), Advances(v, u)
  PROVE  Advances(w, u)
BY WritesTrans DEF Advances

LEMMA AdvancesSame == ASSUME NEW w, Writer(w) PROVE Advances(w, w)
BY WritesSame DEF Advances

\* A message with other open blocks, or another text.
LEMMA Rewritten ==
  ASSUME NEW w, Writer(w), NEW B, NEW last
  PROVE  /\ [w.open EXCEPT !.blocks = B] =
              [id |-> w.open.id, of |-> w.open.of, role |-> w.open.role, blocks |-> B, last |-> w.open.last]
         /\ [w.open EXCEPT !.last = last] =
              [id |-> w.open.id, of |-> w.open.of, role |-> w.open.role, blocks |-> w.open.blocks, last |-> last]
<1> DEFINE o == w.open
<1>1. o = [id |-> o.id, of |-> o.of, role |-> o.role, blocks |-> o.blocks, last |-> o.last]
  BY DEF Writer
<1> HIDE DEF o
<1>2. PICK a, b, c, d, e : o = [id |-> a, of |-> b, role |-> c, blocks |-> d, last |-> e]
  BY <1>1
<1>3. /\ [o EXCEPT !.blocks = B] = [id |-> o.id, of |-> o.of, role |-> o.role, blocks |-> B, last |-> o.last]
      /\ [o EXCEPT !.last = last] = [id |-> o.id, of |-> o.of, role |-> o.role, blocks |-> o.blocks, last |-> last]
  BY <1>2
<1> QED  BY <1>3 DEF o

LEMMA FinishBlockAdvances ==
  ASSUME NEW w, Writer(w), NEW i \in w.open.blocks
  PROVE  Advances(w, FinishBlock(w, i)) /\ FinishBlock(w, i).open.blocks = w.open.blocks \ {i}
<1> DEFINE v == [open |-> [id |-> w.open.id, of |-> w.open.of, role |-> w.open.role,
                           blocks |-> w.open.blocks \ {i}, last |-> w.open.last],
                 log |-> Append(w.log, BlockEntry("block-finish", w.open, i))]
<1>1. i \in {0, 1} /\ w.open.blocks \ {i} \in SUBSET {0, 1} /\ "block-finish" \in BlockEvents
  BY DEF Writer, BlockEvents
<1>2. Writer(v) /\ Writes(w, v)
  BY <1>1, WritesNext
<1>3. FinishBlock(w, i) = v
  BY Rewritten DEF FinishBlock
<1>4. v.open.blocks = w.open.blocks \ {i}
  OBVIOUS
<1> QED  BY <1>2, <1>3, <1>4 DEF Advances

LEMMA StartBlockAdvances ==
  ASSUME NEW w, Writer(w), NEW i \in {0, 1}
  PROVE  /\ Advances(w, StartBlock(w, i)) /\ StartBlock(w, i).open.blocks = w.open.blocks \cup {i}
<1>1. CASE i \in w.open.blocks
  BY <1>1, AdvancesSame DEF StartBlock
<1>2. CASE i \notin w.open.blocks
  <2> DEFINE v == [open |-> [id |-> w.open.id, of |-> w.open.of, role |-> w.open.role,
                             blocks |-> w.open.blocks \cup {i}, last |-> w.open.last],
                   log |-> Append(w.log, BlockEntry("block-start", w.open, i))]
  <2>1. w.open.blocks \cup {i} \in SUBSET {0, 1} /\ "block-start" \in BlockEvents
    BY DEF Writer, BlockEvents
  <2>2. Writer(v) /\ Writes(w, v)
    BY <1>2, <2>1, WritesNext
  <2>3. StartBlock(w, i) = v
    BY <1>2, Rewritten DEF StartBlock
  <2>4. v.open.blocks = w.open.blocks \cup {i}
    OBVIOUS
  <2> QED  BY <2>2, <2>3, <2>4 DEF Advances
<1> QED  BY <1>1, <1>2

\* A delta of a block that is open, and what was published of the text by then.
LEMMA DeltaAdvances ==
  ASSUME NEW w, Writer(w), NEW i \in w.open.blocks, NEW last
  PROVE  LET v == [open |-> [id |-> w.open.id, of |-> w.open.of, role |-> w.open.role,
                             blocks |-> w.open.blocks, last |-> last],
                   log |-> Append(w.log, BlockEntry("block-delta", w.open, i))]
         IN  Advances(w, v) /\ v.open.blocks = w.open.blocks
<1>1. i \in {0, 1} /\ w.open.blocks \in SUBSET {0, 1} /\ "block-delta" \in BlockEvents
  BY DEF Writer, BlockEvents
<1> QED  BY <1>1, WritesNext DEF Advances

LEMMA TextBlockAdvances ==
  ASSUME NEW w, Writer(w), NEW i \in {0, 1}, NEW text
  PROVE  Advances(w, TextBlock(w, i, text))
<1> DEFINE u == StartBlock(w, i)
<1>1. Advances(w, u) /\ u.open.blocks = w.open.blocks \cup {i}
  BY StartBlockAdvances
<1> HIDE DEF u
<1>2. Writer(u) /\ i \in u.open.blocks
  BY <1>1 DEF Advances
<1>3. BlockEntry("block-delta", w.open, i) = BlockEntry("block-delta", u.open, i)
  BY <1>1 DEF BlockEntry, Advances, Writes
<1> DEFINE v == [open |-> [id |-> u.open.id, of |-> u.open.of, role |-> u.open.role,
                           blocks |-> u.open.blocks, last |-> text],
                 log |-> Append(u.log, BlockEntry("block-delta", u.open, i))]
<1>4. Advances(u, v)
  BY <1>2, DeltaAdvances
<1>5. [open |-> [u.open EXCEPT !.last = text], log |-> Append(u.log, BlockEntry("block-delta", w.open, i))] = v
  BY <1>2, <1>3, Rewritten
<1>6. TextBlock(w, i, text) = IF text = w.open.last THEN u ELSE v
  BY <1>5 DEF TextBlock, u
<1> HIDE DEF v
<1>7. Advances(w, v)
  BY <1>1, <1>4, AdvancesTrans
<1> QED  BY <1>1, <1>6, <1>7

LEMMA NontextBlockAdvances ==
  ASSUME NEW w, Writer(w), NEW i \in {0, 1}, NEW final
  PROVE  Advances(w, NontextBlock(w, i, final))
<1> DEFINE told == IF i \in w.open.blocks THEN Wrote(w, BlockEntry("block-delta", w.open, i)) ELSE StartBlock(w, i)
<1>1. Advances(w, told) /\ i \in told.open.blocks
  <2>1. CASE i \in w.open.blocks
    <3> DEFINE v == [open |-> [id |-> w.open.id, of |-> w.open.of, role |-> w.open.role,
                               blocks |-> w.open.blocks, last |-> w.open.last],
                     log |-> Append(w.log, BlockEntry("block-delta", w.open, i))]
    <3>1. Advances(w, v) /\ v.open.blocks = w.open.blocks
      BY <2>1, DeltaAdvances
    <3>2. told = v
      <4>1. w = [open |-> w.open, log |-> w.log]
            /\ w.open = [id |-> w.open.id, of |-> w.open.of, role |-> w.open.role, blocks |-> w.open.blocks, last |-> w.open.last]
        BY DEF Writer
      <4> QED  BY <2>1, <4>1 DEF Wrote
    <3> HIDE DEF v, told
    <3> QED  BY <2>1, <3>1, <3>2
  <2>2. CASE i \notin w.open.blocks
    BY <2>2, StartBlockAdvances
  <2> QED  BY <2>1, <2>2
<1>2. NontextBlock(w, i, final) = IF final THEN FinishBlock(told, i) ELSE told
  BY DEF NontextBlock
<1> HIDE DEF told
<1>3. Advances(told, FinishBlock(told, i))
  BY <1>1, FinishBlockAdvances DEF Advances
<1> QED  BY <1>1, <1>2, <1>3, AdvancesTrans

\* The blocks below an index are finished, the others stay.
LEMMA FinishBeforeAdvances ==
  ASSUME NEW w, Writer(w), NEW i \in {0, 1, 2}
  PROVE  /\ Advances(w, FinishBefore(w, i))
         /\ i = 2 => FinishBefore(w, i).open.blocks = {}
<1>1. i \in Nat
  OBVIOUS
<1>2. PICK g : Runs(g, "below", w, i, w) /\ FinishBefore(w, i) = g[i]
  BY <1>1, FinishBeforeRuns
<1>3. g[0] = w /\ \A n \in 1 .. i : g[n] = IF n - 1 \in g[n - 1].open.blocks THEN FinishBlock(g[n - 1], n - 1) ELSE g[n - 1]
  BY <1>2 DEF Runs, StepOf
<1>4. Advances(w, g[0])
  BY <1>3, AdvancesSame
<1>5. ASSUME NEW n \in 1 .. i, Advances(w, g[n - 1])
      PROVE  Advances(w, g[n]) /\ g[n].open.blocks = g[n - 1].open.blocks \ {n - 1}
  <2>1. CASE n - 1 \in g[n - 1].open.blocks
    <3>1. Writer(g[n - 1])
      BY <1>5 DEF Advances
    <3>2. Advances(g[n - 1], FinishBlock(g[n - 1], n - 1))
          /\ FinishBlock(g[n - 1], n - 1).open.blocks = g[n - 1].open.blocks \ {n - 1}
      BY <2>1, <3>1, FinishBlockAdvances
    <3>3. g[n] = FinishBlock(g[n - 1], n - 1)
      BY <1>3, <2>1
    <3> QED  BY <1>5, <3>2, <3>3, AdvancesTrans
  <2>2. CASE n - 1 \notin g[n - 1].open.blocks
    <3>1. g[n] = g[n - 1]
      BY <1>3, <2>2
    <3> QED  BY <1>5, <2>2, <3>1
  <2> QED  BY <2>1, <2>2
<1>6. CASE i = 0
  BY <1>2, <1>4, <1>6
<1>7. CASE i # 0
  <2>1. 1 \in 1 .. i /\ 1 - 1 = 0
    BY <1>7
  <2>2. Advances(w, g[1]) /\ g[1].open.blocks = g[0].open.blocks \ {0}
    BY <1>4, <1>5, <2>1
  <2>3. CASE i = 1
    BY <1>2, <2>2, <2>3
  <2>4. CASE i = 2
    <3>1. 2 \in 1 .. i /\ 2 - 1 = 1
      BY <2>4
    <3>2. Advances(w, g[2]) /\ g[2].open.blocks = g[1].open.blocks \ {1}
      BY <1>5, <2>2, <3>1
    <3>3. g[0].open.blocks \subseteq {0, 1}
      BY <1>3 DEF Writer
    <3>4. g[2].open.blocks = {}
      BY <2>2, <3>2, <3>3
    <3> QED  BY <1>2, <2>4, <3>2, <3>4
  <2> QED  BY <1>7, <2>3, <2>4
<1> QED  BY <1>6, <1>7

\* The blocks of a message: the second piece of one finishes those before it.
LEMMA PublishBlocksAdvances ==
  ASSUME NEW w, Writer(w), NEW content, NEW final
  PROVE  Advances(w, PublishBlocks(w, content, final))
<1> DEFINE told == IF content.text = <<>> THEN w ELSE TextBlock(w, 0, content.text)
           tool == Len(Blocks(content)) - 1
<1>1. Advances(w, told)
  <2>1. 0 \in {0, 1}
    OBVIOUS
  <2> QED  BY <2>1, AdvancesSame, TextBlockAdvances
<1>2. CASE content.tool = 0
  BY <1>1, <1>2 DEF PublishBlocks
<1>3. CASE content.tool # 0
  <2>1. tool \in {0, 1}
    BY <1>3 DEF Blocks
  <2>2. PublishBlocks(w, content, final) = NontextBlock(FinishBefore(told, tool), tool, final)
    BY <1>3 DEF PublishBlocks
  <2> HIDE DEF told, tool
  <2>3. Writer(told)
    BY <1>1 DEF Advances
  <2>4. tool \in {0, 1, 2}
    BY <2>1
  <2>5. Advances(told, FinishBefore(told, tool))
    BY <2>3, <2>4, FinishBeforeAdvances
  <2>6. Writer(FinishBefore(told, tool))
    BY <2>5 DEF Advances
  <2>7. Advances(FinishBefore(told, tool), NontextBlock(FinishBefore(told, tool), tool, final))
    BY <2>1, <2>6, NontextBlockAdvances
  <2>8. Advances(told, NontextBlock(FinishBefore(told, tool), tool, final))
    BY <2>3, <2>5, <2>7, AdvancesTrans
  <2> QED  BY <1>1, <2>2, <2>8, AdvancesTrans
<1> QED  BY <1>2, <1>3

-----------------------------------------------------------------------------
(* What execute_run holds of the messages while the graph streams.         *)

IsStream(s) ==
  /\ s = [identities |-> s.identities, open |-> s.open, parts |-> s.parts, seen |-> s.seen, log |-> s.log]
  /\ IsList(s.open) /\ IsList(s.parts) /\ IsList(s.log)

\* Message id of a call or node is one of the open ones.
Known(s, id, of) == \E i \in DOMAIN s.open : s.open[i].id = id /\ s.open[i].of = of

\* The open messages: begun in the log, with the blocks it has open, each id once.
Messages(s) ==
  /\ \A i \in DOMAIN s.open : Writer([open |-> s.open[i], log |-> s.log])
  /\ \A i, j \in DOMAIN s.open : s.open[i].id = s.open[j].id => i = j

\* Everything that was told is of an open message.
Logged(s) ==
  /\ \A n \in DOMAIN s.log :
       s.log[n].event \in SdkEvents \cup ProtocolEvents => Known(s, s.log[n].id, s.log[n].of)
  /\ \A p \in DOMAIN s.parts : Known(s, s.parts[p].id, s.parts[p].of)

\* Identities were given to the open messages, and to no other.
Heard(s) ==
  /\ s.seen = {s.open[i].id : i \in DOMAIN s.open}
  /\ Range(s.identities) = s.seen

\* Where an identity may come from: a call's or a message's own name, or an output or an update
\* that is over, or the part of item n before position b.
Owned(k, of, n, b) ==
  \/ k[1] = <<"call", of>>
  \/ k[1] = <<"id", <<"own", of>>>>
  \/ /\ k[3] \in Nat
     /\ \E j \in Nat : (k[1] = <<"chain", j>> \/ k[1] = <<"update", j>>) /\ (j < n \/ (j = n /\ k[3] < b))

Keyed(s, n, b) ==
  \A k \in DOMAIN s.identities :
    \E i \in DOMAIN s.open : s.open[i].id = s.identities[k] /\ Owned(k, s.open[i].of, n, b)

\* The ids messages have: those of the source, or made of the identity's key.
Titled(s) ==
  \A i \in DOMAIN s.open :
    \/ s.open[i].id = <<"provider", s.open[i].of>>
    \/ s.open[i].id = <<"own", s.open[i].of>>
    \/ \E k \in DOMAIN s.identities : s.open[i].id = <<"derived", k>> /\ s.identities[k] = <<"derived", k>>

\* The id of a message that keeps it.
IdOf(of) ==
  IF of \in Tools THEN <<"own", of>>
  ELSE IF scene.source[of] = "given" THEN <<"provider", of>>
  ELSE <<"derived", <<<<"call", of>>, scene.ns[of], 0>>>>

Kept(s) == \A i \in DOMAIN s.open : KeepsId(s.open[i].of) => s.open[i].id = IdOf(s.open[i].of)

Fit(s, n, b) ==
  /\ IsStream(s) /\ Messages(s) /\ Logged(s) /\ Heard(s)
  /\ Keyed(s, n, b) /\ Titled(s) /\ Kept(s)

\* A message that item n of the graph hands over at position b or later.
Proper(m, n, b) ==
  /\ m.index \in Nat /\ b <= m.index
  /\ \/ Invocation(m) = <<"call", m.of>>
     \/ Invocation(m) = <<"id", <<"own", m.of>>>>
     \/ Invocation(m) = <<"chain", n>>
     \/ Invocation(m) = <<"update", n>>
  /\ ProviderId(m) \in {None, <<"provider", m.of>>, <<"own", m.of>>}
  /\ KeepsId(m.of) => \/ ProviderId(m) = IdOf(m.of)
                      \/ ProviderId(m) = None /\ <<"derived", Key(m)>> = IdOf(m.of)

-----------------------------------------------------------------------------
(* One message: its identity, its blocks, what the SDK's clients are told. *)

LEMMA OwnedIsUnique ==
  ASSUME NEW m, NEW n \in Nat, NEW b \in Nat, Proper(m, n, b), NEW of, Owned(Key(m), of, n, b)
  PROVE  of = m.of
<1>1. Key(m)[1] = Invocation(m) /\ Key(m)[3] = m.index
  BY DEF Key
<1>2. m.index \in Nat /\ ~ (m.index < b)
  BY DEF Proper
<1>3. CASE Key(m)[1] = <<"call", of>>
  <2>1. /\ <<"call", of>> # <<"id", <<"own", m.of>>>>
        /\ <<"call", of>> # <<"chain", n>> /\ <<"call", of>> # <<"update", n>>
        /\ <<"call", of>> = <<"call", m.of>> => of = m.of
    OBVIOUS
  <2> QED  BY <1>1, <1>3, <2>1 DEF Proper
<1>4. CASE Key(m)[1] = <<"id", <<"own", of>>>>
  <2>1. /\ <<"id", <<"own", of>>>> # <<"call", m.of>>
        /\ <<"id", <<"own", of>>>> # <<"chain", n>> /\ <<"id", <<"own", of>>>> # <<"update", n>>
        /\ <<"id", <<"own", of>>>> = <<"id", <<"own", m.of>>>> => of = m.of
    OBVIOUS
  <2> QED  BY <1>1, <1>4, <2>1 DEF Proper
<1>5. ASSUME NEW j \in Nat, Key(m)[1] = <<"chain", j>> \/ Key(m)[1] = <<"update", j>>,
             j < n \/ (j = n /\ Key(m)[3] < b)
      PROVE  FALSE
  <2>1. j # n
    <3>1. ~ (n < n)
      OBVIOUS
    <3> QED  BY <1>1, <1>2, <1>5, <3>1
  <2>2. /\ <<"chain", j>> # <<"chain", n>> /\ <<"chain", j>> # <<"update", n>> /\ <<"chain", j>> # <<"call", m.of>>
        /\ <<"chain", j>> # <<"id", <<"own", m.of>>>>
        /\ <<"update", j>> # <<"chain", n>> /\ <<"update", j>> # <<"update", n>> /\ <<"update", j>> # <<"call", m.of>>
        /\ <<"update", j>> # <<"id", <<"own", m.of>>>>
    BY <2>1
  <2> QED  BY <1>1, <1>5, <2>2 DEF Proper
<1> QED  BY <1>3, <1>4, <1>5 DEF Owned

\* The id a message gets is its own one's, or new.
LEMMA ResolveFits ==
  ASSUME NEW s, NEW n \in Nat, NEW b \in Nat, Fit(s, n, b), NEW m, Proper(m, n, b),
         NEW id, id = Resolve(s.identities, m)
  PROVE  /\ \A i \in DOMAIN s.open : s.open[i].id = id => s.open[i].of = m.of
         /\ Key(m) \in DOMAIN s.identities => s.identities[Key(m)] = id /\ Known(s, id, m.of)
         /\ Key(m) \notin DOMAIN s.identities =>
              /\ id \in {<<"provider", m.of>>, <<"own", m.of>>, <<"derived", Key(m)>>}
              /\ KeepsId(m.of) => id = IdOf(m.of)
<1>1. CASE Key(m) \in DOMAIN s.identities
  <2>1. id = s.identities[Key(m)]
    BY <1>1 DEF Resolve
  <2>2. PICK i \in DOMAIN s.open : s.open[i].id = s.identities[Key(m)] /\ Owned(Key(m), s.open[i].of, n, b)
    BY <1>1 DEF Fit, Keyed
  <2>3. s.open[i].of = m.of
    BY <2>2, OwnedIsUnique
  <2>4. \A j \in DOMAIN s.open : s.open[j].id = id => j = i
    BY <2>1, <2>2 DEF Fit, Messages
  <2>5. Known(s, id, m.of)
    BY <2>1, <2>2, <2>3 DEF Known
  <2>6. \A j \in DOMAIN s.open : s.open[j].id = id => s.open[j].of = m.of
    BY <2>3, <2>4
  <2> QED  BY <1>1, <2>1, <2>5, <2>6
<1>2. CASE Key(m) \notin DOMAIN s.identities
  <2>1. id = IF ProviderId(m) # None THEN ProviderId(m) ELSE <<"derived", Key(m)>>
    BY <1>2 DEF Resolve
  <2>2. id \in {<<"provider", m.of>>, <<"own", m.of>>, <<"derived", Key(m)>>}
    <3>1. ProviderId(m) \in {None, <<"provider", m.of>>, <<"own", m.of>>}
      BY DEF Proper
    <3> QED  BY <2>1, <3>1
  <2>3. KeepsId(m.of) => id = IdOf(m.of)
    <3>1. ASSUME ProviderId(m) = IdOf(m.of) PROVE ProviderId(m) # None
      <4>1. /\ <<"own", m.of>> # None /\ <<"provider", m.of>> # None
            /\ \A d : <<"derived", d>> # None
        BY DEF None
      <4> HIDE DEF None
      <4> QED  BY <3>1, <4>1 DEF IdOf
    <3>2. KeepsId(m.of) => \/ ProviderId(m) = IdOf(m.of)
                           \/ ProviderId(m) = None /\ <<"derived", Key(m)>> = IdOf(m.of)
      BY DEF Proper
    <3> QED  BY <2>1, <3>1, <3>2
  <2>4. ASSUME NEW i \in DOMAIN s.open, s.open[i].id = id PROVE s.open[i].of = m.of
    <3>1. \/ s.open[i].id = <<"provider", s.open[i].of>>
          \/ s.open[i].id = <<"own", s.open[i].of>>
          \/ \E k \in DOMAIN s.identities : s.open[i].id = <<"derived", k>>
      BY DEF Fit, Titled
    <3> DEFINE o == s.open[i].of
    <3>2. \A d, e, k :
            /\ <<"provider", d>> = <<"provider", e>> => d = e
            /\ <<"own", d>> = <<"own", e>> => d = e
            /\ <<"derived", d>> = <<"derived", e>> => d = e
            /\ <<"provider", d>> # <<"own", e>> /\ <<"provider", d>> # <<"derived", e>> /\ <<"own", d>> # <<"derived", e>>
      OBVIOUS
    <3> QED  BY <1>2, <2>2, <2>4, <3>1, <3>2
  <2> QED  BY <1>2, <2>2, <2>3, <2>4
<1> QED  BY <1>1, <1>2

-----------------------------------------------------------------------------
(* The fields of what execute_run holds, when some of them change.         *)

Record(i, o, p, e, l) == [identities |-> i, open |-> o, parts |-> p, seen |-> e, log |-> l]

LEMMA RecordOf ==
  ASSUME NEW t, NEW i, NEW o, NEW p, NEW e, NEW l, t = Record(i, o, p, e, l)
  PROVE  /\ t.identities = i /\ t.open = o /\ t.parts = p /\ t.seen = e /\ t.log = l
         /\ t = [identities |-> t.identities, open |-> t.open, parts |-> t.parts, seen |-> t.seen, log |-> t.log]
BY DEF Record

LEMMA TellIs ==
  ASSUME NEW s, IsStream(s), NEW events
  PROVE  Tell(s, events) = Record(s.identities, s.open, s.parts, s.seen, s.log \o events)
<1>1. PICK l : l = s.log \o events
  OBVIOUS
<1>2. [s EXCEPT !.log = l] = Record(s.identities, s.open, s.parts, s.seen, l)
  BY DEF IsStream, Record
<1> QED  BY <1>1, <1>2 DEF Tell

LEMMA PutIs ==
  ASSUME NEW s, IsStream(s), NEW a, NEW b
  PROVE  Put(s, a, b) = Record(s.identities, a, s.parts, s.seen, b)
<1>1. PICK i, o, p, e, l : i = s.identities /\ o = s.open /\ p = s.parts /\ e = s.seen /\ l = s.log
  OBVIOUS
<1>2. s = Record(i, o, p, e, l)
  BY <1>1 DEF IsStream, Record
<1>3. Put(s, a, b) = Record(i, a, p, e, b)
  <2>1. [s EXCEPT !.open = a] = Record(i, a, p, e, l)
    BY <1>2 DEF Record
  <2>2. PICK u : u = [s EXCEPT !.open = a]
    OBVIOUS
  <2>3. [s EXCEPT !.open = a, !.log = b] = [u EXCEPT !.log = b]
    BY <2>2
  <2>4. u = Record(i, a, p, e, l)
    BY <2>1, <2>2
  <2>5. [u EXCEPT !.log = b] = Record(i, a, p, e, b)
    BY <2>4 DEF Record
  <2> QED  BY <2>3, <2>5 DEF Put
<1> QED  BY <1>1, <1>3

LEMMA PositionIs ==
  ASSUME NEW list, IsList(list), NEW id
  PROVE  \/ Position(list, id) = 0 /\ \A i \in DOMAIN list : list[i].id # id
         \/ Position(list, id) # 0 /\ Position(list, id) \in DOMAIN list /\ list[Position(list, id)].id = id
<1>1. 0 \notin DOMAIN list
  BY ListIs
<1>2. CASE \E i \in DOMAIN list : list[i].id = id
  <2>1. Position(list, id) = CHOOSE i \in DOMAIN list : list[i].id = id
    BY <1>2 DEF Position
  <2>2. Position(list, id) \in DOMAIN list /\ list[Position(list, id)].id = id
    BY <1>2, <2>1
  <2> QED  BY <1>1, <2>2
<1>3. CASE ~ \E i \in DOMAIN list : list[i].id = id
  BY <1>3 DEF Position
<1> QED  BY <1>2, <1>3

\* A message stays as begun as it is while nothing is said of it.
LEMMA WriterQuiet ==
  ASSUME NEW o, NEW l, NEW m, Writer([open |-> o, log |-> l]), Grows(l, m),
         \A n \in New(l, m) : ~Speaks(m[n], o.id)
  PROVE  Writer([open |-> o, log |-> m])
<1> DEFINE w == [open |-> o, log |-> l]
           v == [open |-> o, log |-> m]
<1>1. w.open = o /\ w.log = l /\ v.open = o /\ v.log = m
  OBVIOUS
<1>2. v = [open |-> v.open, log |-> v.log]
  OBVIOUS
<1>3. Writer(w)
  OBVIOUS
<1> HIDE DEF w, v
<1>4. IsList(l) /\ Begun(l, o.id, o.blocks)
  BY <1>1, <1>3 DEF Writer
<1>5. IsList(m) /\ Begun(m, o.id, o.blocks)
  BY <1>4, Quiet DEF Grows
<1>6. Writer(v)
  BY <1>1, <1>2, <1>3, <1>5 DEF Writer
<1> QED  BY <1>6 DEF v

\* What is told beside the blocks leaves the messages as they are.
LEMMA Retold ==
  ASSUME NEW s, NEW t, IsStream(s), Messages(s), Logged(s), IsStream(t), t.open = s.open, Grows(s.log, t.log),
         \A n \in New(s.log, t.log) :
           /\ t.log[n].event \notin ProtocolEvents
           /\ t.log[n].event \in SdkEvents => Known(s, t.log[n].id, t.log[n].of),
         \A p \in DOMAIN t.parts : Known(s, t.parts[p].id, t.parts[p].of)
  PROVE  Messages(t) /\ Logged(t)
<1>1. \A id, of : Known(t, id, of) <=> Known(s, id, of)
  BY DEF Known
<1>2. /\ \A n \in DOMAIN t.log : n \in DOMAIN s.log \/ n \in New(s.log, t.log)
      /\ \A n \in DOMAIN s.log : t.log[n] = s.log[n]
  BY GrowsOver DEF IsStream
<1>3. Logged(t)
  BY <1>1, <1>2 DEF Logged
<1>4. ASSUME NEW i \in DOMAIN t.open PROVE Writer([open |-> t.open[i], log |-> t.log])
  <2>1. Writer([open |-> t.open[i], log |-> s.log])
    BY DEF Messages
  <2>2. \A n \in New(s.log, t.log) : ~Speaks(t.log[n], t.open[i].id)
    BY DEF Speaks
  <2> QED  BY <2>1, <2>2, WriterQuiet
<1>5. Messages(t)
  BY <1>4 DEF Messages
<1> QED  BY <1>3, <1>5

\* How the open messages change when one of them goes on, or begins.
Opened(s, t, id, m) ==
  /\ IsStream(t) /\ Messages(t) /\ Logged(t)
  /\ t.identities = s.identities /\ t.parts = s.parts /\ t.seen = s.seen
  /\ Grows(s.log, t.log)
  /\ \A n \in New(s.log, t.log) :
       t.log[n].event \in {"message-start"} \cup BlockEvents /\ t.log[n].id = id /\ t.log[n].of = m.of
  /\ \A i \in DOMAIN s.open :
       /\ i \in DOMAIN t.open
       /\ t.open[i].id = s.open[i].id /\ t.open[i].of = s.open[i].of /\ t.open[i].role = s.open[i].role
  /\ \A i \in DOMAIN t.open :
       \/ i \in DOMAIN s.open
       \/ t.open[i].id = id /\ t.open[i].of = m.of /\ t.open[i].role = m.role
  /\ Known(t, id, m.of)

\* The writer of one message replaces it among the others.
LEMMA OneOpened ==
  ASSUME NEW s, IsStream(s), Messages(s), Logged(s), NEW m, NEW id,
         NEW at \in DOMAIN s.open, s.open[at].id = id, s.open[at].of = m.of,
         NEW w, Advances([open |-> s.open[at], log |-> s.log], w)
  PROVE  Opened(s, Put(s, [s.open EXCEPT ![at] = w.open], w.log), id, m)
<1> DEFINE list == [s.open EXCEPT ![at] = w.open]
           t    == Record(s.identities, list, s.parts, s.seen, w.log)
<1>1. Put(s, [s.open EXCEPT ![at] = w.open], w.log) = t
  BY PutIs
<1>2. /\ IsList(list) /\ DOMAIN list = DOMAIN s.open /\ list[at] = w.open
      /\ \A i \in DOMAIN s.open : i # at => list[i] = s.open[i]
  BY ListPut DEF IsStream
<1>3. /\ t.open = list /\ t.log = w.log /\ t.identities = s.identities /\ t.parts = s.parts /\ t.seen = s.seen
      /\ t = [identities |-> t.identities, open |-> t.open, parts |-> t.parts, seen |-> t.seen, log |-> t.log]
  <2>1. t = Record(s.identities, list, s.parts, s.seen, w.log)
    OBVIOUS
  <2> HIDE DEF t
  <2> QED  BY <2>1 DEF Record
<1> HIDE DEF list, t
<1>4. /\ Writer(w) /\ w.open.id = id /\ w.open.of = m.of /\ w.open.role = s.open[at].role
      /\ Grows(s.log, w.log)
      /\ \A n \in New(s.log, w.log) : w.log[n].event \in BlockEvents /\ w.log[n].id = id /\ w.log[n].of = m.of
  <2> DEFINE v == [open |-> s.open[at], log |-> s.log]
  <2>1. v.open = s.open[at] /\ v.log = s.log /\ Advances(v, w)
    OBVIOUS
  <2> HIDE DEF v
  <2> QED  BY <2>1 DEF Advances, Writes
<1>5. IsStream(t)
  <2>1. IsList(w.log)
    BY <1>4 DEF Grows
  <2> QED  BY <1>2, <1>3, <2>1 DEF IsStream
<1>6. \A i \in DOMAIN s.open :
        list[i].id = s.open[i].id /\ list[i].of = s.open[i].of /\ list[i].role = s.open[i].role
  BY <1>2, <1>4
<1>7. \A d, of : Known(s, d, of) <=> Known(t, d, of)
  BY <1>2, <1>3, <1>6 DEF Known
<1>8. Known(t, id, m.of)
  BY <1>7 DEF Known
<1>9. Logged(t)
  <2>1. /\ \A n \in DOMAIN t.log : n \in DOMAIN s.log \/ n \in New(s.log, t.log)
        /\ \A n \in DOMAIN s.log : t.log[n] = s.log[n]
    BY <1>3, <1>4, GrowsOver DEF IsStream
  <2> QED  BY <1>3, <1>4, <1>7, <1>8, <2>1 DEF Logged
<1>10. Messages(t)
  <2>1. ASSUME NEW i \in DOMAIN s.open PROVE Writer([open |-> list[i], log |-> w.log])
    <3>1. CASE i = at
      <4>1. [open |-> w.open, log |-> w.log] = w
        BY <1>4 DEF Writer
      <4> QED  BY <1>2, <1>4, <3>1, <4>1
    <3>2. CASE i # at
      <4>1. s.open[i].id # id
        BY <3>2 DEF Messages
      <4>2. \A n \in New(s.log, w.log) : ~Speaks(w.log[n], s.open[i].id)
        BY <1>4, <4>1 DEF Speaks
      <4>3. Writer([open |-> s.open[i], log |-> s.log])
        BY DEF Messages
      <4>4. Writer([open |-> s.open[i], log |-> w.log])
        BY <1>4, <4>2, <4>3, WriterQuiet
      <4> QED  BY <1>2, <3>2, <4>4
    <3> QED  BY <3>1, <3>2
  <2> QED  BY <1>2, <1>3, <1>6, <2>1 DEF Messages
<1>11. Opened(s, t, id, m)
  BY <1>2, <1>3, <1>4, <1>5, <1>6, <1>8, <1>9, <1>10 DEF Opened
<1> QED  BY <1>1, <1>11

\* A message of its own follows the others.
LEMMA NewOpened ==
  ASSUME NEW s, IsStream(s), Messages(s), Logged(s), NEW m, NEW id,
         \A i \in DOMAIN s.open : s.open[i].id # id,
         NEW o, o = [id |-> id, of |-> m.of, role |-> m.role, blocks |-> {}, last |-> <<>>],
         NEW w, Writer([open |-> o, log |-> Append(s.log, Entry("message-start", o))]) =>
                  Advances([open |-> o, log |-> Append(s.log, Entry("message-start", o))], w)
  PROVE  Opened(s, Put(s, Append(s.open, w.open), w.log), id, m)
<1> DEFINE list == Append(s.open, w.open)
           e    == Entry("message-start", o)
           l    == Append(s.log, e)
           v    == [open |-> o, log |-> l]
           t    == Record(s.identities, list, s.parts, s.seen, w.log)
<1>1. Put(s, Append(s.open, w.open), w.log) = t
  BY PutIs
<1>2. /\ IsList(list) /\ DOMAIN list = 1 .. Len(s.open) + 1 /\ list[Len(s.open) + 1] = w.open
      /\ Grows(s.open, list)
  BY ListAppend DEF IsStream
<1>3. /\ t.open = list /\ t.log = w.log /\ t.identities = s.identities /\ t.parts = s.parts /\ t.seen = s.seen
      /\ t = [identities |-> t.identities, open |-> t.open, parts |-> t.parts, seen |-> t.seen, log |-> t.log]
  <2>1. t = Record(s.identities, list, s.parts, s.seen, w.log)
    OBVIOUS
  <2> HIDE DEF t
  <2> QED  BY <2>1 DEF Record
<1>4. /\ e.event = "message-start" /\ e.id = id /\ e.of = m.of
      /\ o.id = id /\ o.of = m.of /\ o.role = m.role /\ o.blocks = {}
      /\ o = [id |-> o.id, of |-> o.of, role |-> o.role, blocks |-> o.blocks, last |-> o.last]
  BY DEF Entry
<1>5. /\ IsList(s.log) /\ IsList(l) /\ Grows(s.log, l)
      /\ New(s.log, l) = {Len(s.log) + 1} /\ l[Len(s.log) + 1] = e
  BY ListAppend DEF IsStream
<1>6. v.open = o /\ v.log = l /\ v = [open |-> v.open, log |-> v.log]
  OBVIOUS
<1>7. Writer(v) => Advances(v, w)
  OBVIOUS
<1> HIDE DEF list, t, v, e
<1>8. Unheard(s.log, id)
  <2>1. SUFFICES ASSUME NEW n \in DOMAIN s.log, s.log[n].event \in ProtocolEvents, s.log[n].id = id PROVE FALSE
    BY DEF Unheard, Told
  <2> QED  BY <2>1 DEF Logged, Known
<1>9. Begun(l, id, {})
  BY <1>4, <1>5, <1>8, StartBegins
<1> HIDE DEF l
<1>10. Writer(v)
  BY <1>4, <1>5, <1>6, <1>9 DEF Writer
<1>11. /\ Writer(w) /\ w.open.id = id /\ w.open.of = m.of /\ w.open.role = m.role
       /\ Grows(l, w.log)
       /\ \A n \in New(l, w.log) : w.log[n].event \in BlockEvents /\ w.log[n].id = id /\ w.log[n].of = m.of
  BY <1>4, <1>6, <1>7, <1>10 DEF Advances, Writes
<1>12. /\ Grows(s.log, w.log)
       /\ \A n \in New(s.log, w.log) :
            w.log[n].event \in {"message-start"} \cup BlockEvents /\ w.log[n].id = id /\ w.log[n].of = m.of
  <2>1. /\ Grows(s.log, w.log)
        /\ \A n \in New(s.log, w.log) : n \in New(s.log, l) \/ n \in New(l, w.log)
        /\ \A n \in New(s.log, l) : w.log[n] = l[n]
    BY <1>5, <1>11, GrowsTrans
  <2> QED  BY <1>4, <1>5, <1>11, <2>1
<1>13. IsStream(t)
  <2>1. IsList(w.log)
    BY <1>11 DEF Grows
  <2> QED  BY <1>2, <1>3, <2>1 DEF IsStream
<1>14. /\ \A i \in DOMAIN s.open : i \in DOMAIN list /\ list[i] = s.open[i]
       /\ \A i \in DOMAIN list : i \in DOMAIN s.open \/ i = Len(s.open) + 1
       /\ Len(s.open) + 1 \in DOMAIN list
  <2>1. Len(s.open) \in Nat /\ DOMAIN s.open = 1 .. Len(s.open)
    BY ListIs DEF IsStream
  <2>2. /\ \A i \in 1 .. Len(s.open) : i \in 1 .. Len(s.open) + 1 /\ list[i] = s.open[i]
        /\ \A i \in 1 .. Len(s.open) + 1 : i \in 1 .. Len(s.open) \/ i = Len(s.open) + 1
        /\ Len(s.open) + 1 \in 1 .. Len(s.open) + 1
    BY <1>2, <2>1 DEF Grows
  <2> QED  BY <1>2, <2>1, <2>2
<1>15. Known(t, id, m.of) /\ \A d, of : Known(s, d, of) => Known(t, d, of)
  BY <1>2, <1>3, <1>11, <1>14 DEF Known
<1>16. Logged(t)
  <2>1. /\ \A n \in DOMAIN t.log : n \in DOMAIN s.log \/ n \in New(s.log, t.log)
        /\ \A n \in DOMAIN s.log : t.log[n] = s.log[n]
    BY <1>3, <1>5, <1>12, GrowsOver
  <2> QED  BY <1>3, <1>12, <1>15, <2>1 DEF Logged
<1>17. Messages(t)
  <2>1. ASSUME NEW i \in DOMAIN list PROVE Writer([open |-> list[i], log |-> w.log])
    <3>1. CASE i = Len(s.open) + 1
      <4>1. [open |-> w.open, log |-> w.log] = w
        BY <1>11 DEF Writer
      <4> QED  BY <1>2, <1>11, <3>1, <4>1
    <3>2. CASE i \in DOMAIN s.open
      <4>1. s.open[i].id # id
        BY <3>2
      <4>2. \A n \in New(s.log, w.log) : ~Speaks(w.log[n], s.open[i].id)
        BY <1>12, <4>1 DEF Speaks
      <4>3. Writer([open |-> s.open[i], log |-> s.log])
        BY <3>2 DEF Messages
      <4>4. Writer([open |-> s.open[i], log |-> w.log])
        BY <1>12, <4>2, <4>3, WriterQuiet
      <4> QED  BY <1>14, <3>2, <4>4
    <3> QED  BY <1>14, <3>1, <3>2
  <2>2. ASSUME NEW i \in DOMAIN list, NEW j \in DOMAIN list, list[i].id = list[j].id PROVE i = j
    <3>1. list[Len(s.open) + 1].id = id
      BY <1>2, <1>11
    <3>2. \A k \in DOMAIN s.open : list[k].id # id
      BY <1>14
    <3> QED  BY <1>14, <2>2, <3>1, <3>2 DEF Messages
  <2> QED  BY <1>3, <2>1, <2>2 DEF Messages
<1>18. Opened(s, t, id, m)
  BY <1>2, <1>3, <1>11, <1>12, <1>13, <1>14, <1>15, <1>16, <1>17 DEF Opened
<1> QED  BY <1>1, <1>18

LEMMA OpenOpens ==
  ASSUME NEW s, IsStream(s), Messages(s), Logged(s), NEW m, NEW id,
         \A i \in DOMAIN s.open : s.open[i].id = id => s.open[i].of = m.of
  PROVE  Opened(s, Open(s, m, id), id, m)
<1> DEFINE at    == Position(s.open, id)
           o     == [id |-> id, of |-> m.of, role |-> m.role, blocks |-> {}, last |-> <<>>]
           old   == [open |-> s.open[at], log |-> s.log]
           fresh == [open |-> o, log |-> Append(s.log, Entry("message-start", o))]
<1>1. IsList(s.open)
  BY DEF IsStream
<1>2. CASE at # 0
  <2>1. at \in DOMAIN s.open /\ s.open[at].id = id
    BY <1>1, <1>2, PositionIs
  <2>2. Open(s, m, id) = Put(s, [s.open EXCEPT ![at] = PublishBlocks(old, m.content, FALSE).open],
                          PublishBlocks(old, m.content, FALSE).log)
    BY <1>2 DEF Open
  <2>3. Writer(old)
    BY <2>1 DEF Messages
  <2>4. Advances(old, PublishBlocks(old, m.content, FALSE))
    <3> HIDE DEF old
    <3> QED  BY <2>3, PublishBlocksAdvances
  <2> HIDE DEF at
  <2>5. PICK w : w = PublishBlocks(old, m.content, FALSE)
    OBVIOUS
  <2>6. Opened(s, Put(s, [s.open EXCEPT ![at] = w.open], w.log), id, m)
    BY <2>1, <2>4, <2>5, OneOpened
  <2> QED  BY <2>2, <2>5, <2>6
<1>3. CASE at = 0
  <2>1. \A i \in DOMAIN s.open : s.open[i].id # id
    BY <1>1, <1>3, PositionIs
  <2>2. Open(s, m, id) = Put(s, Append(s.open, PublishBlocks(fresh, m.content, FALSE).open),
                          PublishBlocks(fresh, m.content, FALSE).log)
    BY <1>3 DEF Open
  <2>3. Writer(fresh) => Advances(fresh, PublishBlocks(fresh, m.content, FALSE))
    <3> HIDE DEF fresh
    <3> QED  BY PublishBlocksAdvances
  <2>4. PICK w : w = PublishBlocks(fresh, m.content, FALSE)
    OBVIOUS
  <2>5. Opened(s, Put(s, Append(s.open, w.open), w.log), id, m)
    BY <2>1, <2>3, <2>4, NewOpened
  <2> QED  BY <2>2, <2>4, <2>5
<1> QED  BY <1>2, <1>3

\* What follows the blocks of a message: events of the SDK about it, nothing else.
Spread(s, t, id, of) ==
  /\ IsStream(t) /\ Messages(t) /\ Logged(t)
  /\ t.open = s.open /\ t.identities = s.identities
  /\ Grows(s.log, t.log)
  /\ \A n \in New(s.log, t.log) : t.log[n].event \in SdkEvents /\ t.log[n].id = id /\ t.log[n].of = of

LEMMA SpreadTrans ==
  ASSUME NEW s, NEW t, NEW u, NEW id, NEW of, IsStream(s), Spread(s, t, id, of), Spread(t, u, id, of)
  PROVE  Spread(s, u, id, of)
<1>1. IsList(s.log) /\ Grows(s.log, t.log) /\ Grows(t.log, u.log)
  BY DEF IsStream, Spread
<1>2. /\ Grows(s.log, u.log)
      /\ \A n \in New(s.log, u.log) : n \in New(s.log, t.log) \/ n \in New(t.log, u.log)
      /\ \A n \in New(s.log, t.log) : u.log[n] = t.log[n]
  BY <1>1, GrowsTrans
<1>3. \A n \in New(s.log, u.log) : u.log[n].event \in SdkEvents /\ u.log[n].id = id /\ u.log[n].of = of
  BY <1>2 DEF Spread
<1> QED  BY <1>2, <1>3 DEF Spread

LEMMA SpreadSame ==
  ASSUME NEW s, NEW id, NEW of, IsStream(s), Messages(s), Logged(s)
  PROVE  Spread(s, s, id, of)
BY GrowsSame DEF Spread, IsStream

\* u has other parts or other seen ids than s.
LEMMA TellSpreads ==
  ASSUME NEW s, IsStream(s), Messages(s), Logged(s), NEW id, NEW of, Known(s, id, of),
         NEW u, IsStream(u), u.open = s.open, u.identities = s.identities, u.log = s.log,
         \A p \in DOMAIN u.parts : Known(s, u.parts[p].id, u.parts[p].of),
         NEW events, IsList(events),
         \A n \in 1 .. Len(events) : events[n].event \in SdkEvents /\ events[n].id = id /\ events[n].of = of
  PROVE  /\ Spread(s, Tell(u, events), id, of)
         /\ Tell(u, events).seen = u.seen /\ Tell(u, events).parts = u.parts
<1> DEFINE t == Tell(u, events)
           l == s.log \o events
<1>1. t = Record(u.identities, u.open, u.parts, u.seen, l)
  BY TellIs
<1>2. /\ IsList(l) /\ Grows(s.log, l)
      /\ \A n \in New(s.log, l) : n - Len(s.log) \in 1 .. Len(events) /\ l[n] = events[n - Len(s.log)]
  <2>1. PICK k : k = s.log
    OBVIOUS
  <2>2. IsList(k)
    BY <2>1 DEF IsStream
  <2>3. /\ IsList(k \o events) /\ Grows(k, k \o events)
        /\ \A n \in New(k, k \o events) : n - Len(k) \in 1 .. Len(events) /\ (k \o events)[n] = events[n - Len(k)]
    BY <2>2, ListConcat
  <2> QED  BY <2>1, <2>3
<1> HIDE DEF l, t
<1>3. /\ t.identities = u.identities /\ t.open = u.open /\ t.parts = u.parts /\ t.seen = u.seen /\ t.log = l
      /\ t = [identities |-> t.identities, open |-> t.open, parts |-> t.parts, seen |-> t.seen, log |-> t.log]
  BY <1>1 DEF Record
<1>4. IsStream(t)
  BY <1>2, <1>3 DEF IsStream
<1>5. \A n \in New(s.log, t.log) : t.log[n].event \in SdkEvents /\ t.log[n].id = id /\ t.log[n].of = of
  BY <1>2, <1>3
<1>6. \A n \in New(s.log, t.log) :
           /\ t.log[n].event \notin ProtocolEvents
           /\ t.log[n].event \in SdkEvents => Known(s, t.log[n].id, t.log[n].of)
  BY <1>5 DEF SdkEvents, ProtocolEvents
<1>7. Grows(s.log, t.log)
  BY <1>2, <1>3
<1>8. Messages(t) /\ Logged(t)
  BY <1>3, <1>4, <1>6, <1>7, Retold
<1>9. Spread(s, t, id, of)
  BY <1>3, <1>4, <1>5, <1>7, <1>8 DEF Spread
<1> QED  BY <1>3, <1>9 DEF t

LEMMA ListOne == ASSUME NEW e PROVE IsList(<<e>>) /\ Len(<<e>>) = 1 /\ <<e>>[1] = e /\ 1 .. Len(<<e>>) = {1}
<1>1. <<e>> \in Seq({e})
  OBVIOUS
<1>2. IsList(<<e>>)
  BY <1>1 DEF IsList
<1> QED  BY <1>2

LEMMA ListTwo == ASSUME NEW e, NEW f
                 PROVE  IsList(<<e>> \o <<f>>) /\ Len(<<e>> \o <<f>>) = 2
                        /\ (<<e>> \o <<f>>)[1] = e /\ (<<e>> \o <<f>>)[2] = f /\ 1 .. Len(<<e>> \o <<f>>) = {1, 2}
<1>1. PICK l, m : l = <<e>> /\ m = <<f>>
  OBVIOUS
<1>2. /\ IsList(l) /\ Len(l) = 1 /\ l[1] = e
      /\ IsList(m) /\ Len(m) = 1 /\ m[1] = f
  BY <1>1, ListOne
<1>3. /\ IsList(l \o m) /\ Grows(l, l \o m)
      /\ \A i \in 1 .. Len(m) : (l \o m)[Len(l) + i] = m[i]
  <2>1. IsList(l) /\ IsList(m)
    BY <1>2
  <2> QED  BY <2>1, ListConcat
<1>4. PICK k : k = l \o m
  OBVIOUS
<1>5. Len(k) = 2 /\ 1 .. 2 = {1, 2} /\ 1 \in 1 .. 1
  <2>1. k = <<e>> \o <<f>>
    BY <1>1, <1>4
  <2>2. <<e>> \in Seq({e, f}) /\ <<f>> \in Seq({e, f}) /\ Len(<<e>>) = 1 /\ Len(<<f>>) = 1
    OBVIOUS
  <2>3. Len(<<e>> \o <<f>>) = 1 + 1
    BY <2>2
  <2> QED  BY <2>1, <2>3
<1>6. k[1] = e
  BY <1>2, <1>3, <1>4, <1>5 DEF Grows
<1>7. k[2] = f
  <2>1. \A i \in 1 .. 1 : k[1 + i] = m[i]
    BY <1>2, <1>3, <1>4
  <2>2. \A n : n = 1 + 1 => k[n] = m[1]
    BY <1>5, <2>1
  <2> QED  BY <1>2, <2>2
<1> QED  BY <1>1, <1>3, <1>4, <1>5, <1>6, <1>7

LEMMA ListNone == ASSUME NEW e PROVE <<>> \o <<e>> = <<e>> /\ <<e>> \o <<>> = <<e>>
OBVIOUS

LEMMA MetadataSpreads ==
  ASSUME NEW s, IsStream(s), Messages(s), Logged(s), NEW id, NEW m, Known(s, id, m.of)
  PROVE  /\ Spread(s, Metadata(s, m, id), id, m.of)
         /\ Metadata(s, m, id).seen = s.seen \cup {id} /\ Metadata(s, m, id).parts = s.parts
<1>1. CASE id \in s.seen
  <2>1. s.seen \cup {id} = s.seen
    BY <1>1
  <2> QED  BY <1>1, <2>1, SpreadSame DEF Metadata
<1>2. CASE id \notin s.seen
  <2> DEFINE e == Sdk("metadata", id, m, Silent)
             u == [s EXCEPT !.seen = @ \cup {id}]
  <2>1. e.event \in SdkEvents /\ e.id = id /\ e.of = m.of
    BY DEF Sdk, SdkEvents
  <2>2. u = Record(s.identities, s.open, s.parts, s.seen \cup {id}, s.log)
    <3>1. PICK a : a = s.seen \cup {id}
      OBVIOUS
    <3>2. [s EXCEPT !.seen = a] = Record(s.identities, s.open, s.parts, a, s.log)
      BY DEF IsStream, Record
    <3> QED  BY <3>1, <3>2
  <2>3. Metadata(s, m, id) = Tell(u, <<e>>)
    BY <1>2 DEF Metadata
  <2> HIDE DEF e, u
  <2>4. /\ u.identities = s.identities /\ u.open = s.open /\ u.parts = s.parts /\ u.seen = s.seen \cup {id}
        /\ u.log = s.log
        /\ u = [identities |-> u.identities, open |-> u.open, parts |-> u.parts, seen |-> u.seen, log |-> u.log]
    BY <2>2 DEF Record
  <2>5. IsStream(u)
    BY <2>4 DEF IsStream
  <2>6. \A p \in DOMAIN u.parts : Known(s, u.parts[p].id, u.parts[p].of)
    BY <2>4 DEF Logged
  <2>7. IsList(<<e>>) /\ \A n \in 1 .. Len(<<e>>) : <<e>>[n].event \in SdkEvents /\ <<e>>[n].id = id /\ <<e>>[n].of = m.of
    <3>1. IsList(<<e>>) /\ 1 .. Len(<<e>>) = {1} /\ <<e>>[1] = e
      BY ListOne
    <3> QED  BY <2>1, <3>1
  <2>8. PICK events : events = <<e>>
    OBVIOUS
  <2>9. /\ Spread(s, Tell(u, events), id, m.of)
        /\ Tell(u, events).seen = u.seen /\ Tell(u, events).parts = u.parts
    BY <2>4, <2>5, <2>6, <2>7, <2>8, TellSpreads
  <2> QED  BY <2>3, <2>4, <2>8, <2>9
<1> QED  BY <1>1, <1>2

\* The list of parts with one more piece of a message.
PartsWith(s, m, id) ==
  LET at   == Position(s.parts, id)
      part == [id |-> id, of |-> m.of, content |-> Accumulate(s.parts, at, m)]
  IN  IF at = 0 THEN Append(s.parts, part) ELSE [s.parts EXCEPT ![at] = part]

LEMMA PartialSpreads ==
  ASSUME NEW s, IsStream(s), Messages(s), Logged(s), NEW id, NEW m, Known(s, id, m.of)
  PROVE  /\ Spread(s, Partial(s, m, id), id, m.of)
         /\ Partial(s, m, id).seen = s.seen /\ Partial(s, m, id).parts = PartsWith(s, m, id)
<1> DEFINE at    == Position(s.parts, id)
           part  == [id |-> id, of |-> m.of, content |-> Accumulate(s.parts, at, m)]
           list  == IF at = 0 THEN Append(s.parts, part) ELSE [s.parts EXCEPT ![at] = part]
           e     == Sdk("tuple", id, m, m.content)
           f     == Sdk("partial", id, m, part.content)
           events == (IF scene.tuples THEN <<e>> ELSE <<>>) \o <<f>>
           u     == [s EXCEPT !.parts = list]
<1>1. u = Record(s.identities, s.open, list, s.seen, s.log)
  <2>1. PICK a : a = list
    OBVIOUS
  <2>2. [s EXCEPT !.parts = a] = Record(s.identities, s.open, a, s.seen, s.log)
    BY DEF IsStream, Record
  <2> QED  BY <2>1, <2>2
<1>2. Partial(s, m, id) = Tell(u, events) /\ PartsWith(s, m, id) = list
  BY DEF Partial, PartsWith
<1>3. /\ e.event \in SdkEvents /\ e.id = id /\ e.of = m.of
      /\ f.event \in SdkEvents /\ f.id = id /\ f.of = m.of
  BY DEF Sdk, SdkEvents
<1>4. part.id = id /\ part.of = m.of
  OBVIOUS
<1>5. IsList(s.parts)
  BY DEF IsStream
<1>6. at = 0 \/ at \in DOMAIN s.parts
  BY <1>5, PositionIs
<1> HIDE DEF part, at
<1>7. IsList(list) /\ \A p \in DOMAIN list : (p \in DOMAIN s.parts /\ list[p] = s.parts[p]) \/ list[p] = part
  <2>1. CASE at = 0
    <3>1. /\ IsList(Append(s.parts, part)) /\ Append(s.parts, part)[Len(s.parts) + 1] = part
          /\ New(s.parts, Append(s.parts, part)) = {Len(s.parts) + 1} /\ Grows(s.parts, Append(s.parts, part))
      BY <1>5, ListAppend
    <3>2. /\ \A n \in DOMAIN Append(s.parts, part) : n \in DOMAIN s.parts \/ n \in New(s.parts, Append(s.parts, part))
          /\ \A n \in DOMAIN s.parts : Append(s.parts, part)[n] = s.parts[n]
      BY <1>5, <3>1, GrowsOver
    <3>3. list = Append(s.parts, part)
      BY <2>1
    <3> HIDE DEF list
    <3> QED  BY <3>1, <3>2, <3>3
  <2>2. CASE at # 0
    <3>1. at \in DOMAIN s.parts
      BY <1>6, <2>2
    <3>2. /\ IsList([s.parts EXCEPT ![at] = part]) /\ DOMAIN [s.parts EXCEPT ![at] = part] = DOMAIN s.parts
          /\ [s.parts EXCEPT ![at] = part][at] = part
          /\ \A n \in DOMAIN s.parts : n # at => [s.parts EXCEPT ![at] = part][n] = s.parts[n]
      BY <1>5, <3>1, ListPut
    <3>3. list = [s.parts EXCEPT ![at] = part]
      BY <2>2
    <3> HIDE DEF list
    <3> QED  BY <3>2, <3>3
  <2> QED  BY <2>1, <2>2
<1> HIDE DEF list, u, e, f
<1>8. IsList(events) /\ \A n \in 1 .. Len(events) : events[n].event \in SdkEvents /\ events[n].id = id /\ events[n].of = m.of
  <2>1. CASE scene.tuples
    <3>1. events = <<e>> \o <<f>>
      BY <2>1
    <3>2. /\ IsList(<<e>> \o <<f>>) /\ 1 .. Len(<<e>> \o <<f>>) = {1, 2}
          /\ (<<e>> \o <<f>>)[1] = e /\ (<<e>> \o <<f>>)[2] = f
      BY ListTwo
    <3> HIDE DEF events
    <3> QED  BY <1>3, <3>1, <3>2
  <2>2. CASE ~scene.tuples
    <3>1. events = <<f>>
      BY <2>2, ListNone
    <3>2. IsList(<<f>>) /\ 1 .. Len(<<f>>) = {1} /\ <<f>>[1] = f
      BY ListOne
    <3> HIDE DEF events
    <3> QED  BY <1>3, <3>1, <3>2
  <2> QED  BY <2>1, <2>2
<1> HIDE DEF events
<1>9. /\ u.identities = s.identities /\ u.open = s.open /\ u.parts = list /\ u.seen = s.seen
      /\ u.log = s.log
      /\ u = [identities |-> u.identities, open |-> u.open, parts |-> u.parts, seen |-> u.seen, log |-> u.log]
  BY <1>1 DEF Record
<1>10. IsStream(u)
  BY <1>7, <1>9 DEF IsStream
<1>11. \A p \in DOMAIN u.parts : Known(s, u.parts[p].id, u.parts[p].of)
  BY <1>4, <1>7, <1>9 DEF Logged
<1>12. /\ Spread(s, Tell(u, events), id, m.of)
       /\ Tell(u, events).seen = u.seen /\ Tell(u, events).parts = u.parts
  BY <1>8, <1>9, <1>10, <1>11, TellSpreads
<1> QED  BY <1>2, <1>9, <1>12

LEMMA CompleteSpreads ==
  ASSUME NEW s, IsStream(s), Messages(s), Logged(s), NEW id, NEW m, Known(s, id, m.of), NEW first
  PROVE  /\ Spread(s, Complete(s, m, id, first), id, m.of)
         /\ Complete(s, m, id, first).seen = s.seen /\ Complete(s, m, id, first).parts = s.parts
<1> DEFINE e     == Sdk("complete", id, m, m.content)
           f     == Sdk("tuple", id, m, m.content)
           events == <<e>> \o (IF scene.tuples THEN <<f>> ELSE <<>>)
<1>1. CASE ~first
  BY <1>1, SpreadSame DEF Complete
<1>2. CASE first
  <2>1. Complete(s, m, id, first) = Tell(s, events)
    BY <1>2 DEF Complete
  <2>2. /\ e.event \in SdkEvents /\ e.id = id /\ e.of = m.of
        /\ f.event \in SdkEvents /\ f.id = id /\ f.of = m.of
    BY DEF Sdk, SdkEvents
  <2> HIDE DEF e, f
  <2>3. IsList(events) /\ \A n \in 1 .. Len(events) : events[n].event \in SdkEvents /\ events[n].id = id /\ events[n].of = m.of
    <3>1. CASE scene.tuples
      <4>1. events = <<e>> \o <<f>>
        BY <3>1
      <4>2. /\ IsList(<<e>> \o <<f>>) /\ 1 .. Len(<<e>> \o <<f>>) = {1, 2}
            /\ (<<e>> \o <<f>>)[1] = e /\ (<<e>> \o <<f>>)[2] = f
        BY ListTwo
      <4> HIDE DEF events
      <4> QED  BY <2>2, <4>1, <4>2
    <3>2. CASE ~scene.tuples
      <4>1. events = <<e>>
        BY <3>2, ListNone
      <4>2. IsList(<<e>>) /\ 1 .. Len(<<e>>) = {1} /\ <<e>>[1] = e
        BY ListOne
      <4> HIDE DEF events
      <4> QED  BY <2>2, <4>1, <4>2
    <3> QED  BY <3>1, <3>2
  <2> HIDE DEF events
  <2>4. \A p \in DOMAIN s.parts : Known(s, s.parts[p].id, s.parts[p].of)
    BY DEF Logged
  <2>5. /\ Spread(s, Tell(s, events), id, m.of)
        /\ Tell(s, events).seen = s.seen /\ Tell(s, events).parts = s.parts
    BY <2>3, <2>4, TellSpreads
  <2> QED  BY <2>1, <2>5
<1> QED  BY <1>1, <1>2

MessageEvents == SdkEvents \cup {"message-start"} \cup BlockEvents

\* t goes on from s with what is told of messages only.
Continues(s, t) ==
  /\ Grows(s.log, t.log)
  /\ \A n \in New(s.log, t.log) : t.log[n].event \in MessageEvents

LEMMA HandleFit ==
  ASSUME NEW s, NEW n \in Nat, NEW b \in Nat, Fit(s, n, b), NEW m, Proper(m, n, b)
  PROVE  Fit(Handle(s, m), n, m.index + 1) /\ Continues(s, Handle(s, m))
<1> DEFINE id  == Resolve(s.identities, m)
           key == Key(m)
           ids == [k \in DOMAIN s.identities \cup {key} |-> IF k = key THEN id ELSE s.identities[k]]
           s1  == [s EXCEPT !.identities = [k \in DOMAIN @ \cup {key} |-> IF k = key THEN id ELSE @[k]]]
           s2  == Open(s1, m, id)
           s3  == Metadata(s2, m, id)
           t   == Handle(s, m)
<1>1. IsStream(s) /\ Messages(s) /\ Logged(s) /\ Heard(s) /\ Keyed(s, n, b) /\ Titled(s) /\ Kept(s)
  BY DEF Fit
<1>2. t = IF m.role = "ai" THEN Partial(s3, m, id) ELSE Complete(s3, m, id, id \notin s.seen)
  BY DEF Handle
<1>3. s1 = Record(ids, s.open, s.parts, s.seen, s.log)
  <2>1. PICK a : a = ids
    OBVIOUS
  <2>2. [s EXCEPT !.identities = a] = Record(a, s.open, s.parts, s.seen, s.log)
    BY <1>1 DEF IsStream, Record
  <2> QED  BY <2>1, <2>2
<1>4. /\ DOMAIN ids = DOMAIN s.identities \cup {key}
      /\ ids[key] = id
      /\ \A k \in DOMAIN s.identities : k # key => ids[k] = s.identities[k]
  OBVIOUS
<1>5. /\ \A i \in DOMAIN s.open : s.open[i].id = id => s.open[i].of = m.of
      /\ key \in DOMAIN s.identities => s.identities[key] = id /\ Known(s, id, m.of)
      /\ key \notin DOMAIN s.identities =>
              /\ id \in {<<"provider", m.of>>, <<"own", m.of>>, <<"derived", key>>}
              /\ KeepsId(m.of) => id = IdOf(m.of)
  BY ResolveFits
<1> HIDE DEF id, ids, s1, t
<1>6. /\ s1.identities = ids /\ s1.open = s.open /\ s1.parts = s.parts /\ s1.seen = s.seen /\ s1.log = s.log
      /\ s1 = [identities |-> s1.identities, open |-> s1.open, parts |-> s1.parts, seen |-> s1.seen, log |-> s1.log]
  BY <1>3 DEF Record
<1>7. IsStream(s1)
  BY <1>1, <1>6 DEF IsStream
<1>8. Messages(s1) /\ Logged(s1)
  BY <1>1, <1>6 DEF Messages, Logged, Known
<1>9. Opened(s1, s2, id, m)
  BY <1>5, <1>6, <1>7, <1>8, OpenOpens
<1> HIDE DEF s2
<1>10. /\ IsStream(s2) /\ Messages(s2) /\ Logged(s2) /\ Known(s2, id, m.of)
       /\ s2.identities = ids /\ s2.seen = s.seen
       /\ Grows(s.log, s2.log)
       /\ \A k \in New(s.log, s2.log) : s2.log[k].event \in MessageEvents
       /\ \A i \in DOMAIN s.open :
            i \in DOMAIN s2.open /\ s2.open[i].id = s.open[i].id /\ s2.open[i].of = s.open[i].of
       /\ \A i \in DOMAIN s2.open : i \in DOMAIN s.open \/ (s2.open[i].id = id /\ s2.open[i].of = m.of)
  BY <1>6, <1>9 DEF Opened, MessageEvents
<1>11. Spread(s2, s3, id, m.of) /\ s3.seen = s.seen \cup {id}
  BY <1>10, MetadataSpreads
<1> HIDE DEF s3
<1>12. IsStream(s3) /\ Messages(s3) /\ Logged(s3) /\ Known(s3, id, m.of)
  BY <1>10, <1>11 DEF Spread, Known
<1>13. Spread(s3, t, id, m.of) /\ t.seen = s.seen \cup {id}
  <2>1. CASE m.role = "ai"
    BY <1>2, <1>11, <1>12, <2>1, PartialSpreads
  <2>2. CASE m.role # "ai"
    BY <1>2, <1>11, <1>12, <2>2, CompleteSpreads
  <2> QED  BY <2>1, <2>2
<1>14. Spread(s2, t, id, m.of)
  BY <1>10, <1>11, <1>13, SpreadTrans
<1>15. /\ IsStream(t) /\ Messages(t) /\ Logged(t) /\ t.open = s2.open /\ t.identities = ids
       /\ Grows(s2.log, t.log)
       /\ \A k \in New(s2.log, t.log) : t.log[k].event \in MessageEvents
  BY <1>10, <1>14 DEF Spread, MessageEvents
<1>16. Continues(s, t)
  <2>1. IsList(s.log)
    BY <1>1 DEF IsStream
  <2>2. /\ Grows(s.log, t.log)
        /\ \A k \in New(s.log, t.log) : k \in New(s.log, s2.log) \/ k \in New(s2.log, t.log)
        /\ \A k \in New(s.log, s2.log) : t.log[k] = s2.log[k]
    BY <1>10, <1>15, <2>1, GrowsTrans
  <2> QED  BY <1>10, <1>15, <2>2 DEF Continues
\* The open messages are those of s, and the one handled.
<1>17. PICK at \in DOMAIN t.open : t.open[at].id = id /\ t.open[at].of = m.of
  BY <1>10, <1>15 DEF Known
<1>18. /\ \A i \in DOMAIN s.open :
            i \in DOMAIN t.open /\ t.open[i].id = s.open[i].id /\ t.open[i].of = s.open[i].of
       /\ \A i \in DOMAIN t.open :
            \/ i \in DOMAIN s.open /\ t.open[i].id = s.open[i].id /\ t.open[i].of = s.open[i].of
            \/ t.open[i].id = id /\ t.open[i].of = m.of
  BY <1>10, <1>15
<1>19. Heard(t)
  <2>1. t.seen = {t.open[i].id : i \in DOMAIN t.open}
    <3>1. s.seen = {s.open[i].id : i \in DOMAIN s.open}
      BY <1>1 DEF Heard
    <3>2. ASSUME NEW x \in t.seen PROVE \E i \in DOMAIN t.open : x = t.open[i].id
      BY <1>13, <1>17, <1>18, <3>1
    <3>3. ASSUME NEW i \in DOMAIN t.open PROVE t.open[i].id \in t.seen
      BY <1>13, <1>18, <3>1
    <3> QED  BY <3>2, <3>3
  <2>2. Range(t.identities) = t.seen
    <3>1. Range(s.identities) = s.seen
      BY <1>1 DEF Heard
    <3>2. ASSUME NEW k \in DOMAIN ids PROVE ids[k] \in t.seen
      BY <1>4, <1>13, <3>1 DEF Range
    <3>3. ASSUME NEW x \in t.seen PROVE \E k \in DOMAIN ids : ids[k] = x
      <4>1. CASE x = id
        BY <1>4, <4>1
      <4>2. CASE x # id
        <5>1. PICK k \in DOMAIN s.identities : s.identities[k] = x
          BY <1>13, <3>1, <4>2 DEF Range
        <5>2. k # key
          BY <1>5, <4>2, <5>1
        <5> QED  BY <1>4, <5>1, <5>2
      <4> QED  BY <4>1, <4>2
    <3> QED  BY <1>15, <3>2, <3>3 DEF Range
  <2> QED  BY <2>1, <2>2 DEF Heard
<1>20. Keyed(t, n, m.index + 1)
  <2>1. SUFFICES ASSUME NEW k \in DOMAIN ids
                 PROVE  \E i \in DOMAIN t.open : t.open[i].id = ids[k] /\ Owned(k, t.open[i].of, n, m.index + 1)
    BY <1>15 DEF Keyed
  <2>2. m.index \in Nat /\ b <= m.index
    BY DEF Proper
  <2>3. CASE k = key
    <3>1. key[1] = Invocation(m) /\ key[3] = m.index
      BY DEF Key
    <3>2. m.index < m.index + 1
      BY <2>2
    <3>3. Owned(key, m.of, n, m.index + 1)
      BY <2>2, <3>1, <3>2 DEF Owned, Proper
    <3> QED  BY <1>4, <1>17, <2>3, <3>3
  <2>4. CASE k # key
    <3>1. k \in DOMAIN s.identities /\ ids[k] = s.identities[k]
      BY <1>4, <2>1, <2>4
    <3>2. PICK i \in DOMAIN s.open : s.open[i].id = s.identities[k] /\ Owned(k, s.open[i].of, n, b)
      BY <1>1, <3>1 DEF Keyed
    <3>3. Owned(k, s.open[i].of, n, m.index + 1)
      <4>1. k[3] \in Nat /\ k[3] < b => k[3] < m.index + 1
        BY <2>2
      <4> QED  BY <3>2, <4>1 DEF Owned
    <3> QED  BY <1>18, <3>1, <3>2, <3>3
  <2> QED  BY <2>3, <2>4
<1>21. Titled(t)
  <2>1. SUFFICES ASSUME NEW i \in DOMAIN t.open
                 PROVE  \/ t.open[i].id = <<"provider", t.open[i].of>>
                        \/ t.open[i].id = <<"own", t.open[i].of>>
                        \/ \E k \in DOMAIN ids : t.open[i].id = <<"derived", k>> /\ ids[k] = <<"derived", k>>
    BY <1>15 DEF Titled
  <2>2. ASSUME NEW k \in DOMAIN s.identities PROVE k \in DOMAIN ids /\ ids[k] = s.identities[k]
    BY <1>4, <1>5
  <2>3. ASSUME NEW j \in DOMAIN s.open, t.open[i].id = s.open[j].id, t.open[i].of = s.open[j].of
        PROVE  \/ t.open[i].id = <<"provider", t.open[i].of>>
               \/ t.open[i].id = <<"own", t.open[i].of>>
               \/ \E k \in DOMAIN ids : t.open[i].id = <<"derived", k>> /\ ids[k] = <<"derived", k>>
    BY <1>1, <2>2, <2>3 DEF Titled
  <2>4. CASE i \in DOMAIN s.open /\ t.open[i].id = s.open[i].id /\ t.open[i].of = s.open[i].of
    BY <2>3, <2>4
  <2>5. CASE t.open[i].id = id /\ t.open[i].of = m.of
    <3>1. CASE key \in DOMAIN s.identities
      <4>1. PICK j \in DOMAIN s.open : s.open[j].id = id /\ s.open[j].of = m.of
        BY <1>5, <3>1 DEF Known
      <4> QED  BY <2>3, <2>5, <4>1
    <3>2. CASE key \notin DOMAIN s.identities
      BY <1>4, <1>5, <2>5, <3>2
    <3> QED  BY <3>1, <3>2
  <2> QED  BY <1>18, <2>4, <2>5
<1>22. Kept(t)
  <2>1. SUFFICES ASSUME NEW i \in DOMAIN t.open, KeepsId(t.open[i].of)
                 PROVE  t.open[i].id = IdOf(t.open[i].of)
    BY DEF Kept
  <2>2. CASE i \in DOMAIN s.open /\ t.open[i].id = s.open[i].id /\ t.open[i].of = s.open[i].of
    BY <1>1, <2>1, <2>2 DEF Kept
  <2>3. CASE t.open[i].id = id /\ t.open[i].of = m.of
    <3>1. CASE key \in DOMAIN s.identities
      <4>1. PICK j \in DOMAIN s.open : s.open[j].id = id /\ s.open[j].of = m.of
        BY <1>5, <3>1 DEF Known
      <4> QED  BY <1>1, <2>1, <2>3, <4>1 DEF Kept
    <3>2. CASE key \notin DOMAIN s.identities
      BY <1>5, <2>1, <2>3, <3>2
    <3> QED  BY <3>1, <3>2
  <2> QED  BY <1>18, <2>2, <2>3
<1>23. Fit(t, n, m.index + 1)
  BY <1>15, <1>19, <1>20, <1>21, <1>22 DEF Fit
<1> QED  BY <1>16, <1>23 DEF t

-----------------------------------------------------------------------------
(* Several messages of one item.                                           *)

Handling(f, s, ms) ==
  f = [n \in 0..Len(ms) |-> IF n = 0 THEN s ELSE Handle(f[n - 1], ms[n])]

LEMMA HandleAllRuns ==
  ASSUME NEW s, NEW ms, Len(ms) \in Nat
  PROVE  \E g : Runs(g, "handle", s, Len(ms), ms) /\ HandleAll(s, ms) = g[Len(ms)]
<1>1. PICK g : Runs(g, "handle", s, Len(ms), ms)
  BY RunsExist
<1>2. \A j \in 0 .. Len(ms) : j = 0 \/ j \in 1 .. Len(ms)
  OBVIOUS
<1>3. \A j \in 0 .. Len(ms) : g[j] = IF j = 0 THEN s ELSE Handle(g[j - 1], ms[j])
  BY <1>1, <1>2 DEF Runs, StepOf
<1>4. g = [j \in 0 .. Len(ms) |-> g[j]]
  BY <1>1 DEF Runs
<1>5. Handling(g, s, ms)
  BY <1>3, <1>4 DEF Handling
<1>6. PICK f : f = CHOOSE h : Handling(h, s, ms)
  OBVIOUS
<1>7. Handling(f, s, ms)
  BY <1>5, <1>6
<1>8. HandleAll(s, ms) = f[Len(ms)]
  BY <1>6 DEF HandleAll, Handling
<1>9. \A j \in 0 .. Len(ms) : f[j] = IF j = 0 THEN s ELSE Handle(f[j - 1], ms[j])
  BY <1>7 DEF Handling
<1>10. f = [j \in 0 .. Len(ms) |-> f[j]]
  BY <1>7 DEF Handling
<1>11. Runs(f, "handle", s, Len(ms), ms)
  <2>1. 0 \in 0 .. Len(ms) /\ \A j \in 1 .. Len(ms) : j \in 0 .. Len(ms) /\ j # 0
    OBVIOUS
  <2> QED  BY <1>9, <1>10, <2>1 DEF Runs, StepOf
<1> QED  BY <1>8, <1>11

LEMMA ContinuesTrans ==
  ASSUME NEW s, NEW t, NEW u, IsList(s.log), Continues(s, t), Continues(t, u)
  PROVE  Continues(s, u)
<1>1. /\ Grows(s.log, u.log)
      /\ \A n \in New(s.log, u.log) : n \in New(s.log, t.log) \/ n \in New(t.log, u.log)
      /\ \A n \in New(s.log, t.log) : u.log[n] = t.log[n]
  BY GrowsTrans DEF Continues
<1> QED  BY <1>1 DEF Continues

\* The messages of a list are at their positions.
LEMMA HandleAllFits ==
  ASSUME NEW s, NEW n \in Nat, Fit(s, n, 0), NEW ms, Len(ms) \in Nat,
         \A i \in 1 .. Len(ms) : ms[i].index = i - 1 /\ Proper(ms[i], n, i - 1)
  PROVE  Fit(HandleAll(s, ms), n, Len(ms)) /\ Continues(s, HandleAll(s, ms))
<1>1. PICK g : Runs(g, "handle", s, Len(ms), ms) /\ HandleAll(s, ms) = g[Len(ms)]
  BY HandleAllRuns
<1>2. g[0] = s /\ \A i \in 1 .. Len(ms) : g[i] = Handle(g[i - 1], ms[i])
  BY <1>1 DEF Runs, StepOf
<1> DEFINE T == {k \in 0 .. Len(ms) : ~(Fit(g[k], n, k) /\ Continues(s, g[k]))}
<1>3. IsList(s.log)
  BY DEF Fit, IsStream
<1>4. 0 \notin T
  BY <1>2, <1>3, GrowsSame DEF Continues
<1>5. ASSUME NEW k \in 1 .. Len(ms), k - 1 \notin T PROVE k \notin T
  <2>1. k - 1 \in 0 .. Len(ms) /\ k - 1 \in Nat /\ k - 1 + 1 = k
    OBVIOUS
  <2>2. Fit(g[k - 1], n, k - 1) /\ Continues(s, g[k - 1])
    BY <1>5, <2>1
  <2>3. Fit(Handle(g[k - 1], ms[k]), n, ms[k].index + 1) /\ Continues(g[k - 1], Handle(g[k - 1], ms[k]))
    BY <2>1, <2>2, HandleFit
  <2>4. ms[k].index + 1 = k
    OBVIOUS
  <2>5. Fit(g[k], n, k) /\ Continues(g[k - 1], g[k])
    BY <1>2, <2>3, <2>4
  <2>6. Continues(s, g[k])
    BY <1>3, <2>2, <2>5, ContinuesTrans
  <2> QED  BY <2>5, <2>6
<1>6. T = {}
  <2>1. T \in SUBSET (0 .. Len(ms))
    OBVIOUS
  <2> HIDE DEF T
  <2> QED  BY <1>4, <1>5, <2>1, NoCounterexample
<1>7. Len(ms) \in 0 .. Len(ms)
  OBVIOUS
<1> QED  BY <1>1, <1>6, <1>7

\* The next item of the graph.
LEMMA FitNext ==
  ASSUME NEW s, NEW n \in Nat, NEW b \in Nat, Fit(s, n, b)
  PROVE  Fit(s, n + 1, 0)
<1>1. ASSUME NEW k, NEW of, Owned(k, of, n, b) PROVE Owned(k, of, n + 1, 0)
  <2>1. ASSUME NEW j \in Nat, j < n \/ j = n PROVE j < n + 1
    BY <2>1
  <2> QED  BY <1>1, <2>1 DEF Owned
<1> QED  BY <1>1 DEF Fit, Keyed

-----------------------------------------------------------------------------
(* The messages the graph hands over.                                      *)

LEMMA StreamedIsProper ==
  ASSUME NEW c \in Calls, NEW content, NEW whole, ~Nameless(Streamed(c, content, whole)), graph.items \in Nat
  PROVE  Proper(Streamed(c, content, whole), graph.items, 0)
<1> DEFINE m == Streamed(c, content, whole)
<1>1. /\ m.of = c /\ m.index = 0 /\ m.ns = scene.ns[c]
      /\ m.observed = Observed(c) /\ m.given = Given(c)
      /\ m.run = (IF scene.events THEN <<"call", c>> ELSE None)
      /\ m.metadata = (IF scene.source[c] = "adapter" THEN <<"call", c>> ELSE None)
      /\ m.id = (IF scene.source[c] = "observed" /\ ~scene.events THEN <<"stamp", c, graph.items>> ELSE Given(c))
  BY DEF Streamed, Spoken
<1> HIDE DEF m
<1>2. Invocation(m) # None
  BY DEF Nameless, m
<1>3. None # <<"call", c>> /\ None # <<"provider", c>>
  BY DEF None
<1> HIDE DEF None
<1>4. ~Observed(c) => m.id = None /\ Given(c) = None
  BY <1>1 DEF Observed, Given
<1>5. Invocation(m) = <<"call", c>>
  BY <1>1, <1>2, <1>3, <1>4 DEF Invocation
<1>6. ProviderId(m) = Given(c)
  BY <1>1, <1>4 DEF ProviderId
<1>7. Given(c) \in {None, <<"provider", c>>}
  BY DEF Given
<1>8. KeepsId(c) => Given(c) = IdOf(c) \/ (Given(c) = None /\ <<"derived", Key(m)>> = IdOf(c))
  <2>1. c \notin Tools
    BY CallsAssumption
  <2> QED  BY <1>1, <1>5, <2>1 DEF Given, IdOf, Key
<1>9. Proper(m, graph.items, 0)
  BY <1>1, <1>5, <1>6, <1>7, <1>8 DEF Proper
<1> QED  BY <1>9 DEF m

LEMMA InOutputIsProper ==
  ASSUME NEW c \in Calls, NEW i \in Nat \ {0}, scene.events, graph.items \in Nat
  PROVE  InOutput(c, i).index = i - 1 /\ Proper(InOutput(c, i), graph.items, i - 1)
<1> DEFINE m == InOutput(c, i)
<1>1. /\ m.of = c /\ m.index = i - 1
      /\ m.observed = (Observed(c) /\ c \notin graph.taken) /\ m.given = Given(c)
      /\ m.run = <<"chain", graph.items>>
      /\ m.id = (IF scene.source[c] = "observed" /\ ~scene.events THEN <<"stamp", c, graph.items>> ELSE Given(c))
  BY DEF InOutput, Spoken
<1> HIDE DEF m
<1>2. <<"chain", graph.items>> # None
  BY DEF None
<1> HIDE DEF None
<1>3. Invocation(m) = <<"call", c>> \/ Invocation(m) = <<"chain", graph.items>>
  BY <1>1, <1>2 DEF Invocation
<1>4. ProviderId(m) = Given(c)
  BY <1>1 DEF ProviderId
<1>5. Given(c) \in {None, <<"provider", c>>}
  BY DEF Given
<1>6. KeepsId(c) => Given(c) = IdOf(c)
  <2>1. c \notin Tools
    BY CallsAssumption
  <2> QED  BY <2>1 DEF Given, IdOf, KeepsId
<1>7. i - 1 \in Nat /\ i - 1 <= i - 1
  OBVIOUS
<1>8. Proper(m, graph.items, i - 1)
  BY <1>1, <1>3, <1>4, <1>5, <1>6, <1>7 DEF Proper
<1> QED  BY <1>1, <1>8 DEF m

LEMMA ReturnedIsProper ==
  ASSUME NEW t \in Tools, NEW i \in Nat, graph.items \in Nat, NEW run,
         run = <<"chain", graph.items>> \/ run = <<"update", graph.items>> \/ (run = None /\ ~scene.events)
  PROVE  Returned(t, run, i).index = i /\ Proper(Returned(t, run, i), graph.items, i)
<1> DEFINE m == Returned(t, run, i)
<1>1. /\ m.of = t /\ m.index = i /\ m.observed = FALSE /\ m.run = run /\ m.metadata = None
      /\ m.id = (IF scene.named \/ ~scene.events THEN <<"own", t>> ELSE None)
  BY DEF Returned
<1> HIDE DEF m
<1>2. <<"chain", graph.items>> # None /\ <<"update", graph.items>> # None /\ <<"own", t>> # None
  BY DEF None
<1> HIDE DEF None
<1>3. Invocation(m) = <<"chain", graph.items>> \/ Invocation(m) = <<"update", graph.items>>
      \/ Invocation(m) = <<"id", <<"own", t>>>>
  BY <1>1, <1>2 DEF Invocation
<1>4. ProviderId(m) = m.id
  BY <1>1 DEF ProviderId
<1>5. KeepsId(t) => m.id = IdOf(t)
  BY <1>1 DEF IdOf, KeepsId
<1>6. i <= i
  OBVIOUS
<1>7. Proper(m, graph.items, i)
  BY <1>1, <1>3, <1>4, <1>5, <1>6 DEF Proper
<1> QED  BY <1>1, <1>7 DEF m

-----------------------------------------------------------------------------
(* What is told beside the messages, and what a fitting stream amounts to. *)

\* Events that are not of messages: values, updates, interrupts.
LEMMA TellFits ==
  ASSUME NEW s, NEW n \in Nat, NEW b \in Nat, Fit(s, n, b), NEW events, IsList(events),
         \A i \in 1 .. Len(events) : events[i].event \notin SdkEvents \cup ProtocolEvents
  PROVE  /\ Fit(Tell(s, events), n, b)
         /\ Tell(s, events).log = s.log \o events
         /\ Grows(s.log, Tell(s, events).log)
         /\ \A k \in New(s.log, Tell(s, events).log) :
              k - Len(s.log) \in 1 .. Len(events) /\ Tell(s, events).log[k] = events[k - Len(s.log)]
<1> DEFINE t == Tell(s, events)
           l == s.log \o events
<1>1. IsStream(s) /\ Messages(s) /\ Logged(s) /\ Heard(s) /\ Keyed(s, n, b) /\ Titled(s) /\ Kept(s)
  BY DEF Fit
<1>2. t = Record(s.identities, s.open, s.parts, s.seen, l)
  BY <1>1, TellIs
<1>3. /\ IsList(l) /\ Grows(s.log, l)
      /\ \A k \in New(s.log, l) : k - Len(s.log) \in 1 .. Len(events) /\ l[k] = events[k - Len(s.log)]
  <2>1. IsList(s.log)
    BY <1>1 DEF IsStream
  <2> QED  BY <2>1, ListConcat
<1>4. l = s.log \o events
  OBVIOUS
<1> HIDE DEF l, t
<1>5. /\ t.identities = s.identities /\ t.open = s.open /\ t.parts = s.parts /\ t.seen = s.seen /\ t.log = l
      /\ t = [identities |-> t.identities, open |-> t.open, parts |-> t.parts, seen |-> t.seen, log |-> t.log]
  BY <1>2 DEF Record
<1>6. IsStream(t)
  BY <1>1, <1>3, <1>5 DEF IsStream
<1>7. \A k \in New(s.log, t.log) : t.log[k].event \notin ProtocolEvents /\ t.log[k].event \notin SdkEvents
  BY <1>3, <1>5
<1>8. Grows(s.log, t.log) /\ \A p \in DOMAIN t.parts : Known(s, t.parts[p].id, t.parts[p].of)
  BY <1>1, <1>3, <1>5 DEF Logged
<1>9. Messages(t) /\ Logged(t)
  BY <1>1, <1>5, <1>6, <1>7, <1>8, Retold
<1>10. Heard(t) /\ Keyed(t, n, b) /\ Titled(t) /\ Kept(t)
  BY <1>1, <1>5 DEF Heard, Keyed, Titled, Kept
<1>11. Fit(t, n, b)
  BY <1>6, <1>9, <1>10 DEF Fit
<1> QED  BY <1>3, <1>4, <1>5, <1>8, <1>11 DEF t

\* The identities of the messages a log tells of.
LiveIn(l) == {n \in DOMAIN l : l[n].event \in SdkEvents \cup {"message-start"} /\ l[n].id[1] # "transcript"}

Identified(l) ==
  \A m, n \in LiveIn(l) :
    /\ l[m].id = l[n].id => l[m].of = l[n].of
    /\ l[m].of = l[n].of /\ KeepsId(l[m].of) => l[m].id = l[n].id

LEMMA KnownIdentified ==
  ASSUME NEW s, Messages(s), Kept(s), NEW l, \A n \in LiveIn(l) : Known(s, l[n].id, l[n].of)
  PROVE  Identified(l)
<1> SUFFICES ASSUME NEW m \in LiveIn(l), NEW n \in LiveIn(l)
             PROVE  /\ l[m].id = l[n].id => l[m].of = l[n].of
                    /\ l[m].of = l[n].of /\ KeepsId(l[m].of) => l[m].id = l[n].id
  BY DEF Identified
<1>1. PICK i \in DOMAIN s.open : s.open[i].id = l[m].id /\ s.open[i].of = l[m].of
  BY DEF Known
<1>2. PICK j \in DOMAIN s.open : s.open[j].id = l[n].id /\ s.open[j].of = l[n].of
  BY DEF Known
<1>3. l[m].id = l[n].id => i = j
  BY <1>1, <1>2 DEF Messages
<1>4. l[m].of = l[n].of /\ KeepsId(l[m].of) => l[m].id = l[n].id
  BY <1>1, <1>2 DEF Kept
<1> QED  BY <1>1, <1>2, <1>3, <1>4

\* The blocks of the messages a log tells of.
Balanced(l) == \A id \in Ids(l, ProtocolEvents) : Nested(l, id)

LEMMA OpenBalanced ==
  ASSUME NEW s, Messages(s), Logged(s)
  PROVE  Balanced(s.log)
<1> SUFFICES ASSUME NEW n \in DOMAIN s.log, s.log[n].event \in ProtocolEvents
             PROVE  Nested(s.log, s.log[n].id)
  BY DEF Balanced, Ids
<1>1. PICK i \in DOMAIN s.open : s.open[i].id = s.log[n].id
  BY DEF Logged, Known
<1>2. Writer([open |-> s.open[i], log |-> s.log])
  BY DEF Messages
<1> QED  BY <1>1, <1>2 DEF Writer, Begun

\* The types of what execute_run holds.
StreamTyped(s) ==
  /\ Range(s.identities) = s.seen
  /\ \A i \in DOMAIN s.open : s.open[i].id \in s.seen /\ s.open[i].blocks \subseteq {0, 1}
  /\ \A i, j \in DOMAIN s.open : s.open[i].id = s.open[j].id => i = j
  /\ {p.id : p \in Range(s.parts)} \subseteq s.seen

LEMMA FitTyped ==
  ASSUME NEW s, Messages(s), Logged(s), Heard(s)
  PROVE  StreamTyped(s)
<1>1. \A id, of : Known(s, id, of) => id \in s.seen
  BY DEF Known, Heard
<1>2. \A i \in DOMAIN s.open : s.open[i].id \in s.seen /\ s.open[i].blocks \subseteq {0, 1}
  BY DEF Heard, Messages, Writer
<1>3. {p.id : p \in Range(s.parts)} \subseteq s.seen
  BY <1>1 DEF Logged, Range
<1> QED  BY <1>2, <1>3 DEF StreamTyped, Heard, Messages

LEMMA FitHolds ==
  ASSUME NEW s, NEW n, NEW b, Fit(s, n, b)
  PROVE  StreamTyped(s) /\ Identified(s.log) /\ Balanced(s.log)
<1>1. Messages(s) /\ Logged(s) /\ Heard(s) /\ Kept(s)
  BY DEF Fit
<1>2. \A k \in LiveIn(s.log) : Known(s, s.log[k].id, s.log[k].of)
  BY <1>1 DEF LiveIn, Logged, ProtocolEvents
<1> QED  BY <1>1, <1>2, FitTyped, KnownIdentified, OpenBalanced

-----------------------------------------------------------------------------
(* The end of the stream: what was accumulated, and the messages of the    *)
(* result that pair with open ones.                                        *)

\* No open message goes by the name of a transcript.
Plain(s) == \A i \in DOMAIN s.open : s.open[i].id[1] # "transcript"

Ending(s) == IsStream(s) /\ Messages(s) /\ Logged(s) /\ Kept(s) /\ Plain(s)

\* The same identities, with more told of the messages to the clients of the protocol.
Goes(s, t) ==
  /\ t.identities = s.identities /\ t.seen = s.seen /\ t.parts = s.parts
  /\ Grows(s.log, t.log)
  /\ \A n \in New(s.log, t.log) : t.log[n].event \in ProtocolEvents

\* A message told complete.
Conclusion(p) == [event |-> "complete", id |-> p.id, of |-> p.of, content |-> p.content, whole |-> TRUE]

\* The same identities, and every accumulated message is told complete to the clients of the SDK.
Concludes(s, t) ==
  /\ t.identities = s.identities /\ t.seen = s.seen /\ t.parts = s.parts
  /\ Grows(s.log, t.log) /\ Len(t.log) = Len(s.log) + Len(s.parts)
  /\ \A n \in New(s.log, t.log) :
       n - Len(s.log) \in DOMAIN s.parts /\ t.log[n] = Conclusion(s.parts[n - Len(s.log)])

LEMMA ConclusionIs ==
  ASSUME NEW p
  PROVE  /\ Conclusion(p).event = "complete" /\ Conclusion(p).id = p.id /\ Conclusion(p).of = p.of
         /\ Conclusion(p).content = p.content
BY DEF Conclusion

LEMMA ConcludesTold ==
  ASSUME NEW s, NEW t, Concludes(s, t)
  PROVE  Grows(s.log, t.log) /\ \A n \in New(s.log, t.log) : t.log[n].event \in SdkEvents
<1>1. ASSUME NEW n \in New(s.log, t.log) PROVE t.log[n].event = "complete"
  <2>1. t.log[n] = Conclusion(s.parts[n - Len(s.log)])
    BY DEF Concludes
  <2> QED  BY <2>1, ConclusionIs
<1> QED  BY <1>1 DEF Concludes, SdkEvents

LEMMA GoesTrans ==
  ASSUME NEW s, NEW t, NEW u, IsList(s.log), Goes(s, t), Goes(t, u)
  PROVE  Goes(s, u)
<1>1. /\ Grows(s.log, u.log)
      /\ \A n \in New(s.log, u.log) : n \in New(s.log, t.log) \/ n \in New(t.log, u.log)
      /\ \A n \in New(s.log, t.log) : u.log[n] = t.log[n]
  BY GrowsTrans DEF Goes
<1> QED  BY <1>1 DEF Goes

LEMMA FitEnding == ASSUME NEW s, NEW n, NEW b, Fit(s, n, b) PROVE Ending(s)
<1>1. \A x, k : <<"provider", x>>[1] # "transcript" /\ <<"own", x>>[1] # "transcript" /\ <<"derived", k>>[1] # "transcript"
  OBVIOUS
<1>2. Plain(s)
  BY <1>1 DEF Fit, Titled, Plain
<1> QED  BY <1>2 DEF Ending, Fit

LEMMA CompleteAllEnding ==
  ASSUME NEW s, Ending(s)
  PROVE  Ending(CompleteAll(s)) /\ Concludes(s, CompleteAll(s)) /\ CompleteAll(s).open = s.open
<1> DEFINE events == [i \in DOMAIN s.parts |->
     [event |-> "complete", id |-> s.parts[i].id, of |-> s.parts[i].of, content |-> s.parts[i].content,
      whole |-> TRUE]]
           t == CompleteAll(s)
           l == s.log \o events
<1>1. IsStream(s) /\ Messages(s) /\ Logged(s)
  BY DEF Ending
<1>2. \A i \in DOMAIN s.parts :
        /\ events[i] = Conclusion(s.parts[i])
        /\ events[i].event = "complete" /\ events[i].id = s.parts[i].id /\ events[i].of = s.parts[i].of
  BY DEF Conclusion
<1>3. DOMAIN s.parts = 1 .. Len(s.parts) /\ Len(s.parts) \in Nat
  BY <1>1, ListIs DEF IsStream
<1>4. IsList(events) /\ Len(events) = Len(s.parts)
  <2>1. DOMAIN events = 1 .. Len(s.parts)
    BY <1>3
  <2>2. PICK R : R = {events[i] : i \in DOMAIN s.parts}
    OBVIOUS
  <2>3. events \in [1 .. Len(s.parts) -> R]
    BY <1>3, <2>2
  <2>4. events \in Seq(R)
    BY <1>3, <2>3
  <2>5. IsList(events)
    BY <2>4 DEF IsList
  <2> QED  BY <1>3, <2>1, <2>4, <2>5
<1>5. t = Tell(s, events)
  BY DEF CompleteAll
<1>6. t = Record(s.identities, s.open, s.parts, s.seen, l)
  BY <1>1, <1>5, TellIs
<1> HIDE DEF events, t
<1>7. /\ IsList(l) /\ Grows(s.log, l) /\ Len(l) = Len(s.log) + Len(events)
      /\ \A n \in New(s.log, l) : n - Len(s.log) \in 1 .. Len(events) /\ l[n] = events[n - Len(s.log)]
  <2>1. IsList(s.log)
    BY <1>1 DEF IsStream
  <2> QED  BY <2>1, <1>4, ListConcat
<1> HIDE DEF l
<1>8. /\ t.identities = s.identities /\ t.open = s.open /\ t.parts = s.parts /\ t.seen = s.seen /\ t.log = l
      /\ t = [identities |-> t.identities, open |-> t.open, parts |-> t.parts, seen |-> t.seen, log |-> t.log]
  BY <1>6 DEF Record
<1>9. IsStream(t)
  BY <1>1, <1>7, <1>8 DEF IsStream
<1>10. \A p \in DOMAIN s.parts : Known(s, s.parts[p].id, s.parts[p].of)
  BY <1>1 DEF Logged
<1>11. ASSUME NEW n \in New(s.log, t.log)
       PROVE  t.log[n].event = "complete" /\ Known(s, t.log[n].id, t.log[n].of)
  <2>1. n - Len(s.log) \in DOMAIN s.parts /\ t.log[n] = events[n - Len(s.log)]
    BY <1>3, <1>4, <1>7, <1>8
  <2> QED  BY <1>2, <1>10, <2>1
<1>12. Messages(t) /\ Logged(t)
  <2>1. "complete" \in SdkEvents /\ "complete" \notin ProtocolEvents
    BY DEF SdkEvents, ProtocolEvents
  <2>2. \A n \in New(s.log, t.log) :
           /\ t.log[n].event \notin ProtocolEvents
           /\ t.log[n].event \in SdkEvents => Known(s, t.log[n].id, t.log[n].of)
    BY <1>11, <2>1
  <2>3. Grows(s.log, t.log)
    BY <1>7, <1>8
  <2> QED  BY <1>1, <1>8, <1>9, <1>10, <2>2, <2>3, Retold
<1>13. Ending(t)
  BY <1>8, <1>9, <1>12 DEF Ending, Kept, Plain
<1>14. Concludes(s, t)
  <2>1. ASSUME NEW n \in New(s.log, t.log)
        PROVE  n - Len(s.log) \in DOMAIN s.parts /\ t.log[n] = Conclusion(s.parts[n - Len(s.log)])
    <3>1. n - Len(s.log) \in DOMAIN s.parts /\ t.log[n] = events[n - Len(s.log)]
      BY <1>3, <1>4, <1>7, <1>8
    <3> QED  BY <1>2, <3>1
  <2> QED  BY <1>4, <1>7, <1>8, <2>1 DEF Concludes
<1> QED  BY <1>8, <1>13, <1>14 DEF t

\* A message of the result completes an open one.
LEMMA CompletedEnding ==
  ASSUME NEW s, Ending(s), NEW at \in DOMAIN s.open, NEW content
  PROVE  /\ Ending(Completed(s, at, content)) /\ Goes(s, Completed(s, at, content))
         /\ DOMAIN s.open \subseteq DOMAIN Completed(s, at, content).open
<1> DEFINE old == [open |-> s.open[at], log |-> s.log]
           m   == s.open[at]
           t   == Completed(s, at, content)
<1>1. IsStream(s) /\ Messages(s) /\ Logged(s) /\ Kept(s) /\ Plain(s)
  BY DEF Ending
<1>2. PICK w : w = PublishBlocks(old, content, TRUE)
  OBVIOUS
<1>3. Advances(old, w)
  <2>1. Writer(old)
    BY <1>1 DEF Messages
  <2> HIDE DEF old
  <2> QED  BY <1>2, <2>1, PublishBlocksAdvances
<1>4. t = Put(s, [s.open EXCEPT ![at] = w.open], w.log)
  BY <1>2 DEF Completed
<1>5. Opened(s, Put(s, [s.open EXCEPT ![at] = w.open], w.log), m.id, m)
  <2>1. s.open[at].id = m.id /\ s.open[at].of = m.of
    OBVIOUS
  <2> HIDE DEF m
  <2> QED  BY <1>1, <1>3, <2>1, OneOpened
<1>6. Opened(s, t, m.id, m)
  BY <1>4, <1>5
<1> HIDE DEF t
<1>7. /\ IsStream(t) /\ Messages(t) /\ Logged(t)
      /\ t.identities = s.identities /\ t.parts = s.parts /\ t.seen = s.seen
      /\ Grows(s.log, t.log)
      /\ DOMAIN s.open \subseteq DOMAIN t.open
      /\ \A n \in New(s.log, t.log) : t.log[n].event \in {"message-start"} \cup BlockEvents
  BY <1>6 DEF Opened
<1>8. \A i \in DOMAIN t.open :
        \E j \in DOMAIN s.open : t.open[i].id = s.open[j].id /\ t.open[i].of = s.open[j].of
  BY <1>6 DEF Opened
<1>9. Kept(t) /\ Plain(t)
  BY <1>1, <1>8 DEF Kept, Plain
<1>10. Goes(s, t)
  BY <1>7 DEF Goes, BlockEvents, ProtocolEvents
<1> QED  BY <1>7, <1>9, <1>10 DEF Ending, t

\* As many of the open messages pair as there are, at most.
LEMMA PairedIs ==
  ASSUME NEW s, IsList(s.open), NEW cs, Len(cs) \in Nat
  PROVE  Paired(s, cs) \in 0 .. Len(cs) /\ Paired(s, cs) <= Len(s.open)
<1> DEFINE Same(n) == /\ n <= Len(s.open) /\ n <= Len(cs)
                      /\ \A k \in 0..(n - 1) : s.open[Len(s.open) - k].role = "ai"
           T == {Len(cs) - n : n \in {k \in 0 .. Len(cs) : Same(k)}}
<1>1. Len(s.open) \in Nat
  BY ListIs
<1>2. 0 \in 0 .. Len(cs) /\ Same(0)
  BY <1>1
<1>3. Len(cs) - 0 \in T
  BY <1>2
<1>4. T \in SUBSET Nat /\ T # {}
  <2>1. \A n \in 0 .. Len(cs) : Len(cs) - n \in Nat
    OBVIOUS
  <2> HIDE DEF Same
  <2> QED  BY <1>3, <2>1
<1>5. PICK x \in T : \A y \in T : x <= y
  <2> HIDE DEF T
  <2> QED  BY <1>4, LeastOf
<1> HIDE DEF Same
<1>6. PICK n \in 0 .. Len(cs) : Same(n) /\ x = Len(cs) - n
  BY <1>5
<1>7. ASSUME NEW k \in (n + 1) .. Len(cs) PROVE ~Same(k)
  <2>1. SUFFICES ASSUME Same(k) PROVE FALSE
    OBVIOUS
  <2>2. k \in 0 .. Len(cs)
    OBVIOUS
  <2>3. Len(cs) - k \in T
    BY <2>1, <2>2
  <2>4. Len(cs) - n <= Len(cs) - k
    BY <1>5, <1>6, <2>3
  <2> QED  BY <2>4
<1>8. Paired(s, cs) = CHOOSE h \in 0..Len(cs) : Same(h) /\ \A k \in (h + 1)..Len(cs) : ~Same(k)
  BY DEF Paired, Same
<1>9. Paired(s, cs) \in 0 .. Len(cs) /\ Same(Paired(s, cs))
  BY <1>6, <1>7, <1>8
<1> QED  BY <1>9 DEF Same

Completing(f, s, cs, n) ==
  f = [k \in 0..n |->
        IF k = 0 THEN s
        ELSE Completed(f[k - 1], Len(s.open) - n + k, graph.said[cs[Len(cs) - n + k]])]

LEMMA MergePairs ==
  ASSUME NEW s, Ending(s), NEW cs, Len(cs) \in Nat, Paired(s, cs) > 0
  PROVE  Ending(Merge(s, cs)) /\ Goes(s, Merge(s, cs))
<1> DEFINE par == [from |-> Len(s.open) - Paired(s, cs), cs |-> cs, skip |-> Len(cs) - Paired(s, cs)]
<1>1. IsList(s.open) /\ IsList(s.log)
  BY DEF Ending, IsStream
<1>2. Paired(s, cs) \in 0 .. Len(cs) /\ Paired(s, cs) <= Len(s.open)
  BY <1>1, PairedIs
<1>3. PICK n : n = Paired(s, cs)
  OBVIOUS
<1>4. n \in Nat /\ n <= Len(s.open) /\ n > 0 /\ Len(s.open) \in Nat /\ DOMAIN s.open = 1 .. Len(s.open)
  BY <1>1, <1>2, <1>3, ListIs
<1>5. par.from = Len(s.open) - n /\ par.cs = cs /\ par.skip = Len(cs) - n
  BY <1>3
<1> HIDE DEF par
<1>6. PICK g : Runs(g, "complete", s, n, par)
  BY <1>4, RunsExist
<1>7. \A j \in 0 .. n : j = 0 \/ j \in 1 .. n
  BY <1>4
<1>8. \A k \in 0 .. n : g[k] = IF k = 0 THEN s
                               ELSE Completed(g[k - 1], Len(s.open) - n + k, graph.said[cs[Len(cs) - n + k]])
  BY <1>5, <1>6, <1>7 DEF Runs, StepOf
<1>9. g = [k \in 0 .. n |-> g[k]]
  BY <1>6 DEF Runs
<1>10. Completing(g, s, cs, n)
  BY <1>8, <1>9 DEF Completing
<1>11. PICK f : f = CHOOSE h : Completing(h, s, cs, n)
  OBVIOUS
<1>12. Completing(f, s, cs, n)
  BY <1>10, <1>11
<1>13. Merge(s, cs) = f[n]
  BY <1>3, <1>4, <1>11 DEF Merge, Completing
<1>14. \A k \in 0 .. n : f[k] = IF k = 0 THEN s
                                ELSE Completed(f[k - 1], Len(s.open) - n + k, graph.said[cs[Len(cs) - n + k]])
  BY <1>12 DEF Completing
<1> DEFINE T == {k \in 0 .. n : ~(Ending(f[k]) /\ Goes(s, f[k]) /\ DOMAIN s.open \subseteq DOMAIN f[k].open)}
<1>15. 0 \notin T
  <2>1. f[0] = s
    BY <1>4, <1>14
  <2>2. Goes(s, s)
    BY <1>1, GrowsSame DEF Goes
  <2> QED  BY <2>1, <2>2
<1>16. ASSUME NEW k \in 1 .. n, k - 1 \notin T PROVE k \notin T
  <2>1. k - 1 \in 0 .. n /\ k \in 0 .. n /\ k # 0
    BY <1>4
  <2>2. Ending(f[k - 1]) /\ Goes(s, f[k - 1]) /\ DOMAIN s.open \subseteq DOMAIN f[k - 1].open
    BY <1>16, <2>1
  <2>3. Len(s.open) - n + k \in 1 .. Len(s.open)
    BY <1>4
  <2>4. f[k] = Completed(f[k - 1], Len(s.open) - n + k, graph.said[cs[Len(cs) - n + k]])
    BY <1>14, <2>1
  <2>5. PICK at, content : at = Len(s.open) - n + k /\ content = graph.said[cs[Len(cs) - n + k]]
    OBVIOUS
  <2>6. at \in DOMAIN f[k - 1].open
    BY <1>4, <2>2, <2>3, <2>5
  <2>7. /\ Ending(f[k]) /\ Goes(f[k - 1], f[k])
        /\ DOMAIN f[k - 1].open \subseteq DOMAIN f[k].open
    BY <2>2, <2>4, <2>5, <2>6, CompletedEnding
  <2>8. Goes(s, f[k])
    BY <1>1, <2>2, <2>7, GoesTrans
  <2> QED  BY <2>2, <2>7, <2>8
<1>17. T = {}
  <2>1. T \in SUBSET (0 .. n)
    OBVIOUS
  <2> HIDE DEF T
  <2> QED  BY <1>4, <1>15, <1>16, <2>1, NoCounterexample
<1>18. n \in 0 .. n
  BY <1>4
<1> QED  BY <1>13, <1>17, <1>18

-----------------------------------------------------------------------------
(* The messages of a result of which none was live, each published whole.  *)

\* m goes on from l with entries of the protocol about one message.
Only(l, m, id) ==
  /\ Grows(l, m)
  /\ \A n \in New(l, m) : m[n].event \in ProtocolEvents /\ m[n].id = id

LEMMA OnlyTrans ==
  ASSUME NEW l, NEW m, NEW k, NEW id, IsList(l), Only(l, m, id), Only(m, k, id)
  PROVE  Only(l, k, id)
<1>1. /\ Grows(l, k)
      /\ \A n \in New(l, k) : n \in New(l, m) \/ n \in New(m, k)
      /\ \A n \in New(l, m) : k[n] = m[n]
  BY GrowsTrans DEF Only
<1> QED  BY <1>1 DEF Only

LEMMA OnlyNext ==
  ASSUME NEW l, IsList(l), NEW e, e.event \in ProtocolEvents
  PROVE  IsList(Append(l, e)) /\ Only(l, Append(l, e), e.id)
<1>1. /\ IsList(Append(l, e)) /\ Grows(l, Append(l, e))
      /\ Append(l, e)[Len(l) + 1] = e /\ New(l, Append(l, e)) = {Len(l) + 1}
  BY ListAppend
<1> QED  BY <1>1 DEF Only

LEMMA OneMore == ASSUME NEW l, IsList(l), NEW e PROVE l \o <<e>> = Append(l, e)
<1>1. PICK S : l \in Seq(S)
  BY DEF IsList
<1>2. PICK R : R = S \cup {e}
  OBVIOUS
<1>3. l \in Seq(R) /\ e \in R
  <2>1. S \subseteq R /\ e \in R
    BY <1>2
  <2> QED  BY <1>1, <2>1
<1>4. <<e>> \in Seq(R) /\ Len(<<e>>) = 1 /\ <<e>>[1] = e
  BY <1>3
<1>5. l \o <<e>> \in Seq(R) /\ Len(l \o <<e>>) = Len(l) + 1
  BY <1>3, <1>4
<1>6. Append(l, e) \in Seq(R) /\ Len(Append(l, e)) = Len(l) + 1
  BY <1>3
<1>7. ASSUME NEW i \in 1 .. Len(l) + 1 PROVE (l \o <<e>>)[i] = Append(l, e)[i]
  BY <1>3, <1>4
<1> QED  BY <1>3, <1>5, <1>6, <1>7, SeqEqual

LEMMA TwoMore == ASSUME NEW l, IsList(l), NEW e, NEW f PROVE l \o <<e, f>> = Append(Append(l, e), f)
<1>1. PICK S : l \in Seq(S)
  BY DEF IsList
<1>2. PICK R : R = S \cup {e, f}
  OBVIOUS
<1>3. l \in Seq(R) /\ e \in R /\ f \in R
  <2>1. S \subseteq R /\ e \in R /\ f \in R
    BY <1>2
  <2> QED  BY <1>1, <2>1
<1>4. <<e, f>> \in Seq(R) /\ Len(<<e, f>>) = 2 /\ <<e, f>>[1] = e /\ <<e, f>>[2] = f
  BY <1>3
<1>5. l \o <<e, f>> \in Seq(R) /\ Len(l \o <<e, f>>) = Len(l) + 2
  BY <1>3, <1>4
<1>6. Append(l, e) \in Seq(R) /\ Len(Append(l, e)) = Len(l) + 1
  BY <1>3
<1>7. Append(Append(l, e), f) \in Seq(R) /\ Len(Append(Append(l, e), f)) = Len(l) + 2
  BY <1>3, <1>6
<1>8. ASSUME NEW i \in 1 .. Len(l) + 2 PROVE (l \o <<e, f>>)[i] = Append(Append(l, e), f)[i]
  <2>1. Len(l) \in Nat
    BY <1>3
  <2>2. CASE i \in 1 .. Len(l)
    BY <1>3, <1>4, <1>6, <2>1, <2>2
  <2>3. CASE i = Len(l) + 1
    BY <1>3, <1>4, <1>6, <2>1, <2>3
  <2>4. CASE i = Len(l) + 2
    BY <1>3, <1>4, <1>6, <2>1, <2>4
  <2> QED  BY <2>1, <2>2, <2>3, <2>4
<1> QED  BY <1>5, <1>7, <1>8, SeqEqual

\* A block of a transcript starts and finishes.
LEMMA BlockBoth ==
  ASSUME NEW l, IsList(l), NEW o, NEW i \in {0, 1}, Begun(l, o.id, {})
  PROVE  LET m == l \o <<BlockEntry("block-start", o, i), BlockEntry("block-finish", o, i)>>
         IN  IsList(m) /\ Only(l, m, o.id) /\ Begun(m, o.id, {})
<1> DEFINE e == BlockEntry("block-start", o, i)
           f == BlockEntry("block-finish", o, i)
           k == Append(l, e)
           m == Append(k, f)
<1>1. /\ e.event = "block-start" /\ e.id = o.id /\ e.index = i
      /\ f.event = "block-finish" /\ f.id = o.id /\ f.index = i
  BY DEF BlockEntry
<1>2. l \o <<e, f>> = m
  BY TwoMore
<1> HIDE DEF e, f, k
<1>3. e.event \in ProtocolEvents /\ f.event \in ProtocolEvents
  BY <1>1 DEF ProtocolEvents
<1>4. IsList(k) /\ Only(l, k, o.id)
  <2>1. IsList(Append(l, e)) /\ Only(l, Append(l, e), e.id)
    BY <1>3, OnlyNext
  <2> QED  BY <1>1, <2>1 DEF k
<1>5. IsList(m) /\ Only(k, m, o.id)
  <2>1. IsList(Append(k, f)) /\ Only(k, Append(k, f), f.id)
    BY <1>3, <1>4, OnlyNext
  <2> QED  BY <1>1, <2>1
<1>6. Begun(k, o.id, {i})
  <2>1. Begun(Append(l, e), o.id, IF e.event = "block-start" THEN {} \cup {e.index}
                                 ELSE IF e.event = "block-finish" THEN {} \ {e.index} ELSE {})
    BY <1>1, BlockNext
  <2>2. {} \cup {e.index} = {i}
    BY <1>1
  <2> QED  BY <1>1, <2>1, <2>2 DEF k
<1>7. Begun(m, o.id, {})
  <2>1. f.index \in {i}
    BY <1>1
  <2>2. Begun(Append(k, f), o.id, IF f.event = "block-start" THEN {i} \cup {f.index}
                                 ELSE IF f.event = "block-finish" THEN {i} \ {f.index} ELSE {i})
    BY <1>1, <1>4, <1>6, <2>1, BlockNext
  <2>3. {i} \ {f.index} = {}
    BY <1>1
  <2> QED  BY <1>1, <2>2, <2>3
<1>8. Only(l, m, o.id)
  BY <1>4, <1>5, OnlyTrans
<1> QED  BY <1>2, <1>5, <1>7, <1>8 DEF e, f

\* A transcript starts, tells its blocks and finishes, under an id nobody heard of.
LEMMA TranscriptEnds ==
  ASSUME NEW l, IsList(l), NEW c, NEW nth, Unheard(l, <<"transcript", nth>>)
  PROVE  /\ Only(l, Transcript(l, c, nth), <<"transcript", nth>>)
         /\ Ended(Transcript(l, c, nth), <<"transcript", nth>>)
<1> DEFINE o      == [id |-> <<"transcript", nth>>, of |-> c]
           e      == Entry("message-start", o)
           Block  == <<BlockEntry("block-start", o, 0), BlockEntry("block-finish", o, 0)>>
           Second == <<BlockEntry("block-start", o, 1), BlockEntry("block-finish", o, 1)>>
           blocks == Len(Blocks(graph.said[c]))
           l1 == l \o <<e>>
           l2 == l1 \o (IF blocks > 0 THEN Block ELSE <<>>)
           l3 == l2 \o (IF blocks > 1 THEN Second ELSE <<>>)
           l4 == l3 \o <<Finished(o)>>
<1>1. Transcript(l, c, nth) = l4
  BY DEF Transcript
<1>2. PICK id : id = <<"transcript", nth>>
  OBVIOUS
<1>3. o.id = id
  BY <1>2
<1>4. e.event = "message-start" /\ e.id = id /\ Finished(o).event = "message-finish" /\ Finished(o).id = id
  BY <1>3 DEF Entry, Finished
<1>5. Unheard(l, id)
  BY <1>2
<1> HIDE DEF o, e, blocks
<1>6. IsList(l1) /\ Only(l, l1, id) /\ Begun(l1, id, {})
  <2>1. l1 = Append(l, e)
    BY OneMore
  <2>2. e.event \in ProtocolEvents
    BY <1>4 DEF ProtocolEvents
  <2>3. IsList(Append(l, e)) /\ Only(l, Append(l, e), e.id)
    BY <2>2, OnlyNext
  <2>4. Begun(Append(l, e), id, {})
    BY <1>4, <1>5, StartBegins
  <2> QED  BY <1>4, <2>1, <2>3, <2>4
<1> HIDE DEF l1
<1>7. \A k : IsList(k) => Only(k, k, id) /\ k \o <<>> = k
  <2>1. SUFFICES ASSUME NEW k, IsList(k) PROVE Only(k, k, id) /\ k \o <<>> = k
    OBVIOUS
  <2>2. PICK S : k \in Seq(S)
    BY <2>1 DEF IsList
  <2>3. k \o <<>> = k
    BY <2>2, ConcatEmptySeq
  <2> QED  BY <2>1, <2>3, GrowsSame DEF Only
<1>8. IsList(l2) /\ Only(l1, l2, id) /\ Begun(l2, id, {})
  <2>1. CASE blocks > 0
    <3>1. 0 \in {0, 1}
      OBVIOUS
    <3>2. IsList(l1 \o Block) /\ Only(l1, l1 \o Block, id) /\ Begun(l1 \o Block, id, {})
      BY <1>3, <1>6, <3>1, BlockBoth
    <3> QED  BY <2>1, <3>2
  <2>2. CASE ~(blocks > 0)
    <3>1. l2 = l1
      BY <1>6, <1>7, <2>2
    <3> QED  BY <1>6, <1>7, <3>1
  <2> QED  BY <2>1, <2>2
<1> HIDE DEF l2
<1>9. IsList(l3) /\ Only(l2, l3, id) /\ Begun(l3, id, {})
  <2>1. CASE blocks > 1
    <3>1. 1 \in {0, 1}
      OBVIOUS
    <3>2. IsList(l2 \o Second) /\ Only(l2, l2 \o Second, id) /\ Begun(l2 \o Second, id, {})
      BY <1>3, <1>8, <3>1, BlockBoth
    <3> QED  BY <2>1, <3>2
  <2>2. CASE ~(blocks > 1)
    <3>1. l3 = l2
      BY <1>7, <1>8, <2>2
    <3> QED  BY <1>7, <1>8, <3>1
  <2> QED  BY <2>1, <2>2
<1> HIDE DEF l3
<1>10. Only(l3, l4, id) /\ Ended(l4, id)
  <2>1. l4 = Append(l3, Finished(o))
    BY <1>9, OneMore
  <2>2. Finished(o).event \in ProtocolEvents
    BY <1>4 DEF ProtocolEvents
  <2>3. Only(l3, Append(l3, Finished(o)), Finished(o).id)
    BY <1>9, <2>2, OnlyNext
  <2>4. {} \cap {0, 1} = {}
    OBVIOUS
  <2>5. Ended(Append(l3, Finished(o)), id)
    BY <1>4, <1>9, <2>4, FinishEnds
  <2> QED  BY <1>4, <2>1, <2>3, <2>5
<1>11. Only(l, l4, id)
  <2> HIDE DEF l4
  <2>1. Only(l, l2, id)
    BY <1>6, <1>8, OnlyTrans
  <2>2. Only(l, l3, id)
    BY <1>9, <2>1, OnlyTrans
  <2> QED  BY <1>10, <2>2, OnlyTrans
<1> QED  BY <1>1, <1>2, <1>10, <1>11

\* k transcripts were published after the log of s.
Listing(s, l, k) ==
  /\ Grows(s.log, l)
  /\ \A n \in New(s.log, l) :
       /\ l[n].event \in ProtocolEvents
       /\ Ended(l, l[n].id)
       /\ \E j \in Nat : j < Len(s.open) + k /\ l[n].id = <<"transcript", j>>

LEMMA ListingNext ==
  ASSUME NEW s, Ending(s), NEW l, NEW k \in Nat, Listing(s, l, k), NEW c
  PROVE  Listing(s, Transcript(l, c, Len(s.open) + k), k + 1)
<1>1. IsStream(s) /\ Logged(s) /\ Plain(s)
  BY DEF Ending
<1>2. IsList(l) /\ IsList(s.log) /\ Grows(s.log, l) /\ Len(s.open) \in Nat
  BY <1>1, ListIs DEF Listing, Grows, IsStream
<1>3. PICK nth \in Nat : nth = Len(s.open) + k
  BY <1>2
<1>4. PICK id : id = <<"transcript", nth>>
  OBVIOUS
<1>5. ASSUME NEW j \in Nat, j < nth PROVE <<"transcript", j>> # id
  <2>1. j # nth
    BY <1>5
  <2> QED  BY <1>4, <2>1
<1>6. ASSUME NEW n \in DOMAIN l, l[n].event \in ProtocolEvents PROVE l[n].id # id
  <2>1. CASE n \in New(s.log, l)
    <3>1. PICK j \in Nat : j < Len(s.open) + k /\ l[n].id = <<"transcript", j>>
      BY <2>1 DEF Listing
    <3> QED  BY <1>3, <1>5, <3>1
  <2>2. CASE n \in DOMAIN s.log
    <3>1. l[n] = s.log[n]
      BY <1>2, <2>2, GrowsOver
    <3>2. Known(s, l[n].id, l[n].of)
      BY <1>1, <1>6, <2>2, <3>1 DEF Logged
    <3>3. l[n].id[1] # "transcript"
      BY <1>1, <3>2 DEF Known, Plain
    <3>4. id[1] = "transcript"
      BY <1>4
    <3> QED  BY <3>3, <3>4
  <2> QED  BY <1>2, <2>1, <2>2, GrowsOver
<1>7. Unheard(l, id)
  BY <1>6 DEF Unheard, Told
<1>8. PICK m : m = Transcript(l, c, nth)
  OBVIOUS
<1>9. Only(l, m, id) /\ Ended(m, id)
  BY <1>2, <1>4, <1>7, <1>8, TranscriptEnds
<1>10. /\ Grows(s.log, m)
       /\ \A n \in New(s.log, m) : n \in New(s.log, l) \/ n \in New(l, m)
       /\ \A n \in New(s.log, l) : m[n] = l[n]
  BY <1>2, <1>9, GrowsTrans DEF Only
<1>11. ASSUME NEW n \in New(s.log, m)
       PROVE  /\ m[n].event \in ProtocolEvents
              /\ Ended(m, m[n].id)
              /\ \E j \in Nat : j < Len(s.open) + (k + 1) /\ m[n].id = <<"transcript", j>>
  <2>1. CASE n \in New(s.log, l)
    <3>1. m[n] = l[n]
      BY <1>10, <2>1
    <3>2. l[n].event \in ProtocolEvents /\ Ended(l, l[n].id)
      BY <2>1 DEF Listing
    <3>3. PICK j \in Nat : j < Len(s.open) + k /\ l[n].id = <<"transcript", j>>
      BY <2>1 DEF Listing
    <3>4. l[n].id # id
      BY <1>3, <1>5, <3>3
    <3>5. \A h \in New(l, m) : ~Speaks(m[h], l[n].id)
      BY <1>9, <3>4 DEF Only, Speaks
    <3>6. Ended(m, l[n].id)
      BY <1>2, <1>9, <3>2, <3>5, Quiet DEF Only
    <3>7. j < Len(s.open) + (k + 1)
      BY <1>2, <3>3
    <3> QED  BY <3>1, <3>2, <3>3, <3>6, <3>7
  <2>2. CASE n \in New(l, m)
    <3>1. m[n].event \in ProtocolEvents /\ m[n].id = id
      BY <1>9, <2>2 DEF Only
    <3>2. nth < Len(s.open) + (k + 1)
      <4>1. \A x, y \in Nat : x + y < x + (y + 1)
        OBVIOUS
      <4> QED  BY <1>2, <1>3, <4>1
    <3> QED  BY <1>4, <1>9, <3>1, <3>2
  <2> QED  BY <1>10, <2>1, <2>2
<1>12. Listing(s, m, k + 1)
  BY <1>10, <1>11 DEF Listing
<1> QED  BY <1>3, <1>8, <1>12

Transcribing(f, s, cs) ==
  f = [k \in 0..Len(cs) |-> IF k = 0 THEN s.log ELSE Transcript(f[k - 1], cs[k], Len(s.open) + k - 1)]

LEMMA MergeLists ==
  ASSUME NEW s, Ending(s), NEW cs, Len(cs) \in Nat, ~(Paired(s, cs) > 0)
  PROVE  \E l : Merge(s, cs) = Put(s, s.open, l) /\ Listing(s, l, Len(cs))
<1> DEFINE par == [from |-> Len(s.open), cs |-> cs]
<1>1. IsList(s.open) /\ IsList(s.log)
  BY DEF Ending, IsStream
<1>2. par.from = Len(s.open) /\ par.cs = cs
  OBVIOUS
<1> HIDE DEF par
<1>3. PICK g : Runs(g, "list", s.log, Len(cs), par)
  BY RunsExist
<1>4. \A j \in 0 .. Len(cs) : j = 0 \/ j \in 1 .. Len(cs)
  OBVIOUS
<1>5. \A k \in 0 .. Len(cs) :
        g[k] = IF k = 0 THEN s.log ELSE Transcript(g[k - 1], cs[k], Len(s.open) + k - 1)
  BY <1>2, <1>3, <1>4 DEF Runs, StepOf
<1>6. g = [k \in 0 .. Len(cs) |-> g[k]]
  BY <1>3 DEF Runs
<1>7. Transcribing(g, s, cs)
  BY <1>5, <1>6 DEF Transcribing
<1>8. PICK f : f = CHOOSE h : Transcribing(h, s, cs)
  OBVIOUS
<1>9. Transcribing(f, s, cs)
  BY <1>7, <1>8
<1>10. Merge(s, cs) = Put(s, s.open, f[Len(cs)])
  BY <1>8 DEF Merge, Transcribing
<1>11. \A k \in 0 .. Len(cs) :
        f[k] = IF k = 0 THEN s.log ELSE Transcript(f[k - 1], cs[k], Len(s.open) + k - 1)
  BY <1>9 DEF Transcribing
<1> DEFINE T == {k \in 0 .. Len(cs) : ~Listing(s, f[k], k)}
<1>12. 0 \notin T
  <2>1. f[0] = s.log
    BY <1>11
  <2>2. Grows(s.log, s.log) /\ New(s.log, s.log) = {}
    BY <1>1, GrowsSame
  <2> QED  BY <2>1, <2>2 DEF Listing
<1>13. ASSUME NEW k \in 1 .. Len(cs), k - 1 \notin T PROVE k \notin T
  <2>1. k - 1 \in 0 .. Len(cs) /\ k \in 0 .. Len(cs) /\ k # 0 /\ k - 1 \in Nat /\ k - 1 + 1 = k
    OBVIOUS
  <2>2. Listing(s, f[k - 1], k - 1)
    BY <1>13, <2>1
  <2>3. Len(s.open) + k - 1 = Len(s.open) + (k - 1)
    BY <1>1, ListIs
  <2>4. f[k] = Transcript(f[k - 1], cs[k], Len(s.open) + (k - 1))
    BY <1>11, <2>1, <2>3
  <2>5. PICK l, j, c : l = f[k - 1] /\ j = k - 1 /\ c = cs[k]
    OBVIOUS
  <2>6. Listing(s, Transcript(l, c, Len(s.open) + j), j + 1)
    <3>1. j \in Nat /\ Listing(s, l, j)
      BY <2>1, <2>2, <2>5
    <3> QED  BY <3>1, ListingNext
  <2>7. Listing(s, f[k], k)
    BY <2>1, <2>4, <2>5, <2>6
  <2> QED  BY <2>7
<1>14. T = {}
  <2>1. T \in SUBSET (0 .. Len(cs))
    OBVIOUS
  <2> HIDE DEF T
  <2> QED  BY <1>12, <1>13, <2>1, NoCounterexample
<1>15. Len(cs) \in 0 .. Len(cs)
  OBVIOUS
<1>16. Listing(s, f[Len(cs)], Len(cs))
  BY <1>14, <1>15
<1> QED  BY <1>10, <1>16

-----------------------------------------------------------------------------
(* The open messages are closed, the oldest first.                         *)

\* Of the messages in a list the first k are ended, the others still begun; whatever else the
\* log tells of is ended too.
Cleared(l, list, k) ==
  /\ IsList(l)
  /\ \A i \in (k + 1) .. Len(list) : Writer([open |-> list[i], log |-> l])
  /\ \A n \in DOMAIN l :
       l[n].event \in ProtocolEvents =>
         \/ Ended(l, l[n].id)
         \/ \E i \in (k + 1) .. Len(list) : list[i].id = l[n].id

LEMMA CloseEnds ==
  ASSUME NEW o, NEW l, Writer([open |-> o, log |-> l])
  PROVE  /\ Ended(Close(l, o), o.id) /\ Grows(l, Close(l, o))
         /\ \A n \in New(l, Close(l, o)) :
              Close(l, o)[n].event \in BlockEvents \cup {"message-finish"} /\ Close(l, o)[n].id = o.id
<1> DEFINE w == [open |-> o, log |-> l]
<1>1. w.open = o /\ w.log = l /\ Writer(w)
  OBVIOUS
<1>2. PICK v : v = FinishBefore(w, 2)
  OBVIOUS
<1>3. Close(l, o) = Append(v.log, Finished(o))
  BY <1>2 DEF Close
<1> HIDE DEF w
<1>4. Advances(w, v) /\ v.open.blocks = {}
  <2>1. 2 \in {0, 1, 2}
    OBVIOUS
  <2> QED  BY <1>1, <1>2, <2>1, FinishBeforeAdvances
<1>5. /\ IsList(l) /\ IsList(v.log) /\ Grows(l, v.log) /\ v.open.id = o.id
      /\ Begun(v.log, o.id, {})
      /\ \A n \in New(l, v.log) : v.log[n].event \in BlockEvents /\ v.log[n].id = o.id
  BY <1>1, <1>4 DEF Advances, Writer, Writes
<1>6. PICK e : e = Finished(o)
  OBVIOUS
<1>7. e.event = "message-finish" /\ e.id = o.id
  BY <1>6 DEF Finished, Entry
<1>8. Ended(Append(v.log, e), o.id)
  <2>1. {} \cap {0, 1} = {}
    OBVIOUS
  <2> QED  BY <1>5, <1>7, <2>1, FinishEnds
<1>9. PICK m : m = Append(v.log, e)
  OBVIOUS
<1>10. /\ Grows(v.log, m) /\ m[Len(v.log) + 1] = e /\ New(v.log, m) = {Len(v.log) + 1}
  BY <1>5, <1>9, ListAppend
<1>11. /\ Grows(l, m)
       /\ \A n \in New(l, m) : n \in New(l, v.log) \/ n \in New(v.log, m)
       /\ \A n \in New(l, v.log) : m[n] = v.log[n]
  BY <1>5, <1>10, GrowsTrans
<1>12. \A n \in New(l, m) : m[n].event \in BlockEvents \cup {"message-finish"} /\ m[n].id = o.id
  BY <1>5, <1>7, <1>10, <1>11
<1> QED  BY <1>3, <1>6, <1>8, <1>9, <1>11, <1>12

\* One more is closed.
LEMMA ClearedNext ==
  ASSUME NEW list, Len(list) \in Nat,
         \A i, j \in 1 .. Len(list) : list[i].id = list[j].id => i = j,
         NEW k \in 1 .. Len(list), NEW l, Cleared(l, list, k - 1)
  PROVE  Cleared(Close(l, list[k]), list, k)
<1>1. PICK o, m : o = list[k] /\ m = Close(l, list[k])
  OBVIOUS
<1>2. /\ k \in (k - 1 + 1) .. Len(list)
      /\ \A i \in (k + 1) .. Len(list) : i \in (k - 1 + 1) .. Len(list) /\ i \in 1 .. Len(list) /\ i # k
      /\ \A i \in (k - 1 + 1) .. Len(list) : i = k \/ i \in (k + 1) .. Len(list)
  OBVIOUS
<1>3. Writer([open |-> o, log |-> l])
  BY <1>1, <1>2 DEF Cleared
<1>4. /\ Ended(m, o.id) /\ Grows(l, m)
      /\ \A n \in New(l, m) : m[n].event \in BlockEvents \cup {"message-finish"} /\ m[n].id = o.id
  BY <1>1, <1>3, CloseEnds
<1>5. IsList(l) /\ IsList(m)
  BY <1>4 DEF Cleared, Grows
<1>6. ASSUME NEW i \in (k + 1) .. Len(list) PROVE Writer([open |-> list[i], log |-> m])
  <2>1. Writer([open |-> list[i], log |-> l])
    BY <1>2 DEF Cleared
  <2>2. list[i].id # o.id
    BY <1>1, <1>2
  <2>3. \A n \in New(l, m) : ~Speaks(m[n], list[i].id)
    BY <1>4, <2>2 DEF Speaks
  <2> QED  BY <1>4, <2>1, <2>3, WriterQuiet
<1>7. ASSUME NEW n \in DOMAIN m, m[n].event \in ProtocolEvents, m[n].id # o.id
      PROVE  Ended(m, m[n].id) \/ \E i \in (k + 1) .. Len(list) : list[i].id = m[n].id
  <2>1. n \in DOMAIN l /\ m[n] = l[n]
    BY <1>4, <1>5, <1>7, GrowsOver
  <2>2. \/ Ended(l, m[n].id)
        \/ \E i \in (k - 1 + 1) .. Len(list) : list[i].id = m[n].id
    BY <1>7, <2>1 DEF Cleared
  <2>3. CASE Ended(l, m[n].id)
    <3>1. \A h \in New(l, m) : ~Speaks(m[h], m[n].id)
      BY <1>4, <1>7 DEF Speaks
    <3> QED  BY <1>4, <1>5, <2>3, <3>1, Quiet
  <2>4. CASE \E i \in (k - 1 + 1) .. Len(list) : list[i].id = m[n].id
    BY <1>1, <1>2, <1>7, <2>4
  <2> QED  BY <2>2, <2>3, <2>4
<1>8. Cleared(m, list, k)
  BY <1>4, <1>5, <1>6, <1>7 DEF Cleared
<1> QED  BY <1>1, <1>8

Closing(f, s) ==
  f = [k \in 0..Len(s.open) |-> IF k = 0 THEN s.log ELSE Close(f[k - 1], s.open[k])]

\* After all are closed everything the log told of is ended.
LEMMA AllClosedEnds ==
  ASSUME NEW s, IsStream(s), \A i, j \in DOMAIN s.open : s.open[i].id = s.open[j].id => i = j,
         Cleared(s.log, s.open, 0)
  PROVE  /\ IsList(AllClosed(s)) /\ Grows(s.log, AllClosed(s))
         /\ \A n \in New(s.log, AllClosed(s)) :
              AllClosed(s)[n].event \in BlockEvents \cup {"message-finish"}
         /\ \A n \in DOMAIN AllClosed(s) :
              AllClosed(s)[n].event \in ProtocolEvents => Ended(AllClosed(s), AllClosed(s)[n].id)
<1>1. PICK list : list = s.open
  OBVIOUS
<1>2. Len(list) \in Nat /\ DOMAIN list = 1 .. Len(list) /\ IsList(s.log)
  BY <1>1, ListIs DEF IsStream
<1>3. PICK g : Runs(g, "close", s.log, Len(list), list)
  BY <1>2, RunsExist
<1>4. \A j \in 0 .. Len(list) : j = 0 \/ j \in 1 .. Len(list)
  BY <1>2
<1>5. \A k \in 0 .. Len(list) : g[k] = IF k = 0 THEN s.log ELSE Close(g[k - 1], list[k])
  BY <1>3, <1>4 DEF Runs, StepOf
<1>6. g = [k \in 0 .. Len(list) |-> g[k]]
  BY <1>3 DEF Runs
<1>7. Closing(g, s)
  BY <1>1, <1>5, <1>6 DEF Closing
<1>8. PICK f : f = CHOOSE h : Closing(h, s)
  OBVIOUS
<1>9. Closing(f, s)
  BY <1>7, <1>8
<1>10. AllClosed(s) = f[Len(list)]
  BY <1>1, <1>8 DEF AllClosed, Closing
<1>11. \A k \in 0 .. Len(list) : f[k] = IF k = 0 THEN s.log ELSE Close(f[k - 1], list[k])
  BY <1>1, <1>9 DEF Closing
<1> DEFINE Step(k) == /\ Cleared(f[k], list, k)
                      /\ Grows(s.log, f[k])
                      /\ \A n \in New(s.log, f[k]) : f[k][n].event \in BlockEvents \cup {"message-finish"}
           T == {k \in 0 .. Len(list) : ~Step(k)}
<1>12. 0 \notin T
  <2>1. f[0] = s.log
    BY <1>2, <1>11
  <2>2. Grows(s.log, s.log) /\ New(s.log, s.log) = {}
    BY <1>2, GrowsSame
  <2> QED  BY <1>1, <2>1, <2>2
<1>13. ASSUME NEW k \in 1 .. Len(list), k - 1 \notin T PROVE k \notin T
  <2>1. k - 1 \in 0 .. Len(list) /\ k \in 0 .. Len(list) /\ k # 0
    BY <1>2
  <2>2. Step(k - 1)
    BY <1>13, <2>1
  <2>3. PICK l : l = f[k - 1]
    OBVIOUS
  <2>4. f[k] = Close(l, list[k])
    BY <1>11, <2>1, <2>3
  <2>5. Cleared(l, list, k - 1) /\ Grows(s.log, l)
        /\ \A n \in New(s.log, l) : l[n].event \in BlockEvents \cup {"message-finish"}
    BY <2>2, <2>3
  <2>6. Cleared(Close(l, list[k]), list, k)
    <3>1. \A i, j \in 1 .. Len(list) : list[i].id = list[j].id => i = j
      BY <1>1, <1>2
    <3> QED  BY <1>2, <2>5, <3>1, ClearedNext
  <2>7. PICK m, o : m = f[k] /\ o = list[k]
    OBVIOUS
  <2>8. Writer([open |-> o, log |-> l])
    <3>1. k \in (k - 1 + 1) .. Len(list)
      BY <1>2
    <3> QED  BY <2>5, <2>7, <3>1 DEF Cleared
  <2>9. Grows(l, m) /\ \A n \in New(l, m) : m[n].event \in BlockEvents \cup {"message-finish"}
    BY <2>4, <2>7, <2>8, CloseEnds
  <2>10. /\ Grows(s.log, m)
         /\ \A n \in New(s.log, m) : n \in New(s.log, l) \/ n \in New(l, m)
         /\ \A n \in New(s.log, l) : m[n] = l[n]
    BY <1>2, <2>5, <2>9, GrowsTrans
  <2>11. \A n \in New(s.log, m) : m[n].event \in BlockEvents \cup {"message-finish"}
    BY <2>5, <2>9, <2>10
  <2>12. Step(k)
    BY <2>4, <2>6, <2>7, <2>10, <2>11
  <2> QED  BY <2>12
<1>14. T = {}
  <2>1. T \in SUBSET (0 .. Len(list))
    OBVIOUS
  <2> HIDE DEF T
  <2> QED  BY <1>2, <1>12, <1>13, <2>1, NoCounterexample
<1>15. Len(list) \in 0 .. Len(list)
  BY <1>2
<1>16. PICK m : m = f[Len(list)]
  OBVIOUS
<1>17. /\ Cleared(m, list, Len(list)) /\ Grows(s.log, m)
       /\ \A n \in New(s.log, m) : m[n].event \in BlockEvents \cup {"message-finish"}
  BY <1>14, <1>15, <1>16
<1>18. \A i \in (Len(list) + 1) .. Len(list) : FALSE
  BY <1>2
<1>19. IsList(m) /\ \A n \in DOMAIN m : m[n].event \in ProtocolEvents => Ended(m, m[n].id)
  BY <1>17, <1>18 DEF Cleared
<1> QED  BY <1>10, <1>16, <1>17, <1>19

-----------------------------------------------------------------------------
(* The end of an execution as a whole.                                     *)

\* Whatever the log told of is ended.
AllEnded(l) == \A n \in DOMAIN l : l[n].event \in ProtocolEvents => Ended(l, l[n].id)

\* Events beside the messages change nothing of them.
LEMMA QuietEnd ==
  ASSUME NEW l, IsList(l), NEW m, Grows(l, m),
         \A n \in New(l, m) : m[n].event \notin SdkEvents \cup ProtocolEvents
  PROVE  /\ Identified(l) => Identified(m)
         /\ Balanced(l) => Balanced(m)
         /\ AllEnded(l) => AllEnded(m)
<1>1. /\ \A n \in DOMAIN m : n \in DOMAIN l \/ n \in New(l, m)
      /\ \A n \in DOMAIN l : m[n] = l[n]
      /\ DOMAIN l \subseteq DOMAIN m
  BY GrowsOver
<1>2. \A n \in DOMAIN m : m[n].event \in SdkEvents \cup ProtocolEvents => n \in DOMAIN l /\ m[n] = l[n]
  BY <1>1
<1>3. \A n \in LiveIn(m) : n \in LiveIn(l) /\ m[n] = l[n]
  <2>1. "message-start" \in ProtocolEvents
    BY DEF ProtocolEvents
  <2> QED  BY <1>2, <2>1 DEF LiveIn
<1>4. Identified(l) => Identified(m)
  BY <1>3 DEF Identified
<1>5. \A id : \A n \in New(l, m) : ~Speaks(m[n], id)
  BY DEF Speaks
<1>6. Balanced(l) => Balanced(m)
  <2>1. SUFFICES ASSUME Balanced(l), NEW n \in DOMAIN m, m[n].event \in ProtocolEvents
                 PROVE  Nested(m, m[n].id)
    BY DEF Balanced, Ids
  <2>2. Nested(l, m[n].id)
    BY <1>2, <2>1 DEF Balanced, Ids
  <2> QED  BY <1>5, <2>2, NestedQuiet
<1>7. AllEnded(l) => AllEnded(m)
  <2>1. SUFFICES ASSUME AllEnded(l), NEW n \in DOMAIN m, m[n].event \in ProtocolEvents
                 PROVE  Ended(m, m[n].id)
    BY DEF AllEnded
  <2>2. Ended(l, m[n].id)
    BY <1>2, <2>1 DEF AllEnded
  <2> QED  BY <1>5, <2>2, Quiet
<1> QED  BY <1>4, <1>6, <1>7

LEMMA EndedBalanced == ASSUME NEW l, AllEnded(l) PROVE Balanced(l)
BY DEF AllEnded, Balanced, Ids, Ended

\* After the merge the open messages are those of u, and everything else is ended.
Merged(s, t, u) ==
  /\ IsStream(t) /\ Goes(s, t)
  /\ Messages(u) /\ Kept(u) /\ t.open = u.open
  /\ Cleared(t.log, t.open, 0)
  /\ \A n \in LiveIn(t.log) : Known(u, t.log[n].id, t.log[n].of)

LEMMA MergeEnds ==
  ASSUME NEW s, Ending(s), NEW cs, Len(cs) \in Nat
  PROVE  \E u : Merged(s, Merge(s, cs), u)
<1>1. IsStream(s) /\ Messages(s) /\ Logged(s) /\ Kept(s) /\ Plain(s)
  BY DEF Ending
<1>2. CASE Paired(s, cs) > 0
  <2>1. PICK t : t = Merge(s, cs)
    OBVIOUS
  <2>2. Ending(t) /\ Goes(s, t)
    BY <1>2, <2>1, MergePairs
  <2>3. IsStream(t) /\ Messages(t) /\ Logged(t) /\ Kept(t)
    BY <2>2 DEF Ending
  <2>4. DOMAIN t.open = (0 + 1) .. Len(t.open)
    BY <2>3, ListIs DEF IsStream
  <2>5. Cleared(t.log, t.open, 0)
    BY <2>3, <2>4 DEF Cleared, Messages, Logged, Known, IsStream
  <2>6. \A n \in LiveIn(t.log) : Known(t, t.log[n].id, t.log[n].of)
    BY <2>3 DEF LiveIn, Logged, ProtocolEvents
  <2>7. Merged(s, t, t)
    BY <2>2, <2>3, <2>5, <2>6 DEF Merged
  <2> QED  BY <2>1, <2>7
<1>3. CASE ~(Paired(s, cs) > 0)
  <2>1. PICK l : Merge(s, cs) = Put(s, s.open, l) /\ Listing(s, l, Len(cs))
    BY <1>3, MergeLists
  <2>2. PICK t : t = Merge(s, cs)
    OBVIOUS
  <2>3. t = Record(s.identities, s.open, s.parts, s.seen, l)
    BY <1>1, <2>1, <2>2, PutIs
  <2>4. /\ t.identities = s.identities /\ t.open = s.open /\ t.parts = s.parts /\ t.seen = s.seen /\ t.log = l
        /\ t = [identities |-> t.identities, open |-> t.open, parts |-> t.parts, seen |-> t.seen, log |-> t.log]
    BY <2>3 DEF Record
  <2>5. /\ IsList(s.log) /\ Grows(s.log, l) /\ IsList(l)
        /\ \A n \in New(s.log, l) : l[n].event \in ProtocolEvents /\ Ended(l, l[n].id)
    BY <1>1, <2>1 DEF Listing, Grows, IsStream
  <2>6. \A n \in New(s.log, l) : l[n].id[1] = "transcript"
    <3>1. \A j : <<"transcript", j>>[1] = "transcript"
      OBVIOUS
    <3> QED  BY <2>1, <3>1 DEF Listing
  <2>7. IsStream(t)
    BY <1>1, <2>4, <2>5 DEF IsStream
  <2>8. Goes(s, t)
    BY <2>4, <2>5 DEF Goes
  <2>9. /\ \A n \in DOMAIN l : n \in DOMAIN s.log \/ n \in New(s.log, l)
        /\ \A n \in DOMAIN s.log : l[n] = s.log[n]
    BY <2>5, GrowsOver
  <2>10. DOMAIN s.open = (0 + 1) .. Len(s.open)
    BY <1>1, ListIs DEF IsStream
  <2>11. ASSUME NEW i \in DOMAIN s.open PROVE Writer([open |-> s.open[i], log |-> l])
    <3>1. Writer([open |-> s.open[i], log |-> s.log])
      BY <1>1 DEF Messages
    <3>2. s.open[i].id[1] # "transcript"
      BY <1>1 DEF Plain
    <3>3. \A n \in New(s.log, l) : ~Speaks(l[n], s.open[i].id)
      BY <2>6, <3>2 DEF Speaks
    <3> QED  BY <2>5, <3>1, <3>3, WriterQuiet
  <2>12. ASSUME NEW n \in DOMAIN l, l[n].event \in ProtocolEvents
         PROVE  Ended(l, l[n].id) \/ \E i \in DOMAIN s.open : s.open[i].id = l[n].id
    <3>1. CASE n \in New(s.log, l)
      BY <2>5, <3>1
    <3>2. CASE n \in DOMAIN s.log
      BY <1>1, <2>9, <2>12, <3>2 DEF Logged, Known
    <3> QED  BY <2>9, <3>1, <3>2
  <2>13. Cleared(t.log, t.open, 0)
    BY <2>4, <2>5, <2>10, <2>11, <2>12 DEF Cleared
  <2>14. ASSUME NEW n \in LiveIn(l) PROVE Known(s, l[n].id, l[n].of)
    <3>1. n \in DOMAIN s.log /\ l[n] = s.log[n]
      BY <2>6, <2>9 DEF LiveIn
    <3> QED  BY <1>1, <3>1 DEF LiveIn, Logged, ProtocolEvents
  <2>15. Merged(s, t, s)
    BY <1>1, <2>4, <2>7, <2>8, <2>13, <2>14 DEF Merged
  <2> QED  BY <2>2, <2>15
<1> QED  BY <1>2, <1>3

\* What is left of the messages when they are all finished.
Over(s, t) ==
  /\ IsStream(t) /\ Goes(s, t) /\ t.open = <<>>
  /\ Identified(t.log) /\ AllEnded(t.log)

LEMMA FinishAllEnds ==
  ASSUME NEW s, IsStream(s), NEW t, NEW u, Merged(s, t, u)
  PROVE  Over(s, FinishAll(t))
<1> DEFINE l == AllClosed(t)
           v == FinishAll(t)
<1>1. IsStream(t) /\ IsList(t.log) /\ \A i, j \in DOMAIN t.open : t.open[i].id = t.open[j].id => i = j
  BY DEF Merged, Messages, IsStream
<1>2. /\ IsList(l) /\ Grows(t.log, l)
      /\ \A n \in New(t.log, l) : l[n].event \in BlockEvents \cup {"message-finish"}
      /\ AllEnded(l)
  BY <1>1, AllClosedEnds DEF Merged, AllEnded
<1>3. v = Record(t.identities, <<>>, t.parts, t.seen, l)
  BY <1>1, PutIs DEF FinishAll
<1> HIDE DEF v, l
<1>4. /\ v.identities = t.identities /\ v.open = <<>> /\ v.parts = t.parts /\ v.seen = t.seen /\ v.log = l
      /\ v = [identities |-> v.identities, open |-> v.open, parts |-> v.parts, seen |-> v.seen, log |-> v.log]
  BY <1>3 DEF Record
<1>5. IsStream(v)
  BY <1>1, <1>2, <1>4, ListEmpty DEF IsStream
<1>6. Goes(s, v)
  <2>1. Goes(t, v)
    BY <1>2, <1>4 DEF Goes, BlockEvents, ProtocolEvents
  <2>2. IsList(s.log) /\ Goes(s, t)
    BY DEF IsStream, Merged
  <2> QED  BY <2>1, <2>2, GoesTrans
<1>7. Identified(l)
  <2>1. ASSUME NEW n \in LiveIn(l) PROVE Known(u, l[n].id, l[n].of)
    <3>1. n \notin New(t.log, l)
      <4>1. \A e \in BlockEvents \cup {"message-finish"} : e \notin SdkEvents \cup {"message-start"}
        BY DEF BlockEvents, SdkEvents
      <4> QED  BY <1>2, <4>1 DEF LiveIn
    <3>2. n \in DOMAIN t.log /\ l[n] = t.log[n]
      BY <1>1, <1>2, <3>1, GrowsOver DEF LiveIn
    <3>3. n \in LiveIn(t.log)
      BY <3>2 DEF LiveIn
    <3> QED  BY <3>2, <3>3 DEF Merged
  <2> QED  BY <2>1, KnownIdentified DEF Merged
<1>8. Over(s, v)
  BY <1>2, <1>4, <1>5, <1>6, <1>7 DEF Over
<1> QED  BY <1>8 DEF v

-----------------------------------------------------------------------------
(* What _finalize_stream leaves behind.                                    *)

\* Every message is told complete, then the protocol's are closed.
Finishing(s, l) ==
  \E done : /\ Concludes(s, done) /\ Grows(done.log, l)
            /\ \A n \in New(done.log, l) : l[n].event \in ProtocolEvents

\* More told of messages, then the final state if it was not shown.
EndsAs(s, final, r, l) ==
  /\ IsList(l) /\ Grows(s.log, l)
  /\ \A n \in New(s.log, l) : l[n].event \in SdkEvents \cup ProtocolEvents
  /\ IF final = "none" THEN l = s.log ELSE Finishing(s, l)
  /\ r.log = l \o (IF final \in {"none", "other"} \/ shown THEN <<>> ELSE <<Shown(graph.step)>>)

LEMMA ConcatEmpty == ASSUME NEW l, IsList(l) PROVE l \o <<>> = l
<1>1. PICK S : l \in Seq(S)
  BY DEF IsList
<1> QED  BY <1>1

LEMMA SingleList == ASSUME NEW e PROVE IsList(<<e>>) /\ Len(<<e>>) = 1 /\ <<e>>[1] = e
<1>1. <<e>> \in Seq({e})
  OBVIOUS
<1> QED  BY <1>1 DEF IsList

LEMMA ShownIs == ASSUME NEW n PROVE Shown(n).event = "values" /\ Shown(n).step = n
BY DEF Shown

\* Events beside the messages are told of a stream that is over too.
LEMMA TellEnds ==
  ASSUME NEW s, IsStream(s), StreamTyped(s), Identified(s.log), Balanced(s.log), NEW events, IsList(events),
         \A i \in 1 .. Len(events) : events[i].event \notin SdkEvents \cup ProtocolEvents
  PROVE  LET t == Tell(s, events) IN
         /\ IsStream(t) /\ StreamTyped(t) /\ Identified(t.log) /\ Balanced(t.log)
         /\ t.open = s.open /\ t.log = s.log \o events
         /\ AllEnded(s.log) => AllEnded(t.log)
<1> DEFINE t == Tell(s, events)
           l == s.log \o events
<1>1. t = Record(s.identities, s.open, s.parts, s.seen, l)
  BY TellIs
<1>2. IsList(s.log)
  BY DEF IsStream
<1>3. /\ IsList(l) /\ Grows(s.log, l)
      /\ \A k \in New(s.log, l) : k - Len(s.log) \in 1 .. Len(events) /\ l[k] = events[k - Len(s.log)]
  BY <1>2, ListConcat
<1>4. l = s.log \o events
  OBVIOUS
<1> HIDE DEF t, l
<1>5. /\ t.identities = s.identities /\ t.open = s.open /\ t.parts = s.parts /\ t.seen = s.seen /\ t.log = l
      /\ t = [identities |-> t.identities, open |-> t.open, parts |-> t.parts, seen |-> t.seen, log |-> t.log]
  BY <1>1 DEF Record
<1>6. IsStream(t)
  BY <1>3, <1>5 DEF IsStream
<1>7. \A k \in New(s.log, l) : l[k].event \notin SdkEvents \cup ProtocolEvents
  BY <1>3
<1>8. /\ Identified(l) /\ Balanced(l)
      /\ AllEnded(s.log) => AllEnded(l)
  BY <1>2, <1>3, <1>7, QuietEnd
<1>9. StreamTyped(t)
  BY <1>5 DEF StreamTyped
<1> QED  BY <1>4, <1>5, <1>6, <1>8, <1>9 DEF t

LEMMA FinalizeEnds ==
  ASSUME NEW s, NEW n, NEW b, Fit(s, n, b), NEW cs, Len(cs) \in Nat, NEW final
  PROVE  LET r == Finalize(s, final, cs) IN
         /\ IsStream(r) /\ StreamTyped(r) /\ Identified(r.log) /\ Balanced(r.log)
         /\ final \notin {"none", "other"} => r.open = <<>> /\ AllEnded(r.log)
         /\ \E l : EndsAs(s, final, r, l)
<1>1. IsStream(s) /\ IsList(s.log) /\ StreamTyped(s) /\ Identified(s.log) /\ Balanced(s.log) /\ Ending(s)
  BY FitHolds, FitEnding DEF Fit, IsStream
<1>2. PICK done : done = CompleteAll(s)
  OBVIOUS
<1>3. Ending(done) /\ Concludes(s, done) /\ done.open = s.open
  BY <1>1, <1>2, CompleteAllEnding
<1>4. IsStream(done) /\ Messages(done) /\ Logged(done) /\ Kept(done) /\ IsList(done.log)
  BY <1>3 DEF Ending, IsStream
<1>5. PICK r : r = Finalize(s, final, cs)
  OBVIOUS
<1>6. CASE final = "none"
  <2>1. r = s
    BY <1>5, <1>6 DEF Finalize
  <2>2. Grows(s.log, s.log) /\ New(s.log, s.log) = {}
    BY <1>1, GrowsSame
  <2>3. EndsAs(s, final, r, s.log)
    BY <1>1, <1>6, <2>1, <2>2, ConcatEmpty DEF EndsAs
  <2> QED  BY <1>1, <1>5, <1>6, <2>1, <2>3
<1>7. CASE final = "other"
  <2>1. r = done
    BY <1>2, <1>5, <1>7 DEF Finalize
  <2>2. EndsAs(s, final, r, done.log)
    <3>1. Finishing(s, done.log)
      <4>1. Grows(done.log, done.log) /\ New(done.log, done.log) = {}
        BY <1>4, GrowsSame
      <4> QED  BY <1>3, <4>1 DEF Finishing
    <3>2. \A k \in New(s.log, done.log) : done.log[k].event \in SdkEvents
      BY <1>3, ConcludesTold
    <3>3. r.log = done.log \o <<>>
      BY <1>4, <2>1, ConcatEmpty
    <3>4. Grows(s.log, done.log)
      BY <1>3 DEF Concludes
    <3> QED  BY <1>4, <1>7, <3>1, <3>2, <3>3, <3>4 DEF EndsAs
  <2>3. \A k \in LiveIn(done.log) : Known(done, done.log[k].id, done.log[k].of)
    BY <1>4 DEF LiveIn, Logged, ProtocolEvents
  <2>4. Identified(done.log) /\ Balanced(done.log)
    BY <1>4, <2>3, KnownIdentified, OpenBalanced
  <2>5. StreamTyped(done)
    BY <1>1, <1>3 DEF StreamTyped, Concludes
  <2> QED  BY <1>4, <1>5, <1>7, <2>1, <2>2, <2>4, <2>5
<1>8. CASE final \notin {"none", "other"}
  <2>1. PICK merged : merged = Merge(done, cs)
    OBVIOUS
  <2>2. PICK u : Merged(done, merged, u)
    BY <1>3, <2>1, MergeEnds
  <2>3. PICK closed : closed = FinishAll(merged)
    OBVIOUS
  <2>4. Over(done, closed)
    BY <1>4, <2>2, <2>3, FinishAllEnds
  <2>5. PICK last : last = (IF shown THEN <<>> ELSE <<Shown(graph.step)>>)
    OBVIOUS
  <2>6. r = Tell(closed, last)
    <3>1. final # "none" /\ final # "other"
      BY <1>8
    <3> QED  BY <1>2, <1>5, <2>1, <2>3, <2>5, <3>1 DEF Finalize
  <2>7. IsList(last) /\ \A i \in 1 .. Len(last) : last[i].event \notin SdkEvents \cup ProtocolEvents
    <3>1. CASE shown
      BY <2>5, <3>1, ListEmpty
    <3>2. CASE ~shown
      <4>1. last = <<Shown(graph.step)>>
        BY <2>5, <3>2
      <4>2. IsList(last) /\ Len(last) = 1 /\ last[1] = Shown(graph.step)
        BY <4>1, SingleList
      <4>3. last[1].event \notin SdkEvents \cup ProtocolEvents
        BY <4>2, ShownIs DEF SdkEvents, ProtocolEvents
      <4> QED  BY <4>2, <4>3
    <3> QED  BY <3>1, <3>2
  <2>8. StreamTyped(closed)
    <3>1. closed.identities = s.identities /\ closed.seen = s.seen /\ closed.parts = s.parts
      BY <1>3, <2>4 DEF Concludes, Goes, Over
    <3>2. closed.open = <<>>
      BY <2>4 DEF Over
    <3>3. DOMAIN closed.open = {}
      BY <3>2, ListEmpty
    <3> QED  BY <1>1, <3>1, <3>3 DEF StreamTyped
  <2>9. IsStream(closed) /\ Identified(closed.log) /\ AllEnded(closed.log) /\ closed.open = <<>> /\ IsList(closed.log)
    BY <2>4 DEF Over, IsStream
  <2>10. Balanced(closed.log)
    BY <2>9, EndedBalanced
  <2>11. /\ IsStream(r) /\ StreamTyped(r) /\ Identified(r.log) /\ Balanced(r.log)
         /\ r.open = closed.open /\ r.log = closed.log \o last
         /\ AllEnded(r.log)
    BY <2>6, <2>7, <2>8, <2>9, <2>10, TellEnds
  <2>12. Grows(done.log, closed.log) /\ \A k \in New(done.log, closed.log) : closed.log[k].event \in ProtocolEvents
    BY <2>4 DEF Over, Goes
  <2>13. /\ Grows(s.log, closed.log)
         /\ \A k \in New(s.log, closed.log) : closed.log[k].event \in SdkEvents \cup ProtocolEvents
    <3>1. Grows(s.log, done.log) /\ \A k \in New(s.log, done.log) : done.log[k].event \in SdkEvents
      BY <1>3, ConcludesTold
    <3>2. /\ Grows(s.log, closed.log)
          /\ \A k \in New(s.log, closed.log) : k \in New(s.log, done.log) \/ k \in New(done.log, closed.log)
          /\ \A k \in New(s.log, done.log) : closed.log[k] = done.log[k]
      BY <1>1, <2>12, <3>1, GrowsTrans
    <3> QED  BY <2>12, <3>1, <3>2
  <2>14. EndsAs(s, final, r, closed.log)
    <3>1. last = (IF final \in {"none", "other"} \/ shown THEN <<>> ELSE <<Shown(graph.step)>>)
      BY <1>8, <2>5
    <3>2. Finishing(s, closed.log)
      BY <1>3, <2>12 DEF Finishing
    <3>3. final # "none"
      BY <1>8
    <3> QED  BY <2>9, <2>11, <2>13, <3>1, <3>2, <3>3 DEF EndsAs
  <2> QED  BY <1>5, <2>9, <2>11, <2>14
<1> QED  BY <1>6, <1>7, <1>8

-----------------------------------------------------------------------------
(* The interrupts and the values a log tells of.                           *)

\* x are the interrupts of the last update in l that had any.
Pending(l, x) ==
  IF Paused(l) = {} THEN x = None
  ELSE \E n \in Paused(l) : Final(n, Paused(l)) /\ l[n].items = x

\* The last values in l are those after super-step x.
Answered(l, x) == \E n \in Answers(l) : Final(n, Answers(l)) /\ l[n].step = x

LEMMA PendingAsked == ASSUME NEW l, IsList(l), NEW x, Pending(l, x) PROVE Asked(l) = x
<1>1. CASE Paused(l) = {}
  BY <1>1 DEF Pending, Asked
<1>2. CASE Paused(l) # {}
  <2>1. PICK n \in Paused(l) : Final(n, Paused(l)) /\ l[n].items = x
    BY <1>2 DEF Pending
  <2>2. PICK k : k = CHOOSE i \in Paused(l) : Final(i, Paused(l))
    OBVIOUS
  <2>3. k \in Paused(l) /\ Final(k, Paused(l))
    BY <2>1, <2>2
  <2>4. n \in Nat /\ k \in Nat /\ n <= k /\ k <= n
    <3>1. Paused(l) \subseteq Nat
      BY ListIs DEF Paused
    <3> QED  BY <2>1, <2>3, <3>1 DEF Final
  <2>5. n = k
    BY <2>4
  <2>6. Asked(l) = l[k].items
    BY <1>2, <2>2 DEF Asked
  <2> QED  BY <2>1, <2>5, <2>6
<1> QED  BY <1>1, <1>2

LEMMA PendingQuiet ==
  ASSUME NEW l, IsList(l), NEW m, Grows(l, m), NEW x, Pending(l, x),
         \A n \in New(l, m) : m[n].event \in {"updates", "interrupted"} => m[n].items = None
  PROVE  Pending(m, x)
<1>1. /\ \A n \in DOMAIN m : n \in DOMAIN l \/ n \in New(l, m)
      /\ \A n \in DOMAIN l : m[n] = l[n]
      /\ DOMAIN l \subseteq DOMAIN m
  BY GrowsOver
<1>2. Paused(m) = Paused(l)
  BY <1>1 DEF Paused
<1>3. \A n \in Paused(l) : m[n] = l[n]
  BY <1>1 DEF Paused
<1> QED  BY <1>2, <1>3 DEF Pending

LEMMA PendingNext ==
  ASSUME NEW l, IsList(l), NEW x, x # None, Len(l) \in DOMAIN l,
         l[Len(l)].event \in {"updates", "interrupted"}, l[Len(l)].items = x
  PROVE  Pending(l, x)
<1>1. Len(l) \in Paused(l)
  BY DEF Paused
<1>2. Final(Len(l), Paused(l))
  <2>1. \A k \in DOMAIN l : k <= Len(l)
    BY ListIs
  <2> QED  BY <2>1 DEF Final, Paused
<1> QED  BY <1>1, <1>2 DEF Pending

LEMMA AnsweredQuiet ==
  ASSUME NEW l, IsList(l), NEW m, Grows(l, m), NEW x, Answered(l, x),
         \A n \in New(l, m) : m[n].event # "values"
  PROVE  Answered(m, x)
<1>1. /\ \A n \in DOMAIN m : n \in DOMAIN l \/ n \in New(l, m)
      /\ \A n \in DOMAIN l : m[n] = l[n]
      /\ DOMAIN l \subseteq DOMAIN m
  BY GrowsOver
<1>2. Answers(m) = Answers(l)
  BY <1>1 DEF Answers
<1>3. \A n \in Answers(l) : m[n] = l[n]
  BY <1>1 DEF Answers
<1> QED  BY <1>2, <1>3 DEF Answered

LEMMA AnsweredNext ==
  ASSUME NEW l, IsList(l), NEW x, Len(l) \in DOMAIN l, l[Len(l)].event = "values", l[Len(l)].step = x
  PROVE  Answered(l, x)
<1>1. Len(l) \in Answers(l)
  BY DEF Answers
<1>2. Final(Len(l), Answers(l))
  <2>1. \A k \in DOMAIN l : k <= Len(l)
    BY ListIs
  <2> QED  BY <2>1 DEF Final, Answers
<1> QED  BY <1>1, <1>2 DEF Answered

\* Nobody was asked for input yet.
Unasked(l) == \A n \in DOMAIN l : l[n].event # "input-requested"

LEMMA UnaskedGrows ==
  ASSUME NEW l, IsList(l), NEW m, Grows(l, m), Unasked(l), \A n \in New(l, m) : m[n].event # "input-requested"
  PROVE  Unasked(m)
<1>1. /\ \A n \in DOMAIN m : n \in DOMAIN l \/ n \in New(l, m)
      /\ \A n \in DOMAIN l : m[n] = l[n]
  BY GrowsOver
<1> QED  BY <1>1 DEF Unasked

\* What the executor knows of the log: the interrupts to announce and whether values were told.
Watched(l, items, told, state) ==
  /\ Pending(l, items) /\ Unasked(l)
  /\ told => Answered(l, state)

\* What is told of messages changes nothing of that.
LEMMA WatchedOn ==
  ASSUME NEW l, IsList(l), NEW m, Grows(l, m), NEW items, NEW told, NEW state, Watched(l, items, told, state),
         \A n \in New(l, m) : m[n].event \notin {"updates", "interrupted", "values", "input-requested"}
  PROVE  Watched(m, items, told, state)
<1>1. Pending(m, items)
  BY PendingQuiet DEF Watched
<1>2. Unasked(m)
  BY UnaskedGrows DEF Watched
<1>3. told => Answered(m, state)
  BY AnsweredQuiet DEF Watched
<1> QED  BY <1>1, <1>2, <1>3 DEF Watched

LEMMA RequestedIs ==
  ASSUME NEW items, items \in {None, << 1 >>, << 1, 2 >>}
  PROVE  /\ IsList(Requested(items)) /\ Len(Requested(items)) \in Nat
         /\ \A i \in 1 .. Len(Requested(items)) : Requested(items)[i].event = "input-requested"
<1>1. items \in Seq(Nat)
  <2>1. <<>> \in Seq(Nat) /\ <<1>> \in Seq(Nat) /\ <<1, 2>> \in Seq(Nat)
    OBVIOUS
  <2> QED  BY <2>1 DEF None
<1>2. PICK R : R = {[event |-> "input-requested", item |-> items[i]] : i \in DOMAIN items}
  OBVIOUS
<1>3. DOMAIN items = 1 .. Len(items) /\ Len(items) \in Nat
  BY <1>1
<1>4. Requested(items) \in [1 .. Len(items) -> R]
  BY <1>2, <1>3 DEF Requested
<1>5. Requested(items) \in Seq(R)
  BY <1>3, <1>4
<1>6. DOMAIN Requested(items) = 1 .. Len(Requested(items)) /\ Len(Requested(items)) \in Nat
  BY <1>5
<1>7. \A i \in DOMAIN Requested(items) : Requested(items)[i].event = "input-requested"
  BY DEF Requested
<1> QED  BY <1>5, <1>6, <1>7 DEF IsList

\* What the end of an execution has told, with the final state and every request for input.
TellsAll(m, final) ==
  LET asks == Requested(Asked(m))
      rest == Len(m) - Len(asks)
  IN  /\ final = "mapping" => \E n \in Answers(m) : Final(n, Answers(m)) /\ m[n].step = graph.step
      /\ \A i \in DOMAIN asks : rest + i \in DOMAIN m /\ m[rest + i] = asks[i]
      /\ \A n \in DOMAIN m : m[n].event = "input-requested" => n > rest

\* The end of an execution that was watched.
LEMMA EndTold ==
  ASSUME NEW s, IsList(s.log), NEW final \in {"none", "other", "mapping"}, NEW r, NEW l, EndsAs(s, final, r, l),
         interrupt \in {None, << 1 >>, << 1, 2 >>}, Watched(s.log, interrupt, shown, graph.step), NEW m,
         m = r.log \o Requested(interrupt)
  PROVE  TellsAll(m, final)
<1>1. /\ IsList(l) /\ Grows(s.log, l)
      /\ \A n \in New(s.log, l) : l[n].event \in SdkEvents \cup ProtocolEvents
      /\ r.log = l \o (IF final \in {"none", "other"} \/ shown THEN <<>> ELSE <<Shown(graph.step)>>)
  BY DEF EndsAs
<1>2. Watched(l, interrupt, shown, graph.step)
  <2>1. \A e \in SdkEvents \cup ProtocolEvents : e \notin {"updates", "interrupted", "values", "input-requested"}
    BY DEF SdkEvents, ProtocolEvents
  <2> QED  BY <1>1, <2>1, WatchedOn
<1>3. PICK k : k = r.log
  OBVIOUS
<1>4. IsList(k) /\ Pending(k, interrupt) /\ Unasked(k) /\ (final = "mapping" => Answered(k, graph.step))
  <2>1. CASE final \in {"none", "other"} \/ shown
    <3>1. k = l
      BY <1>1, <1>3, <2>1, ConcatEmpty
    <3> QED  BY <1>1, <1>2, <2>1, <3>1 DEF Watched
  <2>2. CASE ~(final \in {"none", "other"} \/ shown)
    <3>1. PICK v : v = <<Shown(graph.step)>>
      OBVIOUS
    <3>2. IsList(v) /\ Len(v) = 1 /\ v[1] = Shown(graph.step)
      BY <3>1, SingleList
    <3>3. k = l \o v
      BY <1>1, <1>3, <2>2, <3>1
    <3>4. /\ IsList(k) /\ Grows(l, k) /\ Len(k) = Len(l) + 1 /\ Len(l) \in Nat
          /\ \A n \in New(l, k) : n - Len(l) \in 1 .. 1 /\ k[n] = v[n - Len(l)]
          /\ \A i \in 1 .. 1 : k[Len(l) + i] = v[i]
      <4>1. Len(l) \in Nat
        BY <1>1, ListIs
      <4>2. /\ IsList(l \o v) /\ Len(l \o v) = Len(l) + Len(v) /\ Grows(l, l \o v)
            /\ \A i \in 1 .. Len(v) : (l \o v)[Len(l) + i] = v[i]
            /\ \A n \in New(l, l \o v) : n - Len(l) \in 1 .. Len(v) /\ (l \o v)[n] = v[n - Len(l)]
        BY <1>1, <3>2, ListConcat
      <4> QED  BY <3>2, <3>3, <4>1, <4>2
    <3>5. \A n \in New(l, k) : k[n] = Shown(graph.step)
      <4>1. \A n : n \in 1 .. 1 => n = 1
        OBVIOUS
      <4> QED  BY <3>2, <3>4, <4>1
    <3>6. \A n \in New(l, k) : k[n].event = "values"
      BY <3>5, ShownIs
    <3>7. Pending(k, interrupt) /\ Unasked(k)
      BY <1>1, <1>2, <3>4, <3>6, PendingQuiet, UnaskedGrows DEF Watched
    <3>8. k[Len(k)] = Shown(graph.step) /\ Len(k) \in DOMAIN k
      <4>1. Len(l) + 1 \in 1 .. Len(l) + 1 /\ DOMAIN k = 1 .. Len(l) + 1
        BY <3>4, ListIs
      <4> QED  BY <3>2, <3>4, <4>1
    <3>9. Answered(k, graph.step)
      BY <3>4, <3>8, ShownIs, AnsweredNext
    <3> QED  BY <3>4, <3>7, <3>9
  <2> QED  BY <2>1, <2>2
<1>5. PICK a : a = Requested(interrupt)
  OBVIOUS
<1>6. /\ IsList(a) /\ Len(a) \in Nat /\ DOMAIN a = 1 .. Len(a)
      /\ \A i \in 1 .. Len(a) : a[i].event = "input-requested"
  BY <1>5, RequestedIs, ListIs
<1>7. m = k \o a
  BY <1>3, <1>5
<1>8. /\ IsList(m) /\ Grows(k, m) /\ Len(m) = Len(k) + Len(a)
      /\ \A i \in 1 .. Len(a) : m[Len(k) + i] = a[i]
      /\ \A n \in New(k, m) : n - Len(k) \in 1 .. Len(a) /\ m[n] = a[n - Len(k)]
  <2>1. /\ IsList(k \o a) /\ Len(k \o a) = Len(k) + Len(a) /\ Grows(k, k \o a)
        /\ \A i \in 1 .. Len(a) : (k \o a)[Len(k) + i] = a[i]
        /\ \A n \in New(k, k \o a) : n - Len(k) \in 1 .. Len(a) /\ (k \o a)[n] = a[n - Len(k)]
    BY <1>4, <1>6, ListConcat
  <2> QED  BY <1>7, <2>1
<1>9. \A n \in New(k, m) : m[n].event = "input-requested"
  BY <1>6, <1>8
<1>10. Pending(m, interrupt) /\ (final = "mapping" => Answered(m, graph.step))
  BY <1>4, <1>8, <1>9, PendingQuiet, AnsweredQuiet
<1>11. Requested(Asked(m)) = a
  BY <1>5, <1>8, <1>10, PendingAsked
<1>12. Len(k) \in Nat /\ Len(m) - Len(a) = Len(k) /\ DOMAIN m = 1 .. Len(k) + Len(a) /\ DOMAIN k = 1 .. Len(k)
  BY <1>4, <1>6, <1>8, ListIs
<1>13. \A i \in DOMAIN a : Len(k) + i \in DOMAIN m /\ m[Len(k) + i] = a[i]
  <2>1. SUFFICES ASSUME NEW i \in 1 .. Len(a) PROVE Len(k) + i \in DOMAIN m /\ m[Len(k) + i] = a[i]
    BY <1>6
  <2>2. Len(k) + i \in 1 .. Len(k) + Len(a)
    BY <1>6, <1>12
  <2> QED  BY <1>8, <1>12, <2>2
<1>14. ASSUME NEW n \in DOMAIN m, m[n].event = "input-requested" PROVE n > Len(k)
  <2>1. n \notin DOMAIN k
    <3>1. SUFFICES ASSUME n \in DOMAIN k PROVE FALSE
      OBVIOUS
    <3>2. \A j \in DOMAIN k : m[j] = k[j]
      <4>1. IsList(k) /\ Grows(k, m)
        BY <1>4, <1>8
      <4>2. DOMAIN k = 1 .. Len(k)
        BY <4>1, ListIs
      <4> QED  BY <4>1, <4>2 DEF Grows
    <3> QED  BY <1>4, <1>14, <3>1, <3>2 DEF Unasked
  <2> QED  BY <1>12, <2>1
<1>15. final = "mapping" => \E n \in Answers(m) : Final(n, Answers(m)) /\ m[n].step = graph.step
  BY <1>10 DEF Answered
<1> QED  BY <1>11, <1>12, <1>13, <1>14, <1>15 DEF TellsAll

-----------------------------------------------------------------------------
(* The graph.                                                              *)

Graph(a, b, c, d, e, f, i, n, v) ==
  [said |-> a, chunks |-> b, ended |-> c, taken |-> d, tools |-> e, updated |-> f, items |-> i, step |-> n, state |-> v]

IsGraph(g) == g = Graph(g.said, g.chunks, g.ended, g.taken, g.tools, g.updated, g.items, g.step, g.state)

LEMMA GraphOf ==
  ASSUME NEW a, NEW b, NEW c, NEW d, NEW e, NEW f, NEW i, NEW n, NEW v, NEW g, g = Graph(a, b, c, d, e, f, i, n, v)
  PROVE  /\ IsGraph(g) /\ g.said = a /\ g.chunks = b /\ g.ended = c /\ g.taken = d /\ g.tools = e /\ g.updated = f
         /\ g.items = i /\ g.step = n /\ g.state = v
BY DEF IsGraph, Graph

\* What a call does to the graph.
Saying(g, c, piece) == [g EXCEPT !.said[c] = Add(@, piece), !.chunks[c] = @ + 1, !.items = @ + 1]

EndingWith(g, c, content) == [g EXCEPT !.said[c] = content, !.ended = @ \cup {c}, !.items = @ + 1]

LEMMA SpokenGraph ==
  ASSUME NEW g, IsGraph(g), NEW c, NEW piece, NEW h,
         h = Saying(g, c, piece)
  PROVE  h = Graph([g.said EXCEPT ![c] = Add(@, piece)], [g.chunks EXCEPT ![c] = @ + 1], g.ended, g.taken,
                   g.tools, g.updated, g.items + 1, g.step, g.state)
<1> DEFINE x == [g.said EXCEPT ![c] = Add(g.said[c], piece)]
           y == [g.chunks EXCEPT ![c] = g.chunks[c] + 1]
<1>1. PICK g1 : g1 = [g EXCEPT !.said = x]
  OBVIOUS
<1>2. PICK g2 : g2 = [g1 EXCEPT !.chunks = y]
  OBVIOUS
<1>3. h = [g2 EXCEPT !.items = g.items + 1]
  BY <1>1, <1>2 DEF Saying
<1> HIDE DEF x, y
<1>4. g1 = Graph(x, g.chunks, g.ended, g.taken, g.tools, g.updated, g.items, g.step, g.state)
  BY <1>1 DEF IsGraph, Graph
<1>5. g2 = Graph(x, y, g.ended, g.taken, g.tools, g.updated, g.items, g.step, g.state)
  BY <1>2, <1>4 DEF Graph
<1>6. h = Graph(x, y, g.ended, g.taken, g.tools, g.updated, g.items + 1, g.step, g.state)
  BY <1>3, <1>5 DEF Graph
<1> QED  BY <1>6 DEF x, y

LEMMA EndedGraph ==
  ASSUME NEW g, IsGraph(g), NEW c, NEW content, NEW h,
         h = EndingWith(g, c, content)
  PROVE  h = Graph([g.said EXCEPT ![c] = content], g.chunks, g.ended \cup {c}, g.taken, g.tools, g.updated, g.items + 1, g.step, g.state)
<1>1. PICK g1 : g1 = [g EXCEPT !.said = [g.said EXCEPT ![c] = content]]
  OBVIOUS
<1>2. PICK g2 : g2 = [g1 EXCEPT !.ended = g.ended \cup {c}]
  OBVIOUS
<1>3. h = [g2 EXCEPT !.items = g.items + 1]
  BY <1>1, <1>2 DEF EndingWith
<1>4. g1 = Graph([g.said EXCEPT ![c] = content], g.chunks, g.ended, g.taken, g.tools, g.updated, g.items, g.step, g.state)
  BY <1>1 DEF IsGraph, Graph
<1>5. g2 = Graph([g.said EXCEPT ![c] = content], g.chunks, g.ended \cup {c}, g.taken, g.tools, g.updated, g.items, g.step, g.state)
  BY <1>2, <1>4 DEF Graph
<1>6. h = Graph([g.said EXCEPT ![c] = content], g.chunks, g.ended \cup {c}, g.taken, g.tools, g.updated, g.items + 1, g.step, g.state)
  BY <1>3, <1>5 DEF Graph
<1> QED  BY <1>6

LEMMA TakenGraph ==
  ASSUME NEW g, IsGraph(g), NEW x, NEW h,
         h = [g EXCEPT !.ended = @ \cup x, !.taken = @ \cup x, !.items = @ + 1]
  PROVE  h = Graph(g.said, g.chunks, g.ended \cup x, g.taken \cup x, g.tools, g.updated, g.items + 1, g.step, g.state)
<1>1. PICK g1 : g1 = [g EXCEPT !.ended = g.ended \cup x]
  OBVIOUS
<1>2. PICK g2 : g2 = [g1 EXCEPT !.taken = g.taken \cup x]
  OBVIOUS
<1>3. h = [g2 EXCEPT !.items = g.items + 1]
  BY <1>1, <1>2
<1>4. g1 = Graph(g.said, g.chunks, g.ended \cup x, g.taken, g.tools, g.updated, g.items, g.step, g.state)
  BY <1>1 DEF IsGraph, Graph
<1>5. g2 = Graph(g.said, g.chunks, g.ended \cup x, g.taken \cup x, g.tools, g.updated, g.items, g.step, g.state)
  BY <1>2, <1>4 DEF Graph
<1>6. h = Graph(g.said, g.chunks, g.ended \cup x, g.taken \cup x, g.tools, g.updated, g.items + 1, g.step, g.state)
  BY <1>3, <1>5 DEF Graph
<1> QED  BY <1>6

LEMMA ToolsGraph ==
  ASSUME NEW g, IsGraph(g), NEW x, NEW h,
         h = [g EXCEPT !.tools = @ \cup {x}, !.items = @ + 1]
  PROVE  h = Graph(g.said, g.chunks, g.ended, g.taken, g.tools \cup {x}, g.updated, g.items + 1, g.step, g.state)
<1>1. PICK g1 : g1 = [g EXCEPT !.tools = g.tools \cup {x}]
  OBVIOUS
<1>2. h = [g1 EXCEPT !.items = g.items + 1]
  BY <1>1
<1>3. g1 = Graph(g.said, g.chunks, g.ended, g.taken, g.tools \cup {x}, g.updated, g.items, g.step, g.state)
  BY <1>1 DEF IsGraph, Graph
<1>4. h = Graph(g.said, g.chunks, g.ended, g.taken, g.tools \cup {x}, g.updated, g.items + 1, g.step, g.state)
  BY <1>2, <1>3 DEF Graph
<1> QED  BY <1>4

LEMMA UpdatedGraph ==
  ASSUME NEW g, IsGraph(g), NEW x, NEW h,
         h = [g EXCEPT !.updated = @ \cup x, !.step = @ + 1, !.items = @ + 1]
  PROVE  h = Graph(g.said, g.chunks, g.ended, g.taken, g.tools, g.updated \cup x, g.items + 1, g.step + 1, g.state)
<1>1. PICK g1 : g1 = [g EXCEPT !.updated = g.updated \cup x]
  OBVIOUS
<1>2. PICK g2 : g2 = [g1 EXCEPT !.step = g.step + 1]
  OBVIOUS
<1>3. h = [g2 EXCEPT !.items = g.items + 1]
  BY <1>1, <1>2
<1>4. g1 = Graph(g.said, g.chunks, g.ended, g.taken, g.tools, g.updated \cup x, g.items, g.step, g.state)
  BY <1>1 DEF IsGraph, Graph
<1>5. g2 = Graph(g.said, g.chunks, g.ended, g.taken, g.tools, g.updated \cup x, g.items, g.step + 1, g.state)
  BY <1>2, <1>4 DEF Graph
<1>6. h = Graph(g.said, g.chunks, g.ended, g.taken, g.tools, g.updated \cup x, g.items + 1, g.step + 1, g.state)
  BY <1>3, <1>5 DEF Graph
<1> QED  BY <1>6

LEMMA StateGraph ==
  ASSUME NEW g, IsGraph(g), NEW h,
         h = [g EXCEPT !.state = @ + 1, !.items = @ + 1]
  PROVE  h = Graph(g.said, g.chunks, g.ended, g.taken, g.tools, g.updated, g.items + 1, g.step, g.state + 1)
<1>1. PICK g1 : g1 = [g EXCEPT !.state = g.state + 1]
  OBVIOUS
<1>2. h = [g1 EXCEPT !.items = g.items + 1]
  BY <1>1
<1>3. g1 = Graph(g.said, g.chunks, g.ended, g.taken, g.tools, g.updated, g.items, g.step, g.state + 1)
  BY <1>1 DEF IsGraph, Graph
<1>4. h = Graph(g.said, g.chunks, g.ended, g.taken, g.tools, g.updated, g.items + 1, g.step, g.state + 1)
  BY <1>2, <1>3 DEF Graph
<1> QED  BY <1>4

\* The types of the graph.
GraphTyped(g) ==
  /\ IsGraph(g)
  /\ g.items \in 0..MaxItems /\ g.step \in 0..MaxSteps /\ g.state \in 0..g.step
  /\ g.chunks \in [Calls -> 0..MaxChunks]
  /\ g.ended \subseteq Calls /\ g.taken \subseteq g.ended
  /\ g.tools \subseteq Tools /\ g.updated \subseteq Tools

LEMMA SpokenTypes ==
  ASSUME NEW g, GraphTyped(g), g.items < MaxItems, NEW c \in Calls, NEW piece, g.chunks[c] < MaxChunks, NEW h,
         h = Saying(g, c, piece)
  PROVE  GraphTyped(h) /\ h.items = g.items + 1 /\ h.step = g.step /\ h.state = g.state
<1>1. IsGraph(g)
  BY DEF GraphTyped
<1>2. h = Graph([g.said EXCEPT ![c] = Add(@, piece)], [g.chunks EXCEPT ![c] = @ + 1], g.ended, g.taken, g.tools, g.updated, g.items + 1, g.step, g.state)
  BY <1>1, SpokenGraph
<1>3. /\ IsGraph(h) /\ h.items = g.items + 1 /\ h.step = g.step /\ h.state = g.state
      /\ h.chunks = [g.chunks EXCEPT ![c] = @ + 1] /\ h.ended = g.ended /\ h.taken = g.taken /\ h.tools = g.tools /\ h.updated = g.updated
  BY <1>2, GraphOf
<1> QED  BY <1>3, BoundsAssumption DEF GraphTyped

LEMMA EndedTypes ==
  ASSUME NEW g, GraphTyped(g), g.items < MaxItems, NEW c \in Calls, NEW content, NEW h,
         h = EndingWith(g, c, content)
  PROVE  GraphTyped(h) /\ h.items = g.items + 1 /\ h.step = g.step /\ h.state = g.state
<1>1. IsGraph(g)
  BY DEF GraphTyped
<1>2. h = Graph([g.said EXCEPT ![c] = content], g.chunks, g.ended \cup {c}, g.taken, g.tools, g.updated, g.items + 1, g.step, g.state)
  BY <1>1, EndedGraph
<1>3. /\ IsGraph(h) /\ h.items = g.items + 1 /\ h.step = g.step /\ h.state = g.state
      /\ h.chunks = g.chunks /\ h.ended = g.ended \cup {c} /\ h.taken = g.taken /\ h.tools = g.tools /\ h.updated = g.updated
  BY <1>2, GraphOf
<1> QED  BY <1>3, BoundsAssumption DEF GraphTyped

LEMMA TakenTypes ==
  ASSUME NEW g, GraphTyped(g), g.items < MaxItems, NEW x, x \subseteq Calls, NEW h,
         h = [g EXCEPT !.ended = @ \cup x, !.taken = @ \cup x, !.items = @ + 1]
  PROVE  GraphTyped(h) /\ h.items = g.items + 1 /\ h.step = g.step /\ h.state = g.state
<1>1. IsGraph(g)
  BY DEF GraphTyped
<1>2. h = Graph(g.said, g.chunks, g.ended \cup x, g.taken \cup x, g.tools, g.updated, g.items + 1, g.step, g.state)
  BY <1>1, TakenGraph
<1>3. /\ IsGraph(h) /\ h.items = g.items + 1 /\ h.step = g.step /\ h.state = g.state
      /\ h.chunks = g.chunks /\ h.ended = g.ended \cup x /\ h.taken = g.taken \cup x /\ h.tools = g.tools /\ h.updated = g.updated
  BY <1>2, GraphOf
<1> QED  BY <1>3, BoundsAssumption DEF GraphTyped

LEMMA ToolsTypes ==
  ASSUME NEW g, GraphTyped(g), g.items < MaxItems, NEW x \in Tools, NEW h,
         h = [g EXCEPT !.tools = @ \cup {x}, !.items = @ + 1]
  PROVE  GraphTyped(h) /\ h.items = g.items + 1 /\ h.step = g.step /\ h.state = g.state
<1>1. IsGraph(g)
  BY DEF GraphTyped
<1>2. h = Graph(g.said, g.chunks, g.ended, g.taken, g.tools \cup {x}, g.updated, g.items + 1, g.step, g.state)
  BY <1>1, ToolsGraph
<1>3. /\ IsGraph(h) /\ h.items = g.items + 1 /\ h.step = g.step /\ h.state = g.state
      /\ h.chunks = g.chunks /\ h.ended = g.ended /\ h.taken = g.taken /\ h.tools = g.tools \cup {x} /\ h.updated = g.updated
  BY <1>2, GraphOf
<1> QED  BY <1>3, BoundsAssumption DEF GraphTyped

LEMMA UpdatedTypes ==
  ASSUME NEW g, GraphTyped(g), g.items < MaxItems, NEW x, x \subseteq Tools, g.step < MaxSteps, NEW h,
         h = [g EXCEPT !.updated = @ \cup x, !.step = @ + 1, !.items = @ + 1]
  PROVE  GraphTyped(h) /\ h.items = g.items + 1 /\ h.step = g.step + 1 /\ h.state = g.state
<1>1. IsGraph(g)
  BY DEF GraphTyped
<1>2. h = Graph(g.said, g.chunks, g.ended, g.taken, g.tools, g.updated \cup x, g.items + 1, g.step + 1, g.state)
  BY <1>1, UpdatedGraph
<1>3. /\ IsGraph(h) /\ h.items = g.items + 1 /\ h.step = g.step + 1 /\ h.state = g.state
      /\ h.chunks = g.chunks /\ h.ended = g.ended /\ h.taken = g.taken /\ h.tools = g.tools /\ h.updated = g.updated \cup x
  BY <1>2, GraphOf
<1> QED  BY <1>3, BoundsAssumption DEF GraphTyped

LEMMA StateTypes ==
  ASSUME NEW g, GraphTyped(g), g.items < MaxItems, g.state < g.step, NEW h,
         h = [g EXCEPT !.state = @ + 1, !.items = @ + 1]
  PROVE  GraphTyped(h) /\ h.items = g.items + 1 /\ h.step = g.step /\ h.state = g.state + 1
<1>1. IsGraph(g)
  BY DEF GraphTyped
<1>2. h = Graph(g.said, g.chunks, g.ended, g.taken, g.tools, g.updated, g.items + 1, g.step, g.state + 1)
  BY <1>1, StateGraph
<1>3. /\ IsGraph(h) /\ h.items = g.items + 1 /\ h.step = g.step /\ h.state = g.state + 1
      /\ h.chunks = g.chunks /\ h.ended = g.ended /\ h.taken = g.taken /\ h.tools = g.tools /\ h.updated = g.updated
  BY <1>2, GraphOf
<1> QED  BY <1>3, BoundsAssumption DEF GraphTyped

-----------------------------------------------------------------------------
(* An item of the graph, and what it does to the log.                      *)

\* One event beside the messages.
LEMMA TellOne ==
  ASSUME NEW s, NEW n \in Nat, NEW b \in Nat, Fit(s, n, b), NEW e, e.event \notin SdkEvents \cup ProtocolEvents,
         NEW t, t = Tell(s, <<e>>)
  PROVE  /\ Fit(t, n, b) /\ IsList(s.log) /\ IsList(t.log) /\ Grows(s.log, t.log)
         /\ \A k \in New(s.log, t.log) : t.log[k] = e
         /\ Len(t.log) \in DOMAIN t.log /\ t.log[Len(t.log)] = e
<1>1. PICK v : v = <<e>>
  OBVIOUS
<1>2. IsList(v) /\ Len(v) = 1 /\ v[1] = e
  BY <1>1, SingleList
<1>3. \A i \in 1 .. Len(v) : v[i].event \notin SdkEvents \cup ProtocolEvents
  <2>1. \A i \in 1 .. 1 : i = 1
    OBVIOUS
  <2> QED  BY <1>2, <2>1
<1>4. t = Tell(s, v)
  BY <1>1
<1>5. /\ Fit(t, n, b) /\ t.log = s.log \o v /\ Grows(s.log, t.log)
      /\ \A k \in New(s.log, t.log) : k - Len(s.log) \in 1 .. Len(v) /\ t.log[k] = v[k - Len(s.log)]
  <2>1. /\ Fit(Tell(s, v), n, b) /\ Tell(s, v).log = s.log \o v /\ Grows(s.log, Tell(s, v).log)
        /\ \A k \in New(s.log, Tell(s, v).log) :
             k - Len(s.log) \in 1 .. Len(v) /\ Tell(s, v).log[k] = v[k - Len(s.log)]
    BY <1>2, <1>3, TellFits
  <2> QED  BY <1>4, <2>1
<1>6. IsList(s.log) /\ IsList(t.log)
  BY <1>5 DEF Fit, IsStream
<1>7. \A k \in New(s.log, t.log) : t.log[k] = e
  <2>1. \A i \in 1 .. 1 : i = 1
    OBVIOUS
  <2> QED  BY <1>2, <1>5, <2>1
<1>8. /\ Len(s.log \o v) = Len(s.log) + 1 /\ Len(s.log) \in Nat
      /\ \A i \in 1 .. 1 : (s.log \o v)[Len(s.log) + i] = v[i]
  <2>1. Len(s.log) \in Nat
    BY <1>6, ListIs
  <2>2. PICK l : l = s.log
    OBVIOUS
  <2>3. /\ Len(l \o v) = Len(l) + Len(v)
        /\ \A i \in 1 .. Len(v) : (l \o v)[Len(l) + i] = v[i]
    <3>1. IsList(l) /\ IsList(v)
      BY <1>2, <1>6, <2>2
    <3> QED  BY <3>1, ListConcat
  <2> QED  BY <1>2, <2>1, <2>2, <2>3
<1>9. Len(t.log) = Len(s.log) + 1 /\ DOMAIN t.log = 1 .. Len(t.log) /\ t.log[Len(s.log) + 1] = v[1]
  BY <1>5, <1>6, <1>8, ListIs
<1> QED  BY <1>2, <1>5, <1>6, <1>7, <1>8, <1>9

\* The state an execution is in between two items, for the scene it has.
Between(s, n, b, items, told, state) == Fit(s, n, b) /\ Watched(s.log, items, told, state)

LEMMA ContinuesWatched ==
  ASSUME NEW s, IsList(s.log), NEW t, Continues(s, t), NEW items, NEW told, NEW state, Watched(s.log, items, told, state)
  PROVE  Watched(t.log, items, told, state)
<1>1. Grows(s.log, t.log) /\ \A k \in New(s.log, t.log) : t.log[k].event \in MessageEvents
  BY DEF Continues
<1>2. \A e \in MessageEvents : e \notin {"updates", "interrupted", "values", "input-requested"}
  BY DEF MessageEvents, SdkEvents, BlockEvents
<1> QED  BY <1>1, <1>2, WatchedOn

LEMMA EchoedBetween ==
  ASSUME NEW s, NEW n \in Nat, NEW b \in Nat, NEW items, NEW told, NEW state, Between(s, n, b, items, told, state),
         NEW t, t = Echoed(s)
  PROVE  Between(t, n, b, items, told, state)
<1>1. CASE ~(scene.events /\ scene.updates)
  BY <1>1 DEF Echoed
<1>2. CASE scene.events /\ scene.updates
  <2>1. PICK e : e = [event |-> "updates", items |-> None]
    OBVIOUS
  <2>2. e.event = "updates" /\ e.items = None
    BY <2>1
  <2>3. t = Tell(s, <<e>>)
    BY <1>2, <2>1 DEF Echoed
  <2>4. e.event \notin SdkEvents \cup ProtocolEvents
    BY <2>2 DEF SdkEvents, ProtocolEvents
  <2>5. /\ Fit(t, n, b) /\ IsList(s.log) /\ Grows(s.log, t.log)
        /\ \A k \in New(s.log, t.log) : t.log[k] = e
    BY <2>3, <2>4, TellOne DEF Between
  <2>6. \A k \in New(s.log, t.log) : t.log[k].event = "updates" /\ t.log[k].items = None
    BY <2>2, <2>5
  <2>7. Pending(t.log, items)
    BY <2>5, <2>6, PendingQuiet DEF Between, Watched
  <2>8. Unasked(t.log)
    BY <2>5, <2>6, UnaskedGrows DEF Between, Watched
  <2>9. told => Answered(t.log, state)
    BY <2>5, <2>6, AnsweredQuiet DEF Between, Watched
  <2> QED  BY <2>5, <2>7, <2>8, <2>9 DEF Between, Watched
<1> QED  BY <1>1, <1>2

LEMMA HandleBetween ==
  ASSUME NEW s, NEW n \in Nat, NEW items, NEW told, NEW state, Between(s, n, 0, items, told, state),
         NEW m, Proper(m, n, 0), NEW t, t = Handle(s, m)
  PROVE  \E b \in Nat : Between(t, n, b, items, told, state)
<1>1. Fit(t, n, m.index + 1) /\ Continues(s, t)
  BY HandleFit DEF Between
<1>2. m.index + 1 \in Nat
  BY DEF Proper
<1>3. IsList(s.log)
  BY DEF Between, Fit, IsStream
<1>4. Watched(t.log, items, told, state)
  BY <1>1, <1>3, ContinuesWatched DEF Between
<1> QED  BY <1>1, <1>2, <1>4 DEF Between

LEMMA HandleAllBetween ==
  ASSUME NEW s, NEW n \in Nat, NEW items, NEW told, NEW state, Between(s, n, 0, items, told, state),
         NEW ms, Len(ms) \in Nat, \A i \in 1 .. Len(ms) : ms[i].index = i - 1 /\ Proper(ms[i], n, i - 1),
         NEW t, t = HandleAll(s, ms)
  PROVE  Between(t, n, Len(ms), items, told, state)
<1>1. Fit(t, n, Len(ms)) /\ Continues(s, t)
  BY HandleAllFits DEF Between
<1>2. IsList(s.log)
  BY DEF Between, Fit, IsStream
<1>3. Watched(t.log, items, told, state)
  BY <1>1, <1>2, ContinuesWatched DEF Between
<1> QED  BY <1>1, <1>3 DEF Between

\* The update of a super-step, with the interrupts it has.
LEMMA ForwardedBetween ==
  ASSUME NEW s, NEW n \in Nat, NEW b \in Nat, NEW told, NEW state, Between(s, n, b, interrupt, told, state),
         NEW items, NEW t, t = Tell(s, Forwarded(items))
  PROVE  Between(t, n, b, Noted(items), told, state)
<1>1. CASE ~scene.updates /\ items = None
  <2>1. Forwarded(items) = <<>>
    BY <1>1 DEF Forwarded
  <2>2. IsStream(s)
    BY DEF Between, Fit
  <2>3. s.log \o <<>> = s.log
    BY <2>2, ConcatEmpty DEF IsStream
  <2>4. t = s
    BY <2>1, <2>2, <2>3, TellIs DEF IsStream, Record
  <2> QED  BY <1>1, <2>4 DEF Noted
<1>2. CASE scene.updates \/ items # None
  <2>1. PICK e : e = [event |-> IF scene.updates THEN "updates" ELSE "interrupted", items |-> items]
    OBVIOUS
  <2>2. e.event \in {"updates", "interrupted"} /\ e.items = items
    BY <2>1
  <2>3. t = Tell(s, <<e>>)
    BY <1>2, <2>1 DEF Forwarded
  <2>4. e.event \notin SdkEvents \cup ProtocolEvents
    BY <2>2 DEF SdkEvents, ProtocolEvents
  <2>5. /\ Fit(t, n, b) /\ IsList(s.log) /\ IsList(t.log) /\ Grows(s.log, t.log)
        /\ \A k \in New(s.log, t.log) : t.log[k] = e
        /\ Len(t.log) \in DOMAIN t.log /\ t.log[Len(t.log)] = e
    BY <2>3, <2>4, TellOne DEF Between
  <2>6. \A k \in New(s.log, t.log) : t.log[k].event \in {"updates", "interrupted"} /\ t.log[k].items = items
    BY <2>2, <2>5
  <2>7. Pending(t.log, Noted(items))
    <3>1. CASE items = None
      BY <2>5, <2>6, <3>1, PendingQuiet DEF Between, Watched, Noted
    <3>2. CASE items # None
      BY <2>2, <2>5, <3>2, PendingNext DEF Noted
    <3> QED  BY <3>1, <3>2
  <2>8. Unasked(t.log)
    BY <2>5, <2>6, UnaskedGrows DEF Between, Watched
  <2>9. told => Answered(t.log, state)
    BY <2>5, <2>6, AnsweredQuiet DEF Between, Watched
  <2> QED  BY <2>5, <2>7, <2>8, <2>9 DEF Between, Watched
<1> QED  BY <1>1, <1>2

\* The state after a super-step.
LEMMA ShownBetween ==
  ASSUME NEW s, NEW n \in Nat, NEW b \in Nat, NEW items, NEW told, NEW state, Between(s, n, b, items, told, state),
         NEW x, NEW t, t = Tell(s, <<Shown(x)>>)
  PROVE  Between(t, n, b, items, TRUE, x)
<1>1. PICK e : e = Shown(x)
  OBVIOUS
<1>2. e.event = "values" /\ e.step = x
  BY <1>1, ShownIs
<1>3. t = Tell(s, <<e>>)
  BY <1>1
<1>4. e.event \notin SdkEvents \cup ProtocolEvents
  BY <1>2 DEF SdkEvents, ProtocolEvents
<1>5. /\ Fit(t, n, b) /\ IsList(s.log) /\ IsList(t.log) /\ Grows(s.log, t.log)
      /\ \A k \in New(s.log, t.log) : t.log[k] = e
      /\ Len(t.log) \in DOMAIN t.log /\ t.log[Len(t.log)] = e
  BY <1>3, <1>4, TellOne DEF Between
<1>6. \A k \in New(s.log, t.log) : t.log[k].event = "values"
  BY <1>2, <1>5
<1>7. Pending(t.log, items)
  BY <1>5, <1>6, PendingQuiet DEF Between, Watched
<1>8. Unasked(t.log)
  BY <1>5, <1>6, UnaskedGrows DEF Between, Watched
<1>9. Answered(t.log, x)
  BY <1>2, <1>5, AnsweredNext
<1> QED  BY <1>5, <1>7, <1>8, <1>9 DEF Between, Watched

-----------------------------------------------------------------------------
(* The inductive invariant.                                                *)

Scenery ==
  /\ scene \in Scenes /\ GraphTyped(graph)
  /\ interrupt \in {None, <<1>>, <<1, 2>>} /\ shown \in BOOLEAN
  /\ shown => scene.values
  /\ result \in {"unread", "none", "other", "mapping"} /\ phase \in {"streaming", "done", "failed"}

Streaming ==
  phase = "streaming" =>
    result = "unread" /\ Between(stream, graph.items, 0, interrupt, shown, graph.state)

Consistent ==
  /\ StreamTyped(stream) /\ Identified(stream.log) /\ Balanced(stream.log)
  /\ result = "mapping" => stream.open = <<>> /\ AllEnded(stream.log)
  /\ EndTellsAll

StreamInv == Scenery /\ Streaming /\ Consistent

\* A scene, once chosen, stays.
LEMMA BetweenStays ==
  ASSUME scene' = scene, Between(stream', graph.items', 0, interrupt', shown', graph.state')
  PROVE  Between(stream, graph.items, 0, interrupt, shown, graph.state)'
BY DEF Between, Fit, Kept, KeepsId, IdOf

LEMMA ToldStays ==
  ASSUME scene' = scene, StreamTyped(stream'), Identified(stream'.log), Balanced(stream'.log)
  PROVE  StreamTyped(stream)' /\ Identified(stream.log)' /\ Balanced(stream.log)'
BY DEF Identified, KeepsId

\* An item is handled and the next one is asked for.
LEMMA NextItem ==
  ASSUME StreamInv, phase = "streaming", UNCHANGED <<scene, result, phase>>, GraphTyped(graph'),
         graph'.items = graph.items + 1, interrupt' \in {None, << 1 >>, << 1, 2 >>}, shown' \in BOOLEAN,
         shown' => scene.values,
         NEW b \in Nat, Between(stream', graph.items, b, interrupt', shown', graph'.state)
  PROVE  StreamInv'
<1>1. result = "unread" /\ graph.items \in Nat
  BY BoundsAssumption DEF StreamInv, Scenery, Streaming, GraphTyped
<1>2. Fit(stream', graph.items + 1, 0)
  BY <1>1, FitNext DEF Between
<1>3. Between(stream', graph.items', 0, interrupt', shown', graph.state')
  BY <1>2 DEF Between
<1>4. Scenery'
  BY DEF StreamInv, Scenery
<1>5. Streaming'
  BY <1>1, <1>3, BetweenStays DEF Streaming
<1>6. StreamTyped(stream') /\ Identified(stream'.log) /\ Balanced(stream'.log)
  BY <1>2, FitHolds
<1>7. Consistent'
  BY <1>1, <1>6, ToldStays DEF Consistent, EndTellsAll, Settled
<1> QED  BY <1>4, <1>5, <1>7 DEF StreamInv

\* The execution fails and says no more.
LEMMA Fails ==
  ASSUME StreamInv, phase = "streaming", UNCHANGED <<scene, stream, interrupt, shown, result>>, GraphTyped(graph'),
         phase' = "failed"
  PROVE  StreamInv'
<1>1. result = "unread"
  BY DEF StreamInv, Streaming
<1>2. Scenery' /\ Streaming'
  BY DEF StreamInv, Scenery, Streaming
<1>3. StreamTyped(stream') /\ Identified(stream'.log) /\ Balanced(stream'.log)
  BY DEF StreamInv, Consistent
<1>4. Consistent'
  BY <1>1, <1>3, ToldStays DEF Consistent, EndTellsAll, Settled
<1> QED  BY <1>2, <1>4 DEF StreamInv

LEMMA LiveHolds ==
  ASSUME StreamInv, Item, GraphTyped(graph'), graph'.items = graph.items + 1, graph'.state = graph.state,
         NEW m, ~Nameless(m) => Proper(m, graph.items, 0), Live(m)
  PROVE  StreamInv'
<1>1. phase = "streaming" /\ graph.items \in Nat
  BY BoundsAssumption DEF Item, StreamInv, Scenery, GraphTyped
<1>2. CASE Nameless(m)
  BY <1>1, <1>2, Fails DEF Live
<1>3. CASE ~Nameless(m)
  <2>1. stream' = Handle(stream, m) /\ UNCHANGED <<scene, interrupt, shown, result, phase>>
    BY <1>3 DEF Live
  <2>2. Between(stream, graph.items, 0, interrupt, shown, graph.state)
    BY <1>1 DEF StreamInv, Streaming
  <2>3. PICK b \in Nat : Between(stream', graph.items, b, interrupt, shown, graph.state)
    BY <1>1, <1>3, <2>1, <2>2, HandleBetween
  <2>4. interrupt' \in {None, <<1>>, <<1, 2>>} /\ shown' \in BOOLEAN /\ (shown' => scene.values)
    BY <2>1 DEF StreamInv, Scenery
  <2>5. Between(stream', graph.items, b, interrupt', shown', graph'.state)
    BY <2>1, <2>3
  <2> QED  BY <1>1, <2>1, <2>4, <2>5, NextItem
<1> QED  BY <1>2, <1>3

-----------------------------------------------------------------------------
(* One lemma per action.                                                   *)

LEMMA ListOf ==
  ASSUME NEW S, NEW k \in Nat, NEW cs \in SeqOf(S, k)
  PROVE  Len(cs) \in Nat /\ DOMAIN cs = 1 .. Len(cs) /\ (\A i \in 1 .. Len(cs) : cs[i] \in S)
         /\ Range(cs) \subseteq S
<1>1. PICK m \in 0 .. k : cs \in [1 .. m -> S]
  BY DEF SeqOf
<1>2. m \in Nat /\ DOMAIN cs = 1 .. m /\ cs \in Seq(S)
  BY <1>1
<1>3. Len(cs) = m
  BY <1>2
<1> QED  BY <1>1, <1>2, <1>3 DEF Range

LEMMA ItemIs ==
  ASSUME StreamInv, Item
  PROVE  /\ phase = "streaming" /\ graph.items \in Nat /\ graph.items < MaxItems /\ GraphTyped(graph)
         /\ Between(stream, graph.items, 0, interrupt, shown, graph.state)
         /\ interrupt \in {None, <<1>>, <<1, 2>>} /\ shown \in BOOLEAN /\ (shown => scene.values)
BY BoundsAssumption DEF StreamInv, Scenery, Streaming, GraphTyped, Item

LEMMA ChunkHolds ==
  ASSUME StreamInv, NEW c \in Calls, NEW piece, Chunk(c, piece)
  PROVE  StreamInv'
<1>1. Item /\ GraphTyped(graph) /\ graph.items < MaxItems /\ graph.items \in Nat
  BY ItemIs DEF Chunk
<1>2. PICK h : h = graph'
  OBVIOUS
<1>3. GraphTyped(h) /\ h.items = graph.items + 1 /\ h.state = graph.state
  <2>1. PICK g : g = graph
    OBVIOUS
  <2>2. h = Saying(g, c, piece) /\ g.chunks[c] < MaxChunks
    BY <1>2, <2>1 DEF Chunk, Saying
  <2>3. GraphTyped(g) /\ g.items < MaxItems
    BY <1>1, <2>1
  <2>4. GraphTyped(h) /\ h.items = g.items + 1 /\ h.state = g.state
    BY <2>2, <2>3, SpokenTypes
  <2> QED  BY <2>1, <2>4
<1>4. PICK m : m = Streamed(c, piece, FALSE)
  OBVIOUS
<1>5. Live(m)
  BY <1>4 DEF Chunk
<1>6. ~Nameless(m) => Proper(m, graph.items, 0)
  BY <1>1, <1>4, StreamedIsProper
<1> QED  BY <1>1, <1>2, <1>3, <1>5, <1>6, LiveHolds

LEMMA WholeHolds ==
  ASSUME StreamInv, NEW c \in Calls, NEW piece, Whole(c, piece)
  PROVE  StreamInv'
<1>1. Item /\ GraphTyped(graph) /\ graph.items < MaxItems /\ graph.items \in Nat
  BY ItemIs DEF Whole
<1>2. PICK h : h = graph'
  OBVIOUS
<1>3. PICK content : content = Add(graph.said[c], piece)
  OBVIOUS
<1>4. h = [graph EXCEPT !.said[c] = content, !.ended = @ \cup {c}, !.items = @ + 1] /\ Live(Streamed(c, content, TRUE))
  BY <1>2, <1>3 DEF Whole
<1>5. GraphTyped(h) /\ h.items = graph.items + 1 /\ h.state = graph.state
  <2>1. PICK g : g = graph
    OBVIOUS
  <2>2. h = EndingWith(g, c, content)
    BY <1>4, <2>1 DEF EndingWith
  <2>3. GraphTyped(g) /\ g.items < MaxItems
    BY <1>1, <2>1
  <2>4. GraphTyped(h) /\ h.items = g.items + 1 /\ h.state = g.state
    BY <2>2, <2>3, EndedTypes
  <2> QED  BY <2>1, <2>4
<1>6. PICK m : m = Streamed(c, content, TRUE)
  OBVIOUS
<1>7. ~Nameless(m) => Proper(m, graph.items, 0)
  BY <1>1, <1>6, StreamedIsProper
<1> QED  BY <1>1, <1>2, <1>4, <1>5, <1>6, <1>7, LiveHolds

LEMMA OutputHolds ==
  ASSUME StreamInv, NEW cs \in SeqOf(Calls, Cardinality(Calls)), Output(cs)
  PROVE  StreamInv'
<1>1. /\ Item /\ GraphTyped(graph) /\ graph.items < MaxItems /\ graph.items \in Nat /\ phase = "streaming"
      /\ Between(stream, graph.items, 0, interrupt, shown, graph.state)
      /\ interrupt \in {None, <<1>>, <<1, 2>>} /\ shown \in BOOLEAN /\ (shown => scene.values)
  BY ItemIs DEF Output
<1>2. Cardinality(Calls) \in Nat
  BY CallsAssumption, FS_CardinalityType
<1>3. Len(cs) \in Nat /\ DOMAIN cs = 1 .. Len(cs) /\ (\A i \in 1 .. Len(cs) : cs[i] \in Calls) /\ Range(cs) \subseteq Calls
  BY <1>2, ListOf
<1>4. PICK h : h = graph'
  OBVIOUS
<1>5. GraphTyped(h) /\ h.items = graph.items + 1 /\ h.state = graph.state
  BY <1>1, <1>3, <1>4, TakenTypes DEF Output
<1>6. PICK ms : ms = [i \in DOMAIN cs |-> InOutput(cs[i], i)]
  OBVIOUS
<1>7. Len(ms) = Len(cs) /\ \A i \in 1 .. Len(cs) : ms[i] = InOutput(cs[i], i)
  <2>1. DOMAIN ms = 1 .. Len(cs)
    BY <1>3, <1>6
  <2> QED  BY <1>3, <1>6, <2>1
<1>8. ASSUME NEW i \in 1 .. Len(ms) PROVE ms[i].index = i - 1 /\ Proper(ms[i], graph.items, i - 1)
  <2>1. ms[i] = InOutput(cs[i], i) /\ cs[i] \in Calls /\ i \in Nat \ {0} /\ scene.events
    BY <1>3, <1>7 DEF Output
  <2>2. PICK c \in Calls : c = cs[i]
    BY <2>1
  <2>3. InOutput(c, i).index = i - 1 /\ Proper(InOutput(c, i), graph.items, i - 1)
    BY <1>1, <2>1, InOutputIsProper
  <2> QED  BY <2>1, <2>2, <2>3
<1>9. PICK t : t = HandleAll(stream, ms)
  OBVIOUS
<1>10. Between(t, graph.items, Len(ms), interrupt, shown, graph.state)
  BY <1>1, <1>3, <1>7, <1>8, <1>9, HandleAllBetween
<1>11. stream' = Echoed(t) /\ UNCHANGED <<scene, interrupt, shown, result, phase>>
  BY <1>6, <1>9 DEF Output
<1>12. Between(stream', graph.items, Len(ms), interrupt, shown, graph.state)
  BY <1>1, <1>3, <1>7, <1>10, <1>11, EchoedBetween
<1>13. Between(stream', graph.items, Len(ms), interrupt', shown', graph'.state)
  BY <1>4, <1>5, <1>11, <1>12
<1>14. Len(ms) \in Nat
  BY <1>3, <1>7
<1> QED  BY <1>1, <1>4, <1>5, <1>11, <1>13, <1>14, NextItem

LEMMA NodeMessageHolds ==
  ASSUME StreamInv, NEW x \in Tools, NodeMessage(x)
  PROVE  StreamInv'
<1>1. /\ Item /\ GraphTyped(graph) /\ graph.items < MaxItems /\ graph.items \in Nat /\ phase = "streaming"
      /\ Between(stream, graph.items, 0, interrupt, shown, graph.state)
      /\ interrupt \in {None, <<1>>, <<1, 2>>} /\ shown \in BOOLEAN /\ (shown => scene.values)
  BY ItemIs DEF NodeMessage
<1>2. PICK h : h = graph'
  OBVIOUS
<1>3. GraphTyped(h) /\ h.items = graph.items + 1 /\ h.state = graph.state
  BY <1>1, <1>2, ToolsTypes DEF NodeMessage
<1>4. PICK run : run = IF scene.events THEN <<"chain", graph.items>> ELSE None
  OBVIOUS
<1>5. PICK m : m = Returned(x, run, 0)
  OBVIOUS
<1>6. Proper(m, graph.items, 0)
  <2>1. run = <<"chain", graph.items>> \/ run = <<"update", graph.items>> \/ (run = None /\ ~scene.events)
    BY <1>4
  <2> QED  BY <1>1, <1>5, <2>1, ReturnedIsProper
<1>7. PICK t : t = Handle(stream, m)
  OBVIOUS
<1>8. PICK b \in Nat : Between(t, graph.items, b, interrupt, shown, graph.state)
  BY <1>1, <1>6, <1>7, HandleBetween
<1>9. stream' = Echoed(t) /\ UNCHANGED <<scene, interrupt, shown, result, phase>>
  BY <1>4, <1>5, <1>7 DEF NodeMessage
<1>10. Between(stream', graph.items, b, interrupt, shown, graph.state)
  BY <1>1, <1>8, <1>9, EchoedBetween
<1>11. Between(stream', graph.items, b, interrupt', shown', graph'.state)
  BY <1>2, <1>3, <1>9, <1>10
<1> QED  BY <1>1, <1>2, <1>3, <1>9, <1>11, NextItem

LEMMA UpdateHolds ==
  ASSUME StreamInv, NEW ts \in SeqOf(Tools, 2), NEW items \in {<<>>, << 1 >>, << 1, 2 >>}, Update(ts, items)
  PROVE  StreamInv'
<1>1. /\ Item /\ GraphTyped(graph) /\ graph.items < MaxItems /\ graph.items \in Nat /\ phase = "streaming"
      /\ Between(stream, graph.items, 0, interrupt, shown, graph.state)
      /\ interrupt \in {None, <<1>>, <<1, 2>>} /\ shown \in BOOLEAN /\ (shown => scene.values)
  BY ItemIs DEF Update
<1>2. Len(ts) \in Nat /\ DOMAIN ts = 1 .. Len(ts) /\ (\A i \in 1 .. Len(ts) : ts[i] \in Tools) /\ Range(ts) \subseteq Tools
  BY ListOf
<1>3. PICK h : h = graph'
  OBVIOUS
<1>4. GraphTyped(h) /\ h.items = graph.items + 1 /\ h.state = graph.state
  BY <1>1, <1>2, <1>3, UpdatedTypes DEF Update
<1>5. PICK ms : ms = [i \in DOMAIN ts |-> InUpdate(ts[i], i)]
  OBVIOUS
<1>6. Len(ms) = Len(ts) /\ \A i \in 1 .. Len(ts) : ms[i] = InUpdate(ts[i], i)
  <2>1. DOMAIN ms = 1 .. Len(ts)
    BY <1>2, <1>5
  <2> QED  BY <1>2, <1>5, <2>1
<1>7. ASSUME NEW i \in 1 .. Len(ms) PROVE ms[i].index = i - 1 /\ Proper(ms[i], graph.items, i - 1)
  <2>1. PICK run : run = <<"update", graph.items>>
    OBVIOUS
  <2>2. PICK k : k = i - 1
    OBVIOUS
  <2>3. k \in Nat
    BY <1>2, <1>6, <2>2
  <2>4. PICK x \in Tools : x = ts[i]
    BY <1>2, <1>6
  <2>5. ms[i] = Returned(x, run, k)
    BY <1>6, <2>1, <2>2, <2>4 DEF InUpdate
  <2>6. Returned(x, run, k).index = k /\ Proper(Returned(x, run, k), graph.items, k)
    BY <1>1, <2>1, <2>3, ReturnedIsProper
  <2> QED  BY <2>2, <2>5, <2>6
<1>8. PICK t : t = FromUpdate(stream, ts)
  OBVIOUS
<1>9. Between(t, graph.items, Len(ms), interrupt, shown, graph.state)
  <2>1. t = HandleAll(stream, ms)
    BY <1>5, <1>8 DEF FromUpdate
  <2> QED  BY <1>1, <1>2, <1>6, <1>7, <2>1, HandleAllBetween
<1>10. stream' = Tell(t, Forwarded(items)) /\ interrupt' = Noted(items) /\ UNCHANGED <<scene, shown, result, phase>>
  BY <1>8 DEF Update
<1>11. Between(stream', graph.items, Len(ms), Noted(items), shown, graph.state)
  BY <1>1, <1>2, <1>6, <1>9, <1>10, ForwardedBetween
<1>12. Between(stream', graph.items, Len(ms), interrupt', shown', graph'.state)
  BY <1>3, <1>4, <1>10, <1>11
<1>13. Len(ms) \in Nat /\ interrupt' \in {None, <<1>>, <<1, 2>>} /\ shown' \in BOOLEAN /\ (shown' => scene.values)
  BY <1>1, <1>2, <1>6, <1>10 DEF Noted, None
<1> QED  BY <1>1, <1>3, <1>4, <1>10, <1>12, <1>13, NextItem

LEMMA ValuesHolds == ASSUME StreamInv, Values PROVE StreamInv'
<1>1. /\ Item /\ GraphTyped(graph) /\ graph.items < MaxItems /\ graph.items \in Nat /\ phase = "streaming"
      /\ Between(stream, graph.items, 0, interrupt, shown, graph.state)
      /\ interrupt \in {None, <<1>>, <<1, 2>>} /\ shown \in BOOLEAN /\ (shown => scene.values)
  BY ItemIs DEF Values
<1>2. PICK h : h = graph'
  OBVIOUS
<1>3. GraphTyped(h) /\ h.items = graph.items + 1 /\ h.state = graph.state + 1
  BY <1>1, <1>2, StateTypes DEF Values
<1>4. /\ stream' = Tell(stream, <<Shown(graph.state + 1)>>) /\ shown' = TRUE /\ scene.values
      /\ UNCHANGED <<scene, interrupt, result, phase>>
  BY DEF Values
<1>5. Between(stream', graph.items, 0, interrupt, TRUE, graph.state + 1)
  BY <1>1, <1>4, ShownBetween
<1>6. Between(stream', graph.items, 0, interrupt', shown', graph'.state)
  BY <1>2, <1>3, <1>4, <1>5
<1>7. shown' \in BOOLEAN /\ (shown' => scene.values) /\ interrupt' \in {None, <<1>>, <<1, 2>>}
  BY <1>1, <1>4
<1> QED  BY <1>1, <1>2, <1>3, <1>4, <1>6, <1>7, NextItem

-----------------------------------------------------------------------------
(* The beginning, the end, and the theorems.                               *)

LEMMA NothingFits ==
  ASSUME stream = [identities |-> <<>>, open |-> <<>>, parts |-> <<>>, seen |-> {}, log |-> <<>>]
  PROVE  Fit(stream, 0, 0)
<1>1. /\ stream.identities = <<>> /\ stream.open = <<>> /\ stream.parts = <<>> /\ stream.seen = {} /\ stream.log = <<>>
      /\ stream = [identities |-> stream.identities, open |-> stream.open, parts |-> stream.parts,
                   seen |-> stream.seen, log |-> stream.log]
  OBVIOUS
<1>2. IsStream(stream)
  BY <1>1, ListEmpty DEF IsStream
<1>3. DOMAIN stream.identities = {} /\ DOMAIN stream.open = {} /\ DOMAIN stream.parts = {} /\ DOMAIN stream.log = {}
  BY <1>1, ListEmpty
<1>4. Range(stream.identities) = {}
  BY <1>3 DEF Range
<1> QED  BY <1>1, <1>2, <1>3, <1>4 DEF Fit, Messages, Logged, Heard, Keyed, Titled, Kept

LEMMA InitHolds == Init => StreamInv
<1> SUFFICES ASSUME Init PROVE StreamInv
  OBVIOUS
<1>1. graph.items = 0 /\ graph.step = 0 /\ graph.state = 0 /\ IsGraph(graph) /\ graph.chunks = [c \in Calls |-> 0]
      /\ graph.ended = {} /\ graph.taken = {} /\ graph.tools = {} /\ graph.updated = {}
  BY DEF Init, IsGraph, Graph
<1>2. GraphTyped(graph)
  BY <1>1, BoundsAssumption DEF GraphTyped
<1>3. Scenery
  BY <1>2 DEF Init, Scenery
<1>4. Fit(stream, 0, 0)
  BY NothingFits DEF Init
<1>5. DOMAIN stream.log = {} /\ interrupt = None /\ shown = FALSE /\ result = "unread"
  BY ListEmpty DEF Init
<1>6. Watched(stream.log, interrupt, shown, graph.state)
  BY <1>5 DEF Watched, Pending, Paused, Unasked
<1>7. Streaming
  BY <1>1, <1>4, <1>5, <1>6 DEF Streaming, Between
<1>8. Consistent
  BY <1>4, <1>5, FitHolds DEF Consistent, EndTellsAll, Settled
<1> QED  BY <1>3, <1>7, <1>8 DEF StreamInv

\* The end: the stream is closed, then the interrupts are announced.
LEMMA EndHolds ==
  ASSUME StreamInv, NEW final \in {"none", "other", "mapping"}, NEW cs \in Named, End(final, cs)
  PROVE  StreamInv'
<1>1. /\ phase = "streaming" /\ Between(stream, graph.items, 0, interrupt, shown, graph.state)
      /\ interrupt \in {None, <<1>>, <<1, 2>>} /\ shown \in BOOLEAN /\ (shown => scene.values)
  BY DEF StreamInv, Scenery, Streaming, End
<1>2. Cardinality(Calls) \in Nat
  BY CallsAssumption, FS_CardinalityType
<1>3. Len(cs) \in Nat
  BY <1>2, ListOf DEF Named
<1>4. /\ stream' = Tell(Finalize(stream, final, cs), Requested(interrupt))
      /\ result' = final /\ phase' = "done" /\ UNCHANGED <<scene, graph, interrupt, shown>>
      /\ shown => graph.state = graph.step
  BY <1>1 DEF End
<1>5. PICK r : r = Finalize(stream, final, cs)
  OBVIOUS
<1>6. /\ IsStream(r) /\ StreamTyped(r) /\ Identified(r.log) /\ Balanced(r.log)
      /\ final \notin {"none", "other"} => r.open = <<>> /\ AllEnded(r.log)
      /\ \E l : EndsAs(stream, final, r, l)
  BY <1>1, <1>3, <1>5, FinalizeEnds DEF Between
<1>7. PICK asks : asks = Requested(interrupt)
  OBVIOUS
<1>8. IsList(asks) /\ \A i \in 1 .. Len(asks) : asks[i].event \notin SdkEvents \cup ProtocolEvents
  BY <1>1, <1>7, RequestedIs DEF SdkEvents, ProtocolEvents
<1>9. PICK t : t = Tell(r, asks)
  OBVIOUS
<1>10. /\ StreamTyped(t) /\ Identified(t.log) /\ Balanced(t.log)
       /\ t.open = r.open /\ t.log = r.log \o asks
       /\ AllEnded(r.log) => AllEnded(t.log)
  BY <1>6, <1>8, <1>9, TellEnds
<1>11. stream' = t
  BY <1>4, <1>5, <1>7, <1>9
<1>12. Scenery'
  BY <1>4 DEF StreamInv, Scenery
<1>13. Streaming'
  BY <1>4 DEF Streaming
<1>14. Watched(stream.log, interrupt, shown, graph.step)
  BY <1>1, <1>4 DEF Between, Watched
<1>15. PICK m : m = t.log
  OBVIOUS
<1>16. TellsAll(m, final)
  <2>1. PICK l : EndsAs(stream, final, r, l)
    BY <1>6
  <2>2. IsList(stream.log)
    BY <1>1 DEF Between, Fit, IsStream
  <2>3. m = r.log \o Requested(interrupt)
    BY <1>7, <1>10, <1>15
  <2> QED  BY <1>1, <1>14, <2>1, <2>2, <2>3, EndTold
<1>17. EndTellsAll'
  BY <1>4, <1>11, <1>15, <1>16 DEF EndTellsAll, TellsAll
<1>18. StreamTyped(stream)' /\ Identified(stream.log)' /\ Balanced(stream.log)'
  BY <1>4, <1>10, <1>11, ToldStays
<1>19. (result = "mapping" => stream.open = <<>> /\ AllEnded(stream.log))'
  BY <1>4, <1>6, <1>10, <1>11
<1>20. Consistent'
  BY <1>17, <1>18, <1>19 DEF Consistent
<1> QED  BY <1>12, <1>13, <1>20 DEF StreamInv

LEMMA NextHolds == StreamInv /\ [Next]_vars => StreamInv'
<1> SUFFICES ASSUME StreamInv, [Next]_vars PROVE StreamInv'
  OBVIOUS
<1>1. ASSUME NEW c \in Calls, NEW piece \in Pieces, Chunk(c, piece) PROVE StreamInv'
  BY <1>1, ChunkHolds
<1>2. ASSUME NEW c \in Calls, NEW piece \in Pieces \cup {Silent}, Whole(c, piece) PROVE StreamInv'
  BY <1>2, WholeHolds
<1>3. ASSUME NEW cs \in SeqOf(Calls, Cardinality(Calls)), Output(cs) PROVE StreamInv'
  BY <1>3, OutputHolds
<1>4. ASSUME NEW t \in Tools, NodeMessage(t) PROVE StreamInv'
  BY <1>4, NodeMessageHolds
<1>5. ASSUME NEW ts \in SeqOf(Tools, 2), NEW items \in {<<>>, << 1 >>, << 1, 2 >>}, Update(ts, items) PROVE StreamInv'
  BY <1>5, UpdateHolds
<1>6. ASSUME Values PROVE StreamInv'
  BY <1>6, ValuesHolds
<1>7. ASSUME NEW final \in {"none", "other", "mapping"}, NEW cs \in Named, End(final, cs) PROVE StreamInv'
  BY <1>7, EndHolds
<1>8. ASSUME Break PROVE StreamInv'
  <2>1. GraphTyped(graph')
    BY <1>8 DEF Break, StreamInv, Scenery
  <2> QED  BY <1>8, <2>1, Fails DEF Break
<1>9. ASSUME UNCHANGED vars PROVE StreamInv'
  <2>1. /\ scene' = scene /\ graph' = graph /\ stream' = stream /\ interrupt' = interrupt /\ shown' = shown
        /\ result' = result /\ phase' = phase
    BY <1>9 DEF vars
  <2>2. Scenery'
    BY <2>1 DEF StreamInv, Scenery
  <2>3. Streaming'
    <3>1. SUFFICES ASSUME phase = "streaming"
                   PROVE  Between(stream, graph.items, 0, interrupt, shown, graph.state)' /\ result' = "unread"
      BY <2>1 DEF Streaming
    <3>2. result = "unread" /\ Between(stream', graph.items', 0, interrupt', shown', graph.state')
      BY <2>1, <3>1 DEF StreamInv, Streaming
    <3> QED  BY <2>1, <3>2, BetweenStays
  <2>4. StreamTyped(stream)' /\ Identified(stream.log)' /\ Balanced(stream.log)'
    BY <2>1, ToldStays DEF StreamInv, Consistent
  <2>5. EndTellsAll'
    BY <2>1 DEF StreamInv, Consistent, EndTellsAll, Settled
  <2>6. Consistent'
    BY <2>1, <2>4, <2>5 DEF StreamInv, Consistent
  <2> QED  BY <2>2, <2>3, <2>6 DEF StreamInv
<1> QED  BY <1>1, <1>2, <1>3, <1>4, <1>5, <1>6, <1>7, <1>8, <1>9 DEF Next

\* What execute_run holds of messages fits its log as long as the graph streams, and the log is
\* consistent whenever the execution stops (_handle_live_message, _finalize_stream).
THEOREM StreamInvariant == Spec => []StreamInv
<1>1. Init => StreamInv
  BY InitHolds
<1>2. StreamInv /\ [Next]_vars => StreamInv'
  BY NextHolds
<1> QED  BY <1>1, <1>2, PTL DEF Spec

\* The types; identities are those of messages that were begun, each open once, and an end with
\* a mapping leaves none open (MessageIdentityTracker, afinish_all).
THEOREM TypesHold == Spec => []TypeOK
<1>1. StreamInv => TypeOK
  BY DEF StreamInv, Scenery, GraphTyped, Consistent, StreamTyped, TypeOK
<1> QED  BY <1>1, StreamInvariant, PTL

\* An id never names two messages, and a message keeps its id wherever its source names it or
\* astream is used, for any calls, chunks, outputs and updates in any order
\* (MessageIdentityTracker.resolve).
THEOREM IdentitiesHold == Spec => []OneIdentity
<1>1. StreamInv => OneIdentity
  BY DEF StreamInv, Consistent, Identified, LiveIn, OneIdentity
<1> QED  BY <1>1, StreamInvariant, PTL

\* The blocks of every message nest in the protocol's stream, and an end with a mapping leaves no
\* message unfinished (_ProtocolMessageStreamState, publish_message_transcript).
THEOREM BlocksHold == Spec => []BlocksBalanced
<1>1. StreamInv => BlocksBalanced
  BY DEF StreamInv, Consistent, Balanced, AllEnded, Ended, Ids, BlocksBalanced
<1> QED  BY <1>1, StreamInvariant, PTL

\* An execution that ends has told the final state, and last of all every request for input
\* (_handle_stream_mode, _finalize_stream, execute_run).
THEOREM EndsTold == Spec => []EndTellsAll
<1>1. StreamInv => EndTellsAll
  BY DEF StreamInv, Consistent
<1> QED  BY <1>1, StreamInvariant, PTL

-----------------------------------------------------------------------------
(* What the clients of the SDK are told of one message.                    *)

Concerns(e, id) == e.event \in SdkEvents /\ e.id = id

\* Nothing new that concerns a message: what was told of it is as before.
LEMMA ToldStill ==
  ASSUME NEW l, IsList(l), NEW m, Grows(l, m), NEW id, \A n \in New(l, m) : ~Concerns(m[n], id),
         NEW events \in SUBSET SdkEvents
  PROVE  /\ Told(m, id, events) = Told(l, id, events)
         /\ \A n \in Told(l, id, events) : m[n] = l[n]
<1>1. /\ DOMAIN l \subseteq DOMAIN m
      /\ \A n \in DOMAIN m : n \in DOMAIN l \/ n \in New(l, m)
      /\ \A n \in DOMAIN l : m[n] = l[n]
  BY GrowsOver
<1> QED  BY <1>1 DEF Told, Concerns

\* m is l with e at its end.
Adds(l, m, e) == IsList(l) /\ m = Append(l, e)

\* One event more: it is told of its own message, and of no other.
LEMMA ToldMore ==
  ASSUME NEW l, NEW m, NEW e, Adds(l, m, e), NEW id
  PROVE  /\ IsList(m) /\ Len(l) \in Nat /\ m[Len(l) + 1] = e
         /\ \A events : Told(m, id, events) =
              IF e.event \in events /\ e.id = id THEN Told(l, id, events) \cup {Len(l) + 1} ELSE Told(l, id, events)
<1>1. /\ IsList(m) /\ Len(l) \in Nat /\ Grows(l, m) /\ m[Len(l) + 1] = e
      /\ DOMAIN l = 1 .. Len(l) /\ DOMAIN m = 1 .. Len(l) + 1
  BY ListAppend, ListIs DEF Adds
<1>2. /\ \A n \in 1 .. Len(l) : m[n] = l[n] /\ n \in 1 .. Len(l) + 1
      /\ \A n \in 1 .. Len(l) + 1 : n \in 1 .. Len(l) \/ n = Len(l) + 1
      /\ Len(l) + 1 \in 1 .. Len(l) + 1
  BY <1>1 DEF Grows
<1>3. ASSUME NEW events
      PROVE  Told(m, id, events) =
              IF e.event \in events /\ e.id = id THEN Told(l, id, events) \cup {Len(l) + 1} ELSE Told(l, id, events)
  BY <1>1, <1>2 DEF Told
<1> QED  BY <1>1, <1>3

\* ... an event of the message and of the kind,
LEMMA ToldWith ==
  ASSUME NEW l, NEW m, NEW e, Adds(l, m, e), NEW id, e.id = id, NEW events, e.event \in events
  PROVE  Told(m, id, events) = Told(l, id, events) \cup {Len(l) + 1}
<1>1. Told(m, id, events) =
        IF e.event \in events /\ e.id = id THEN Told(l, id, events) \cup {Len(l) + 1} ELSE Told(l, id, events)
  BY ToldMore
<1> QED  BY <1>1

\* ... and one of another kind.
LEMMA ToldWithout ==
  ASSUME NEW l, NEW m, NEW e, Adds(l, m, e), NEW id, NEW events, e.event \notin events
  PROVE  Told(m, id, events) = Told(l, id, events)
<1>1. Told(m, id, events) =
        IF e.event \in events /\ e.id = id THEN Told(l, id, events) \cup {Len(l) + 1} ELSE Told(l, id, events)
  BY ToldMore
<1> QED  BY <1>1

\* What was told stays in the log.
LEMMA ToldBefore ==
  ASSUME NEW l, NEW m, NEW e, Adds(l, m, e), NEW id, NEW events
  PROVE  \A n \in Told(l, id, events) : n \in 1 .. Len(l) /\ m[n] = l[n]
<1>1. IsList(l) /\ Grows(l, m)
  BY ListAppend DEF Adds
<1>2. DOMAIN l = 1 .. Len(l)
  BY <1>1, ListIs
<1> QED  BY <1>1, <1>2 DEF Told, Grows

Untold(l, id) == Told(l, id, SdkEvents) = {}

\* Its metadata is told once, before everything else.
Headed(l, id) ==
  \A n \in Told(l, id, SdkEvents) : l[n].event = "metadata" <=> First(n, Told(l, id, SdkEvents))

\* What the last partial of a message held.
Latest(l, id, content) ==
  \E p \in Told(l, id, {"partial"}) : Final(p, Told(l, id, {"partial"})) /\ l[p].content = content

\* A message not told of before begins with its metadata.
LEMMA HeadedFirst ==
  ASSUME NEW l, NEW m, NEW e, Adds(l, m, e), NEW id, Untold(l, id), e.event = "metadata", e.id = id
  PROVE  /\ Headed(m, id) /\ ~Untold(m, id)
         /\ \A events \in SUBSET (SdkEvents \ {"metadata"}) : Told(m, id, events) = {}
<1> DEFINE k == Len(l) + 1
<1>1. "metadata" \in SdkEvents
  BY DEF SdkEvents
<1>2. Told(m, id, SdkEvents) = {k}
  <2>1. Told(m, id, SdkEvents) = Told(l, id, SdkEvents) \cup {k}
    BY <1>1, ToldWith
  <2> QED  BY <2>1 DEF Untold
<1>3. m[k] = e /\ k \in Nat
  BY ToldMore
<1>4. First(k, {k})
  BY <1>3 DEF First
<1>5. Headed(m, id)
  BY <1>2, <1>3, <1>4 DEF Headed
<1>6. ASSUME NEW events \in SUBSET (SdkEvents \ {"metadata"}) PROVE Told(m, id, events) = {}
  <2>1. Told(m, id, events) = Told(l, id, events)
    BY ToldWithout
  <2>2. Told(l, id, events) \subseteq Told(l, id, SdkEvents)
    BY DEF Told
  <2> QED  BY <2>1, <2>2 DEF Untold
<1> QED  BY <1>2, <1>5, <1>6 DEF Untold

\* A message with its metadata at its head keeps it there when more is told.
LEMMA HeadedNext ==
  ASSUME NEW l, NEW m, NEW e, Adds(l, m, e), NEW id, Headed(l, id), ~Untold(l, id),
         e.event \in SdkEvents \ {"metadata"}, e.id = id
  PROVE  Headed(m, id) /\ ~Untold(m, id)
<1> DEFINE k == Len(l) + 1
           T == Told(l, id, SdkEvents)
<1>1. Told(m, id, SdkEvents) = T \cup {k}
  BY ToldWith
<1>2. m[k] = e /\ k \in Nat /\ Len(l) \in Nat
  BY ToldMore
<1>3. \A n \in T : n \in 1 .. Len(l) /\ m[n] = l[n]
  BY ToldBefore
<1>4. PICK x \in T : TRUE
  BY DEF Untold
<1>5. ~First(k, T \cup {k})
  <2>1. x \in T \cup {k} /\ ~(k <= x)
    BY <1>2, <1>3, <1>4
  <2> QED  BY <2>1 DEF First
<1>6. ASSUME NEW n \in T PROVE First(n, T \cup {k}) <=> First(n, T)
  <2>1. n <= k
    BY <1>2, <1>3
  <2> QED  BY <2>1 DEF First
<1>7. \A n \in T : l[n].event = "metadata" <=> First(n, T)
  BY DEF Headed
<1> HIDE DEF k, T
<1>8. \A n \in T \cup {k} : m[n].event = "metadata" <=> First(n, T \cup {k})
  BY <1>2, <1>3, <1>5, <1>6, <1>7
<1> QED  BY <1>1, <1>4, <1>8 DEF Headed, Untold

\* A new partial is the last one.
LEMMA LatestNext ==
  ASSUME NEW l, NEW m, NEW e, Adds(l, m, e), NEW id
  PROVE  /\ e.event = "partial" /\ e.id = id => Latest(m, id, e.content)
         /\ e.event # "partial" => \A content : Latest(l, id, content) => Latest(m, id, content)
<1> DEFINE k == Len(l) + 1
           T == Told(l, id, {"partial"})
<1>1. m[k] = e /\ k \in Nat /\ Len(l) \in Nat
  BY ToldMore
<1>2. \A n \in T : n \in 1 .. Len(l) /\ m[n] = l[n]
  BY ToldBefore
<1>3. ASSUME e.event = "partial", e.id = id PROVE Latest(m, id, e.content)
  <2>1. Told(m, id, {"partial"}) = T \cup {k}
    BY <1>3, ToldWith
  <2>2. Final(k, T \cup {k})
    <3>1. \A n \in T \cup {k} : n <= k
      BY <1>1, <1>2
    <3> QED  BY <3>1 DEF Final
  <2> QED  BY <1>1, <2>1, <2>2 DEF Latest
<1>4. ASSUME e.event # "partial", NEW content, Latest(l, id, content) PROVE Latest(m, id, content)
  <2>1. Told(m, id, {"partial"}) = T
    <3>1. e.event \notin {"partial"}
      BY <1>4
    <3> QED  BY <3>1, ToldWithout
  <2> QED  BY <1>2, <1>4, <2>1 DEF Latest
<1> QED  BY <1>3, <1>4

-----------------------------------------------------------------------------
(* The text that the tuples of a message add up to.                        *)

Assembling(f, l, id) ==
  f = [n \in 0..Len(l) |->
        IF n = 0 THEN Silent
        ELSE IF ~(l[n].event = "tuple" /\ l[n].id = id) THEN f[n - 1]
        ELSE IF l[n].whole THEN l[n].content
        ELSE Add(f[n - 1], l[n].content)]

\* The tuples of a message add up event by event.
LEMMA AssembledRuns ==
  ASSUME NEW l, Len(l) \in Nat, NEW id, NEW par, par.log = l, par.id = id
  PROVE  \E g : Runs(g, "assemble", Silent, Len(l), par) /\ Assembled(l, id) = g[Len(l)]
<1>1. PICK g : Runs(g, "assemble", Silent, Len(l), par)
  BY RunsExist
<1>2. \A j \in 0 .. Len(l) : j = 0 \/ j \in 1 .. Len(l)
  OBVIOUS
<1>3. \A j \in 0 .. Len(l) :
        g[j] = IF j = 0 THEN Silent
               ELSE IF ~(l[j].event = "tuple" /\ l[j].id = id) THEN g[j - 1]
               ELSE IF l[j].whole THEN l[j].content
               ELSE Add(g[j - 1], l[j].content)
  BY <1>1, <1>2 DEF Runs, StepOf
<1>4. g = [j \in 0 .. Len(l) |-> g[j]]
  BY <1>1 DEF Runs
<1>5. Assembling(g, l, id)
  BY <1>3, <1>4 DEF Assembling
<1>6. PICK f : f = CHOOSE h : Assembling(h, l, id)
  OBVIOUS
<1>7. Assembling(f, l, id)
  BY <1>5, <1>6
<1>8. Assembled(l, id) = f[Len(l)]
  BY <1>6 DEF Assembled, Assembling
<1>9. \A j \in 0 .. Len(l) :
        f[j] = IF j = 0 THEN Silent
               ELSE IF ~(l[j].event = "tuple" /\ l[j].id = id) THEN f[j - 1]
               ELSE IF l[j].whole THEN l[j].content
               ELSE Add(f[j - 1], l[j].content)
  BY <1>7 DEF Assembling
<1>10. f = [j \in 0 .. Len(l) |-> f[j]]
  BY <1>7 DEF Assembling
<1>11. Runs(f, "assemble", Silent, Len(l), par)
  <2>1. 0 \in 0 .. Len(l) /\ \A j \in 1 .. Len(l) : j \in 0 .. Len(l) /\ j # 0
    OBVIOUS
  <2> QED  BY <1>9, <1>10, <2>1 DEF Runs, StepOf
<1> QED  BY <1>8, <1>11

\* Two logs add up to the same as far as they are the same.
LEMMA AssembledAlike ==
  ASSUME NEW l, IsList(l), NEW m, Grows(l, m), NEW id, NEW a, NEW b, a.log = l, a.id = id, b.log = m, b.id = id,
         NEW f, Runs(f, "assemble", Silent, Len(l), a), NEW g, Runs(g, "assemble", Silent, Len(m), b)
  PROVE  f[Len(l)] = g[Len(l)]
<1> DEFINE T == {k \in 0 .. Len(l) : f[k] # g[k]}
<1>1. Len(l) \in Nat /\ Len(m) \in Nat /\ Len(l) <= Len(m) /\ \A n \in 1 .. Len(l) : m[n] = l[n]
  BY ListIs DEF Grows
<1>2. T \in SUBSET (0 .. Len(l))
  OBVIOUS
<1>3. 0 \notin T
  BY DEF Runs
<1>4. ASSUME NEW k \in 1 .. Len(l), k - 1 \notin T PROVE k \notin T
  <2>1. k - 1 \in 0 .. Len(l) /\ k \in 1 .. Len(m)
    BY <1>1
  <2>2. f[k - 1] = g[k - 1]
    BY <1>4, <2>1
  <2>3. f[k] = StepOf("assemble", f[k - 1], k, a) /\ g[k] = StepOf("assemble", g[k - 1], k, b)
    BY <2>1 DEF Runs
  <2>4. StepOf("assemble", f[k - 1], k, a) = StepOf("assemble", g[k - 1], k, b)
    <3>1. m[k] = l[k]
      BY <1>1
    <3> HIDE DEF T
    <3> QED  BY <2>2, <3>1 DEF StepOf
  <2> QED  BY <2>3, <2>4
<1> HIDE DEF T
<1>5. T = {}
  BY <1>1, <1>2, <1>3, <1>4, NoCounterexample
<1> QED  BY <1>1, <1>5 DEF T

\* Nothing added to the tuples of a message.
LEMMA AssembledStill ==
  ASSUME NEW l, IsList(l), NEW m, Grows(l, m), NEW id,
         \A n \in New(l, m) : ~(m[n].event = "tuple" /\ m[n].id = id)
  PROVE  Assembled(m, id) = Assembled(l, id)
<1>1. Len(l) \in Nat /\ Len(m) \in Nat /\ Len(l) <= Len(m)
  BY ListIs DEF Grows
<1>2. PICK a : a = [log |-> l, id |-> id]
  OBVIOUS
<1>3. PICK b : b = [log |-> m, id |-> id]
  OBVIOUS
<1>4. PICK f : Runs(f, "assemble", Silent, Len(l), a) /\ Assembled(l, id) = f[Len(l)]
  BY <1>1, <1>2, AssembledRuns
<1>5. PICK g : Runs(g, "assemble", Silent, Len(m), b) /\ Assembled(m, id) = g[Len(m)]
  BY <1>1, <1>3, AssembledRuns
<1>6. f[Len(l)] = g[Len(l)]
  BY <1>2, <1>3, <1>4, <1>5, AssembledAlike
<1> DEFINE T == {k \in 0 .. Len(m) : k > Len(l) /\ g[k] # g[Len(l)]}
<1>7. T \in SUBSET (0 .. Len(m)) /\ 0 \notin T
  BY <1>1
<1>8. ASSUME NEW k \in 1 .. Len(m), k - 1 \notin T PROVE k \notin T
  <2>1. SUFFICES ASSUME k > Len(l) PROVE g[k] = g[Len(l)]
    OBVIOUS
  <2>2. g[k - 1] = g[Len(l)]
    <3>1. k - 1 = Len(l) \/ (k - 1 > Len(l) /\ k - 1 \in 0 .. Len(m))
      BY <1>1, <2>1
    <3> QED  BY <1>8, <3>1
  <2>3. g[k] = StepOf("assemble", g[k - 1], k, b)
    BY <1>5 DEF Runs
  <2>4. ~(m[k].event = "tuple" /\ m[k].id = id)
    <3>1. k \in New(l, m)
      BY <1>1, <2>1 DEF New
    <3> QED  BY <3>1
  <2>5. StepOf("assemble", g[k - 1], k, b) = g[k - 1]
    <3> HIDE DEF T
    <3> QED  BY <1>3, <2>4 DEF StepOf
  <2> QED  BY <2>2, <2>3, <2>5
<1> HIDE DEF T
<1>9. T = {}
  BY <1>1, <1>7, <1>8, NoCounterexample
<1>10. g[Len(m)] = g[Len(l)]
  <2>1. Len(m) = Len(l) \/ Len(m) > Len(l)
    BY <1>1
  <2>2. Len(m) \in 0 .. Len(m)
    BY <1>1
  <2> QED  BY <1>9, <2>1, <2>2 DEF T
<1> QED  BY <1>4, <1>5, <1>6, <1>10

\* One more tuple of the message.
LEMMA AssembledNext ==
  ASSUME NEW l, NEW m, NEW e, Adds(l, m, e), NEW id, e.event = "tuple", e.id = id
  PROVE  Assembled(m, id) = IF e.whole THEN e.content ELSE Add(Assembled(l, id), e.content)
<1>1. Len(l) \in Nat /\ IsList(m) /\ Len(m) = Len(l) + 1 /\ Len(m) \in Nat /\ IsList(l) /\ Grows(l, m) /\ m[Len(m)] = e
  BY ListIs, ListAppend DEF Adds
<1>2. PICK a : a = [log |-> l, id |-> id]
  OBVIOUS
<1>3. PICK b : b = [log |-> m, id |-> id]
  OBVIOUS
<1>4. PICK f : Runs(f, "assemble", Silent, Len(l), a) /\ Assembled(l, id) = f[Len(l)]
  BY <1>1, <1>2, AssembledRuns
<1>5. PICK g : Runs(g, "assemble", Silent, Len(m), b) /\ Assembled(m, id) = g[Len(m)]
  BY <1>1, <1>3, AssembledRuns
<1>6. f[Len(l)] = g[Len(l)]
  BY <1>1, <1>2, <1>3, <1>4, <1>5, AssembledAlike
<1>7. g[Len(m)] = StepOf("assemble", g[Len(m) - 1], Len(m), b)
  <2>1. Len(m) \in 1 .. Len(m)
    BY <1>1
  <2> QED  BY <1>5, <2>1 DEF Runs
<1>8. Len(m) - 1 = Len(l)
  BY <1>1
<1>9. StepOf("assemble", g[Len(l)], Len(m), b) = IF e.whole THEN e.content ELSE Add(g[Len(l)], e.content)
  BY <1>1, <1>3 DEF StepOf
<1> QED  BY <1>4, <1>5, <1>6, <1>7, <1>8, <1>9

\* A message without tuples says nothing.
LEMMA AssembledNothing ==
  ASSUME NEW l, IsList(l), NEW id, Told(l, id, {"tuple"}) = {}
  PROVE  Assembled(l, id) = Silent
<1>1. PICK z : z = <<>>
  OBVIOUS
<1>2. IsList(z) /\ Len(z) = 0 /\ Len(l) \in Nat /\ DOMAIN l = 1 .. Len(l)
  BY <1>1, ListEmpty, ListIs
<1>3. Grows(z, l)
  BY <1>2 DEF Grows
<1>4. \A n \in New(z, l) : ~(l[n].event = "tuple" /\ l[n].id = id)
  BY <1>2 DEF New, Told
<1>5. Assembled(l, id) = Assembled(z, id)
  BY <1>2, <1>3, <1>4, AssembledStill
<1>6. Assembled(z, id) = Silent
  <2>1. PICK a : a = [log |-> z, id |-> id]
    OBVIOUS
  <2>2. PICK f : Runs(f, "assemble", Silent, Len(z), a) /\ Assembled(z, id) = f[Len(z)]
    BY <1>2, <2>1, AssembledRuns
  <2> QED  BY <1>2, <2>2 DEF Runs
<1> QED  BY <1>5, <1>6

-----------------------------------------------------------------------------
(* A message of a model, and one of a node, for the clients of the SDK.    *)

Uncompleted(l, id) == Told(l, id, {"complete"}) = {}

\* Its metadata was told, and it is not complete.
Started(l, id) == Headed(l, id) /\ ~Untold(l, id) /\ Uncompleted(l, id)

\* What a call has said, as far as it was handled, is its last partial and its tuples' sum.
ToldCall(l, id, content) ==
  /\ Started(l, id) /\ Latest(l, id, content)
  /\ scene.tuples => Assembled(l, id) = content

\* A message of a node is complete from the start.
ToldNode(l, id) ==
  /\ Headed(l, id) /\ Told(l, id, {"partial"}) = {} /\ \E n : Told(l, id, {"complete"}) = {n}

\* The events of the SDK.
LEMMA SdkEventsAre ==
  /\ {"partial"} \in SUBSET SdkEvents /\ {"complete"} \in SUBSET SdkEvents /\ {"tuple"} \in SUBSET SdkEvents
  /\ SdkEvents \in SUBSET SdkEvents
  /\ {"partial"} \in SUBSET (SdkEvents \ {"metadata"}) /\ {"complete"} \in SUBSET (SdkEvents \ {"metadata"})
  /\ {"tuple"} \in SUBSET (SdkEvents \ {"metadata"})
  /\ \A x \in {"tuple", "partial", "complete"} : x \in SdkEvents \ {"metadata"}
BY DEF SdkEvents

\* What is told of other messages changes nothing.
LEMMA SdkQuiet ==
  ASSUME NEW l, IsList(l), NEW m, Grows(l, m), NEW id, \A n \in New(l, m) : ~Concerns(m[n], id)
  PROVE  /\ Untold(l, id) => Untold(m, id)
         /\ \A content : ToldCall(l, id, content) => ToldCall(m, id, content)
         /\ ToldNode(l, id) => ToldNode(m, id)
<1>1. /\ Told(m, id, SdkEvents) = Told(l, id, SdkEvents)
      /\ \A n \in Told(l, id, SdkEvents) : m[n] = l[n]
  BY SdkEventsAre, ToldStill
<1>2. /\ Told(m, id, {"partial"}) = Told(l, id, {"partial"})
      /\ \A n \in Told(l, id, {"partial"}) : m[n] = l[n]
  BY SdkEventsAre, ToldStill
<1>3. Told(m, id, {"complete"}) = Told(l, id, {"complete"})
  BY SdkEventsAre, ToldStill
<1>4. Assembled(m, id) = Assembled(l, id)
  <2>1. \A n \in New(l, m) : ~(m[n].event = "tuple" /\ m[n].id = id)
    BY DEF Concerns, SdkEvents
  <2> QED  BY <2>1, AssembledStill
<1>5. Headed(l, id) => Headed(m, id)
  BY <1>1 DEF Headed
<1>6. ASSUME NEW content, Latest(l, id, content) PROVE Latest(m, id, content)
  BY <1>2, <1>6 DEF Latest
<1>7. ASSUME NEW content, ToldCall(l, id, content) PROVE ToldCall(m, id, content)
  BY <1>1, <1>3, <1>4, <1>5, <1>6, <1>7 DEF ToldCall, Started, Untold, Uncompleted
<1> QED  BY <1>1, <1>2, <1>3, <1>5, <1>7 DEF Untold, ToldNode

\* The metadata of a call's message, seen first.
LEMMA StartedFirst ==
  ASSUME NEW l, NEW m, NEW e, Adds(l, m, e), NEW id, Untold(l, id), e.event = "metadata", e.id = id
  PROVE  Started(m, id) /\ Told(m, id, {"partial"}) = {} /\ Assembled(m, id) = Silent /\ IsList(m)
<1>1. Headed(m, id) /\ ~Untold(m, id)
  BY HeadedFirst
<1>2. Told(m, id, {"partial"}) = {}
  BY SdkEventsAre, HeadedFirst
<1>3. Told(m, id, {"complete"}) = {}
  BY SdkEventsAre, HeadedFirst
<1>4. Told(m, id, {"tuple"}) = {}
  BY SdkEventsAre, HeadedFirst
<1>5. IsList(m)
  BY ToldMore
<1> QED  BY <1>1, <1>2, <1>3, <1>4, <1>5, AssembledNothing DEF Started, Uncompleted

\* One more event of a message that has begun.
LEMMA StartedNext ==
  ASSUME NEW l, NEW m, NEW e, Adds(l, m, e), NEW id, Started(l, id), e.event \in {"tuple", "partial"}, e.id = id
  PROVE  Started(m, id) /\ IsList(m)
<1>1. Headed(m, id) /\ ~Untold(m, id)
  BY SdkEventsAre, HeadedNext DEF Started
<1>2. Told(m, id, {"complete"}) = Told(l, id, {"complete"})
  <2>1. e.event \notin {"complete"}
    OBVIOUS
  <2> QED  BY <2>1, ToldWithout
<1>3. IsList(m)
  BY ToldMore
<1> QED  BY <1>1, <1>2, <1>3 DEF Started, Uncompleted

\* The events of one more piece of a call's message, after its metadata.
LEMMA CallNext ==
  ASSUME NEW k, NEW j, NEW l, NEW id, NEW e, NEW f, e.id = id, f.id = id, e.event = "tuple", f.event = "partial",
         Started(k, id),
         IF scene.tuples THEN Adds(k, j, e) ELSE j = k,
         Adds(j, l, f),
         scene.tuples => f.content = IF e.whole THEN e.content ELSE Add(Assembled(k, id), e.content)
  PROVE  ToldCall(l, id, f.content)
<1>1. Started(j, id)
  BY StartedNext
<1>2. Started(l, id)
  BY <1>1, StartedNext
<1>3. Latest(l, id, f.content)
  BY LatestNext
<1>4. ASSUME scene.tuples PROVE Assembled(l, id) = f.content
  <2>1. Assembled(j, id) = IF e.whole THEN e.content ELSE Add(Assembled(k, id), e.content)
    BY <1>4, AssembledNext
  <2>2. IsList(j) /\ Grows(j, l) /\ New(j, l) = {Len(j) + 1} /\ l[Len(j) + 1] = f
    BY ListAppend DEF Adds
  <2>3. \A n \in New(j, l) : ~(l[n].event = "tuple" /\ l[n].id = id)
    BY <2>2
  <2>4. Assembled(l, id) = Assembled(j, id)
    BY <2>2, <2>3, AssembledStill
  <2> QED  BY <1>4, <2>1, <2>4
<1> QED  BY <1>2, <1>3, <1>4 DEF ToldCall

\* A message of a node, seen first.
LEMMA NodeFirst ==
  ASSUME NEW l, NEW k, NEW j, NEW t, NEW id, NEW d, NEW e, NEW f, d.id = id, e.id = id, f.id = id,
         d.event = "metadata", e.event = "complete", f.event = "tuple",
         Untold(l, id), Adds(l, k, d), Adds(k, j, e),
         IF scene.tuples THEN Adds(j, t, f) ELSE t = j
  PROVE  ToldNode(t, id)
<1>1. Started(k, id) /\ Told(k, id, {"partial"}) = {}
  BY StartedFirst
<1>2. /\ Headed(j, id) /\ ~Untold(j, id)
      /\ Told(j, id, {"complete"}) = {Len(k) + 1} /\ Told(j, id, {"partial"}) = {}
  <2>1. Headed(j, id) /\ ~Untold(j, id)
    BY <1>1, SdkEventsAre, HeadedNext DEF Started
  <2>2. Told(j, id, {"complete"}) = Told(k, id, {"complete"}) \cup {Len(k) + 1}
    <3>1. e.event \in {"complete"}
      OBVIOUS
    <3> QED  BY <3>1, ToldWith
  <2>3. Told(j, id, {"partial"}) = Told(k, id, {"partial"})
    <3>1. e.event \notin {"partial"}
      OBVIOUS
    <3> QED  BY <3>1, ToldWithout
  <2> QED  BY <1>1, <2>1, <2>2, <2>3 DEF Started, Uncompleted
<1>3. CASE scene.tuples
  <2>1. Adds(j, t, f)
    BY <1>3
  <2>2. Headed(t, id)
    BY <1>2, <2>1, SdkEventsAre, HeadedNext
  <2>3. f.event \notin {"complete"} /\ f.event \notin {"partial"}
    OBVIOUS
  <2>4. Told(t, id, {"complete"}) = Told(j, id, {"complete"})
    BY <2>1, <2>3, ToldWithout
  <2>5. Told(t, id, {"partial"}) = Told(j, id, {"partial"})
    BY <2>1, <2>3, ToldWithout
  <2> QED  BY <1>2, <2>2, <2>4, <2>5 DEF ToldNode
<1>4. CASE ~scene.tuples
  <2>1. t = j
    BY <1>4
  <2> QED  BY <1>2, <2>1 DEF ToldNode
<1> QED  BY <1>3, <1>4

-----------------------------------------------------------------------------
(* What the handling of one message tells the clients of the SDK.          *)

\* What is told at once, one event and two.
LEMMA AddsOne ==
  ASSUME NEW l, IsList(l), NEW e
  PROVE  Adds(l, l \o <<e>>, e)
BY OneMore DEF Adds

\* ... two.
LEMMA AddsTwo ==
  ASSUME NEW l, IsList(l), NEW e, NEW f, NEW m, m = l \o (<<e>> \o <<f>>)
  PROVE  \E j : Adds(l, j, e) /\ Adds(j, m, f)
<1>1. PICK S : l \in Seq(S)
  BY DEF IsList
<1>2. PICK R : R = S \cup {e, f}
  OBVIOUS
<1>3. PICK a, b : a = <<e>> /\ b = <<f>>
  OBVIOUS
<1>4. l \in Seq(R) /\ a \in Seq(R) /\ b \in Seq(R)
  BY <1>1, <1>2, <1>3
<1>5. l \o (a \o b) = (l \o a) \o b
  BY <1>4, ConcatAssociative
<1>6. PICK j : j = Append(l, e)
  OBVIOUS
<1>7. IsList(j)
  BY <1>6, ListAppend
<1>8. l \o a = j
  BY <1>3, <1>6, OneMore
<1>9. j \o b = Append(j, f)
  BY <1>3, <1>7, OneMore
<1>10. m = Append(j, f)
  BY <1>3, <1>5, <1>8, <1>9
<1> QED  BY <1>6, <1>7, <1>10 DEF Adds

\* What is told is at the end of the log.
LEMMA TellLog ==
  ASSUME NEW u, IsStream(u), NEW events, NEW t, t = Tell(u, events)
  PROVE  t.log = u.log \o events /\ IsList(u.log)
<1>1. PICK l : l = u.log \o events
  OBVIOUS
<1>2. t = Record(u.identities, u.open, u.parts, u.seen, l)
  BY <1>1, TellIs
<1>3. t.log = l
  BY <1>2 DEF Record
<1> QED  BY <1>1, <1>3 DEF IsStream

\* The fields of an event of the SDK.
LEMMA SdkIs ==
  ASSUME NEW event, NEW id, NEW m, NEW content
  PROVE  LET e == Sdk(event, id, m, content) IN
         e.event = event /\ e.id = id /\ e.content = content /\ e.whole = m.whole /\ e.of = m.of
BY DEF Sdk

\* The metadata is told of a message not seen before (_handle_live_message).
LEMMA MetadataTells ==
  ASSUME NEW s, IsStream(s), NEW id, NEW m, NEW t, t = Metadata(s, m, id)
  PROVE  IF id \in s.seen THEN t = s ELSE Adds(s.log, t.log, Sdk("metadata", id, m, Silent))
<1>1. CASE id \in s.seen
  BY <1>1 DEF Metadata
<1>2. CASE id \notin s.seen
  <2>1. PICK a : a = s.seen \cup {id}
    OBVIOUS
  <2>2. PICK u : u = [s EXCEPT !.seen = a]
    OBVIOUS
  <2>3. u = Record(s.identities, s.open, s.parts, a, s.log)
    BY <2>2 DEF IsStream, Record
  <2>4. PICK e : e = Sdk("metadata", id, m, Silent)
    OBVIOUS
  <2>5. t = Tell(u, <<e>>)
    BY <1>2, <2>1, <2>2, <2>4 DEF Metadata
  <2>6. /\ u.log = s.log /\ u.open = s.open /\ u.parts = s.parts
        /\ u = [identities |-> u.identities, open |-> u.open, parts |-> u.parts, seen |-> u.seen, log |-> u.log]
    BY <2>3, RecordOf
  <2>7. IsStream(u)
    BY <2>6 DEF IsStream
  <2>8. PICK events : events = <<e>>
    OBVIOUS
  <2>9. t.log = s.log \o <<e>>
    BY <2>5, <2>6, <2>7, <2>8, TellLog
  <2>10. IsList(s.log)
    BY DEF IsStream
  <2> QED  BY <1>2, <2>4, <2>9, <2>10, AddsOne
<1> QED  BY <1>1, <1>2

\* The events of a piece of a model's message, and of a message of a node.
CallTold(k, l, m, id, content) ==
  \E j : /\ IF scene.tuples THEN Adds(k, j, Sdk("tuple", id, m, m.content)) ELSE j = k
         /\ Adds(j, l, Sdk("partial", id, m, content))

NodeTold(k, l, m, id) ==
  \E j : /\ Adds(k, j, Sdk("complete", id, m, m.content))
         /\ IF scene.tuples THEN Adds(j, l, Sdk("tuple", id, m, m.content)) ELSE l = j

\* A piece is told as what its call has said by then, and as a tuple (_handle_live_message).
LEMMA PartialTells ==
  ASSUME NEW s, IsStream(s), NEW id, NEW m, NEW t, t = Partial(s, m, id), IsList(PartsWith(s, m, id)),
         NEW content, content = Accumulate(s.parts, Position(s.parts, id), m)
  PROVE  CallTold(s.log, t.log, m, id, content)
<1>1. PICK a : a = PartsWith(s, m, id)
  OBVIOUS
<1>2. PICK u : u = [s EXCEPT !.parts = a]
  OBVIOUS
<1>3. u = Record(s.identities, s.open, a, s.seen, s.log)
  BY <1>2 DEF IsStream, Record
<1>4. PICK e : e = Sdk("tuple", id, m, m.content)
  OBVIOUS
<1>5. PICK f : f = Sdk("partial", id, m, content)
  OBVIOUS
<1>6. PICK events : events = (IF scene.tuples THEN <<e>> ELSE <<>>) \o <<f>>
  OBVIOUS
<1>7. t = Tell(u, events)
  <2>1. t = Tell([s EXCEPT !.parts = PartsWith(s, m, id)], (IF scene.tuples THEN <<e>> ELSE <<>>) \o <<f>>)
    BY <1>4, <1>5 DEF Partial, PartsWith
  <2> QED  BY <1>1, <1>2, <1>6, <2>1
<1>8. /\ u.log = s.log /\ u.open = s.open /\ u.parts = a
      /\ u = [identities |-> u.identities, open |-> u.open, parts |-> u.parts, seen |-> u.seen, log |-> u.log]
  BY <1>3, RecordOf
<1>9. IsStream(u) /\ IsList(s.log)
  BY <1>1, <1>8 DEF IsStream
<1>10. t.log = u.log \o events
  BY <1>7, <1>9, TellLog
<1>11. t.log = s.log \o events
  BY <1>8, <1>10
<1>12. CASE scene.tuples
  <2>1. t.log = s.log \o (<<e>> \o <<f>>)
    BY <1>6, <1>11, <1>12
  <2>2. \E j : Adds(s.log, j, e) /\ Adds(j, t.log, f)
    BY <1>9, <2>1, AddsTwo
  <2> QED  BY <1>4, <1>5, <1>12, <2>2 DEF CallTold
<1>13. CASE ~scene.tuples
  <2>1. t.log = s.log \o <<f>>
    BY <1>6, <1>11, <1>13, ListNone
  <2>2. Adds(s.log, t.log, f)
    BY <1>9, <2>1, AddsOne
  <2> QED  BY <1>5, <1>13, <2>2 DEF CallTold
<1> QED  BY <1>12, <1>13

\* A message of a node, not seen before, is told complete after its metadata (_handle_live_message).
LEMMA CompleteTells ==
  ASSUME NEW s, IsStream(s), NEW id, NEW m, NEW seen, id \notin seen,
         NEW t, t = Complete(s, m, id, id \notin seen)
  PROVE  NodeTold(s.log, t.log, m, id)
<1>1. PICK e : e = Sdk("complete", id, m, m.content)
  OBVIOUS
<1>2. PICK f : f = Sdk("tuple", id, m, m.content)
  OBVIOUS
<1>3. PICK events : events = <<e>> \o (IF scene.tuples THEN <<f>> ELSE <<>>)
  OBVIOUS
<1>4. t = Tell(s, events)
  BY <1>1, <1>2, <1>3 DEF Complete
<1>6. t.log = s.log \o events /\ IsList(s.log)
  BY <1>4, TellLog
<1>7. CASE scene.tuples
  <2>1. t.log = s.log \o (<<e>> \o <<f>>)
    BY <1>3, <1>6, <1>7
  <2>2. \E j : Adds(s.log, j, e) /\ Adds(j, t.log, f)
    BY <1>6, <2>1, AddsTwo
  <2> QED  BY <1>1, <1>2, <1>7, <2>2 DEF NodeTold
<1>8. CASE ~scene.tuples
  <2>1. t.log = s.log \o <<e>>
    BY <1>3, <1>6, <1>8, ListNone
  <2>2. Adds(s.log, t.log, e)
    BY <1>6, <2>1, AddsOne
  <2> QED  BY <1>1, <1>8, <2>2 DEF NodeTold
<1> QED  BY <1>7, <1>8

-----------------------------------------------------------------------------
(* What the handling of one message tells the clients of the SDK, and what *)
(* it leaves of the other messages.                                        *)

\* After the blocks of the message comes its metadata, if it is new: k is the log by then.
Prelude(s, k, m, id) ==
  \E l : /\ IsList(l) /\ Grows(s.log, l)
         /\ \A n \in New(s.log, l) : l[n].event \notin SdkEvents
         /\ IF id \in s.seen THEN k = l ELSE Adds(l, k, Sdk("metadata", id, m, Silent))

\* The open messages are those of s, and the one handled.
OpenWith(s, t, m, id) ==
  /\ IsStream(t) /\ Messages(t) /\ Logged(t) /\ Known(t, id, m.of)
  /\ \A i \in DOMAIN s.open :
       i \in DOMAIN t.open /\ t.open[i].id = s.open[i].id /\ t.open[i].of = s.open[i].of
  /\ \A i \in DOMAIN t.open :
       \/ i \in DOMAIN s.open /\ t.open[i].id = s.open[i].id /\ t.open[i].of = s.open[i].of
       \/ t.open[i].id = id /\ t.open[i].of = m.of

\* The message's identity is noted, the others stay.
IdentityNoted(s, t, m, id) ==
  /\ DOMAIN t.identities = DOMAIN s.identities \cup {Key(m)}
  /\ t.identities[Key(m)] = id
  /\ \A k \in DOMAIN s.identities : k # Key(m) => t.identities[k] = s.identities[k]

\* The parts stay a list.
LEMMA PartsWithIs ==
  ASSUME NEW s, IsStream(s), NEW m, NEW id
  PROVE  IsList(PartsWith(s, m, id))
<1> DEFINE at   == Position(s.parts, id)
           part == [id |-> id, of |-> m.of, content |-> Accumulate(s.parts, at, m)]
<1>1. PartsWith(s, m, id) = IF at = 0 THEN Append(s.parts, part) ELSE [s.parts EXCEPT ![at] = part]
  BY DEF PartsWith
<1>2. IsList(s.parts)
  BY DEF IsStream
<1>3. at = 0 \/ at \in DOMAIN s.parts
  BY <1>2, PositionIs
<1> HIDE DEF at, part
<1>4. IsList(Append(s.parts, part))
  BY <1>2, ListAppend
<1>5. at # 0 => IsList([s.parts EXCEPT ![at] = part])
  BY <1>2, <1>3, ListPut
<1> QED  BY <1>1, <1>4, <1>5

\* Only that message is told of.
SpokenOf(s, t, id) == Grows(s.log, t.log) /\ \A n \in New(s.log, t.log) : t.log[n].id = id

\* Handling a message tells the SDK of that message only.
LEMMA HandleTells ==
  ASSUME NEW s, NEW n \in Nat, NEW b \in Nat, Fit(s, n, b), NEW m, Proper(m, n, b),
         NEW id, id = Resolve(s.identities, m), NEW t, t = Handle(s, m)
  PROVE  /\ OpenWith(s, t, m, id) /\ IdentityNoted(s, t, m, id) /\ SpokenOf(s, t, id)
         /\ \E k : /\ Prelude(s, k, m, id)
                   /\ m.role = "ai" => /\ CallTold(k, t.log, m, id, Accumulate(s.parts, Position(s.parts, id), m))
                                       /\ t.parts = PartsWith(s, m, id)
                   /\ m.role # "ai" => /\ IF id \in s.seen THEN t.log = k ELSE NodeTold(k, t.log, m, id)
                                       /\ t.parts = s.parts
<1> DEFINE key == Key(m)
           ids == [k \in DOMAIN s.identities \cup {key} |-> IF k = key THEN id ELSE s.identities[k]]
           s1  == [s EXCEPT !.identities = [k \in DOMAIN @ \cup {key} |-> IF k = key THEN id ELSE @[k]]]
           s2  == Open(s1, m, id)
           s3  == Metadata(s2, m, id)
<1>1. IsStream(s) /\ Messages(s) /\ Logged(s)
  BY DEF Fit
<1>2. t = IF m.role = "ai" THEN Partial(s3, m, id) ELSE Complete(s3, m, id, id \notin s.seen)
  BY DEF Handle
<1>3. s1 = Record(ids, s.open, s.parts, s.seen, s.log)
  <2>1. PICK a : a = ids
    OBVIOUS
  <2>2. [s EXCEPT !.identities = a] = Record(a, s.open, s.parts, s.seen, s.log)
    BY <1>1 DEF IsStream, Record
  <2> QED  BY <2>1, <2>2
<1>4. /\ DOMAIN ids = DOMAIN s.identities \cup {key}
      /\ ids[key] = id
      /\ \A k \in DOMAIN s.identities : k # key => ids[k] = s.identities[k]
  OBVIOUS
<1>5. \A i \in DOMAIN s.open : s.open[i].id = id => s.open[i].of = m.of
  <2>1. /\ \A i \in DOMAIN s.open : s.open[i].id = id => s.open[i].of = m.of
        /\ Key(m) \in DOMAIN s.identities => s.identities[Key(m)] = id /\ Known(s, id, m.of)
        /\ Key(m) \notin DOMAIN s.identities =>
              /\ id \in {<<"provider", m.of>>, <<"own", m.of>>, <<"derived", Key(m)>>}
              /\ KeepsId(m.of) => id = IdOf(m.of)
    BY ResolveFits
  <2> QED  BY <2>1
<1> HIDE DEF ids, s1
<1>6. /\ s1.identities = ids /\ s1.open = s.open /\ s1.parts = s.parts /\ s1.seen = s.seen /\ s1.log = s.log
      /\ s1 = [identities |-> s1.identities, open |-> s1.open, parts |-> s1.parts, seen |-> s1.seen, log |-> s1.log]
  BY <1>3, RecordOf
<1>7. IsStream(s1)
  BY <1>1, <1>6 DEF IsStream
<1>8. Messages(s1) /\ Logged(s1)
  BY <1>1, <1>6 DEF Messages, Logged, Known
<1>9. Opened(s1, s2, id, m)
  BY <1>5, <1>6, <1>7, <1>8, OpenOpens
<1> HIDE DEF s2
<1>10. /\ IsStream(s2) /\ Messages(s2) /\ Logged(s2) /\ Known(s2, id, m.of)
       /\ s2.identities = ids /\ s2.seen = s.seen /\ s2.parts = s.parts
       /\ Grows(s.log, s2.log)
       /\ \A k \in New(s.log, s2.log) : s2.log[k].event \notin SdkEvents /\ s2.log[k].id = id
       /\ \A i \in DOMAIN s.open :
            i \in DOMAIN s2.open /\ s2.open[i].id = s.open[i].id /\ s2.open[i].of = s.open[i].of
       /\ \A i \in DOMAIN s2.open : i \in DOMAIN s.open \/ (s2.open[i].id = id /\ s2.open[i].of = m.of)
  BY <1>6, <1>9 DEF Opened, BlockEvents, SdkEvents
<1>11. Spread(s2, s3, id, m.of) /\ s3.parts = s.parts
  BY <1>10, MetadataSpreads
<1>12. IF id \in s2.seen THEN s3 = s2 ELSE Adds(s2.log, s3.log, Sdk("metadata", id, m, Silent))
  BY <1>10, MetadataTells
<1> HIDE DEF s3
<1>13. IsStream(s3) /\ Messages(s3) /\ Logged(s3) /\ Known(s3, id, m.of) /\ s3.open = s2.open /\ s3.identities = ids
  BY <1>10, <1>11 DEF Spread, Known
<1>14. IsList(s2.log)
  BY <1>10 DEF IsStream
<1>15. Prelude(s, s3.log, m, id)
  BY <1>10, <1>12, <1>14 DEF Prelude
<1>16. /\ Spread(s3, t, id, m.of)
       /\ m.role = "ai" => /\ CallTold(s3.log, t.log, m, id, Accumulate(s.parts, Position(s.parts, id), m))
                           /\ t.parts = PartsWith(s, m, id)
       /\ m.role # "ai" => /\ IF id \in s.seen THEN t.log = s3.log ELSE NodeTold(s3.log, t.log, m, id)
                           /\ t.parts = s.parts
  <2>1. CASE m.role = "ai"
    <3>1. t = Partial(s3, m, id)
      BY <1>2, <2>1
    <3>2. Spread(s3, t, id, m.of) /\ t.parts = PartsWith(s3, m, id)
      BY <1>13, <3>1, PartialSpreads
    <3>3. PartsWith(s3, m, id) = PartsWith(s, m, id)
      BY <1>11 DEF PartsWith
    <3>4. PICK content : content = Accumulate(s3.parts, Position(s3.parts, id), m)
      OBVIOUS
    <3>5. IsList(PartsWith(s3, m, id))
      BY <1>13, PartsWithIs
    <3>6. CallTold(s3.log, t.log, m, id, content)
      BY <1>13, <3>1, <3>4, <3>5, PartialTells
    <3> QED  BY <1>11, <2>1, <3>2, <3>3, <3>4, <3>6
  <2>2. CASE m.role # "ai"
    <3>1. t = Complete(s3, m, id, id \notin s.seen)
      BY <1>2, <2>2
    <3>2. Spread(s3, t, id, m.of) /\ t.parts = s3.parts
      BY <1>13, <3>1, CompleteSpreads
    <3>3. CASE id \in s.seen
      <4>1. t = s3
        BY <3>1, <3>3 DEF Complete
      <4> QED  BY <1>11, <2>2, <3>2, <3>3, <4>1
    <3>4. CASE id \notin s.seen
      <4>1. NodeTold(s3.log, t.log, m, id)
        BY <1>13, <3>1, <3>4, CompleteTells
      <4> QED  BY <1>11, <2>2, <3>2, <3>4, <4>1
    <3> QED  BY <3>3, <3>4
  <2> QED  BY <2>1, <2>2
<1>17. IsStream(t) /\ Messages(t) /\ Logged(t) /\ t.open = s2.open /\ t.identities = ids
  BY <1>13, <1>16 DEF Spread
<1>18. OpenWith(s, t, m, id)
  BY <1>10, <1>17 DEF OpenWith, Known
<1>19. IdentityNoted(s, t, m, id)
  BY <1>4, <1>17 DEF IdentityNoted
<1>20. SpokenOf(s, t, id)
  <2>1. Grows(s2.log, t.log) /\ \A k \in New(s2.log, t.log) : t.log[k].id = id
    <3>1. Spread(s2, t, id, m.of)
      BY <1>10, <1>11, <1>16, SpreadTrans
    <3> QED  BY <3>1 DEF Spread
  <2>2. IsList(s.log)
    BY <1>1 DEF IsStream
  <2>3. /\ Grows(s.log, t.log)
        /\ \A k \in New(s.log, t.log) : k \in New(s.log, s2.log) \/ k \in New(s2.log, t.log)
        /\ \A k \in New(s.log, s2.log) : t.log[k] = s2.log[k]
    BY <1>10, <2>1, <2>2, GrowsTrans
  <2> QED  BY <1>10, <2>1, <2>3 DEF SpokenOf
<1> QED  BY <1>15, <1>16, <1>18, <1>19, <1>20

-----------------------------------------------------------------------------
(* The parts of the calls' messages, and the messages of nodes.            *)

IsContent(a) == a = [text |-> a.text, tool |-> a.tool] /\ IsList(a.text) /\ a.tool \in Nat

\* A content and one more piece are a content.
LEMMA AddIs ==
  ASSUME NEW a, IsContent(a), NEW b, IsContent(b)
  PROVE  IsContent(Add(a, b))
<1>1. PICK x, y : x = a.text \o b.text /\ y = a.tool + b.tool
  OBVIOUS
<1>2. IsList(x)
  BY <1>1, ListConcat DEF IsContent
<1>3. y \in Nat
  BY <1>1 DEF IsContent
<1>4. PICK c : c = [text |-> x, tool |-> y]
  OBVIOUS
<1>5. Add(a, b) = c
  BY <1>1, <1>4 DEF Add
<1> QED  BY <1>2, <1>3, <1>4, <1>5 DEF IsContent

\* Silence is a content without text.
LEMMA SilentIs == IsContent(Silent) /\ Silent.text = <<>> /\ Silent.tool = 0
BY ListEmpty DEF IsContent, Silent

\* A content added to silence is the content.
LEMMA AddSilent ==
  ASSUME NEW a, IsContent(a)
  PROVE  Add(Silent, a) = a
<1>1. PICK S : a.text \in Seq(S)
  BY DEF IsContent, IsList
<1>2. <<>> \o a.text = a.text
  BY <1>1
<1>3. 0 + a.tool = a.tool
  BY DEF IsContent
<1>4. Add(Silent, a) = [text |-> <<>> \o a.text, tool |-> 0 + a.tool]
  BY DEF Add, Silent
<1> QED  BY <1>2, <1>3, <1>4 DEF IsContent

\* A message of a call has a part, and its clients were told as much; one of a node is complete.
Parted(s, id) == \E p \in DOMAIN s.parts : s.parts[p].id = id

\* Each part's message was told as much as it holds, a node's message complete from the start.
Heads(s) ==
  /\ \A p \in DOMAIN s.parts : ToldCall(s.log, s.parts[p].id, s.parts[p].content)
  /\ \A p, q \in DOMAIN s.parts : s.parts[p].id = s.parts[q].id => p = q
  /\ \A i \in DOMAIN s.open :
       \/ s.open[i].of \in Calls /\ Parted(s, s.open[i].id)
       \/ s.open[i].of \in Tools /\ ToldNode(s.log, s.open[i].id)

\* The part of one message is new or replaced, the others stay.
PartNoted(s, t, m, id, content) ==
  \E p \in DOMAIN t.parts :
    /\ t.parts[p].id = id /\ t.parts[p].of = m.of /\ t.parts[p].content = content
    /\ \A q \in DOMAIN t.parts : q # p => q \in DOMAIN s.parts /\ t.parts[q] = s.parts[q] /\ s.parts[q].id # id
    /\ \A q \in DOMAIN s.parts : q \in DOMAIN t.parts /\ t.parts[q].id = s.parts[q].id

\* The part a message leaves is its own; the others stay.
LEMMA PartsNoted ==
  ASSUME NEW s, IsStream(s), NEW m, NEW id, NEW t, t.parts = PartsWith(s, m, id),
         \A p, q \in DOMAIN s.parts : s.parts[p].id = s.parts[q].id => p = q,
         NEW content, content = Accumulate(s.parts, Position(s.parts, id), m)
  PROVE  PartNoted(s, t, m, id, content)
<1> DEFINE at == Position(s.parts, id)
<1>1. PICK part : part = [id |-> id, of |-> m.of, content |-> content]
  OBVIOUS
<1>2. part.id = id /\ part.of = m.of /\ part.content = content
  BY <1>1
<1>3. t.parts = IF at = 0 THEN Append(s.parts, part) ELSE [s.parts EXCEPT ![at] = part]
  BY <1>1 DEF PartsWith
<1>4. IsList(s.parts)
  BY DEF IsStream
<1>5. \/ at = 0 /\ \A i \in DOMAIN s.parts : s.parts[i].id # id
      \/ at # 0 /\ at \in DOMAIN s.parts /\ s.parts[at].id = id
  BY <1>4, PositionIs
<1> HIDE DEF at
<1>6. CASE at = 0
  <2>1. PICK a : a = Append(s.parts, part)
    OBVIOUS
  <2>2. /\ IsList(a) /\ a[Len(s.parts) + 1] = part /\ New(s.parts, a) = {Len(s.parts) + 1} /\ Grows(s.parts, a)
        /\ DOMAIN a = 1 .. Len(s.parts) + 1
    BY <1>4, <2>1, ListAppend
  <2>3. /\ \A n \in DOMAIN a : n \in DOMAIN s.parts \/ n \in New(s.parts, a)
        /\ \A n \in DOMAIN s.parts : a[n] = s.parts[n] /\ n \in DOMAIN a
    BY <1>4, <2>2, GrowsOver
  <2>4. Len(s.parts) \in Nat
    BY <1>4, ListIs
  <2>5. PICK p : p = Len(s.parts) + 1
    OBVIOUS
  <2>6. p \in DOMAIN a /\ a[p] = part
    BY <2>2, <2>4, <2>5
  <2>7. \A q \in DOMAIN a : q # p => q \in DOMAIN s.parts
    BY <2>2, <2>3, <2>5
  <2>8. t.parts = a
    BY <1>3, <1>6, <2>1
  <2> QED  BY <1>2, <1>5, <1>6, <2>3, <2>6, <2>7, <2>8 DEF PartNoted
<1>7. CASE at # 0
  <2>1. PICK a : a = [s.parts EXCEPT ![at] = part]
    OBVIOUS
  <2>2. at \in DOMAIN s.parts /\ s.parts[at].id = id
    BY <1>5, <1>7
  <2>3. DOMAIN a = DOMAIN s.parts /\ a[at] = part /\ \A n \in DOMAIN s.parts : n # at => a[n] = s.parts[n]
    BY <2>1, <2>2
  <2>4. t.parts = a
    BY <1>3, <1>7, <2>1
  <2>5. \A q \in DOMAIN s.parts : q # at => s.parts[q].id # id
    BY <2>2
  <2> QED  BY <1>2, <2>2, <2>3, <2>4, <2>5 DEF PartNoted
<1> QED  BY <1>6, <1>7

\* What a call has said is accumulated piece by piece, or replaced by its whole message.
LEMMA AccumulateIs ==
  ASSUME NEW s, IsStream(s), NEW m, NEW id, NEW content, content = Accumulate(s.parts, Position(s.parts, id), m)
  PROVE  \/ ~Parted(s, id) /\ content = m.content
         \/ \E q \in DOMAIN s.parts :
              /\ s.parts[q].id = id
              /\ content = IF m.whole THEN m.content ELSE Add(s.parts[q].content, m.content)
<1> DEFINE at == Position(s.parts, id)
<1>1. content = IF at = 0 \/ m.whole THEN m.content ELSE Add(s.parts[at].content, m.content)
  BY DEF Accumulate
<1>2. IsList(s.parts)
  BY DEF IsStream
<1>3. \/ at = 0 /\ \A i \in DOMAIN s.parts : s.parts[i].id # id
      \/ at # 0 /\ at \in DOMAIN s.parts /\ s.parts[at].id = id
  BY <1>2, PositionIs
<1> HIDE DEF at
<1>4. CASE at = 0
  BY <1>1, <1>3, <1>4 DEF Parted
<1>5. CASE at # 0
  BY <1>1, <1>3, <1>5
<1> QED  BY <1>4, <1>5

\* What comes before a message is told tells nothing but its metadata.
LEMMA PreludeQuiet ==
  ASSUME NEW s, IsStream(s), NEW k, NEW m, NEW id, Prelude(s, k, m, id)
  PROVE  \E l : /\ Untold(s.log, id) => Untold(l, id)
                /\ \A content : ToldCall(s.log, id, content) => ToldCall(l, id, content)
                /\ ToldNode(s.log, id) => ToldNode(l, id)
                /\ IF id \in s.seen THEN k = l ELSE Adds(l, k, Sdk("metadata", id, m, Silent))
<1>1. PICK l : /\ IsList(l) /\ Grows(s.log, l)
               /\ \A n \in New(s.log, l) : l[n].event \notin SdkEvents
               /\ IF id \in s.seen THEN k = l ELSE Adds(l, k, Sdk("metadata", id, m, Silent))
  BY DEF Prelude
<1>2. IsList(s.log)
  BY DEF IsStream
<1>3. \A n \in New(s.log, l) : ~Concerns(l[n], id)
  BY <1>1 DEF Concerns
<1>4. /\ Untold(s.log, id) => Untold(l, id)
      /\ \A content : ToldCall(s.log, id, content) => ToldCall(l, id, content)
      /\ ToldNode(s.log, id) => ToldNode(l, id)
  BY <1>1, <1>2, <1>3, SdkQuiet
<1> QED  BY <1>1, <1>4

\* Nothing was told of a message that was not seen.
LEMMA UnseenIs ==
  ASSUME NEW s, IsStream(s), Logged(s), Heard(s), NEW id, id \notin s.seen
  PROVE  Untold(s.log, id) /\ ~Parted(s, id)
<1>1. \A i \in DOMAIN s.open : s.open[i].id # id
  BY DEF Heard
<1>2. \A n \in DOMAIN s.log : s.log[n].event \in SdkEvents => s.log[n].id # id
  BY <1>1 DEF Logged, Known
<1>3. \A p \in DOMAIN s.parts : s.parts[p].id # id
  BY <1>1 DEF Logged, Known
<1> QED  BY <1>2, <1>3 DEF Untold, Told, Parted

\* A message that was seen is among those opened.
LEMMA SeenIs ==
  ASSUME NEW s, Heard(s), NEW id, id \in s.seen
  PROVE  \E i \in DOMAIN s.open : s.open[i].id = id
BY DEF Heard

\* A piece of a call's message: its last partial holds all that its part holds.
LEMMA CallTells ==
  ASSUME NEW s, IsStream(s), Logged(s), Heard(s), Heads(s), NEW m, m.of \in Calls, IsContent(m.content), NEW id,
         \A i \in DOMAIN s.open : s.open[i].id = id => s.open[i].of = m.of,
         NEW content, content = Accumulate(s.parts, Position(s.parts, id), m),
         NEW k, Prelude(s, k, m, id), NEW l, CallTold(k, l, m, id, content)
  PROVE  ToldCall(l, id, content)
<1>1. PICK e, f : e = Sdk("tuple", id, m, m.content) /\ f = Sdk("partial", id, m, content)
  OBVIOUS
<1>2. /\ e.event = "tuple" /\ e.id = id /\ e.content = m.content /\ e.whole = m.whole
      /\ f.event = "partial" /\ f.id = id /\ f.content = content
  BY <1>1, SdkIs
<1>3. PICK j : (IF scene.tuples THEN Adds(k, j, e) ELSE j = k) /\ Adds(j, l, f)
  BY <1>1 DEF CallTold
<1>4. PICK h : /\ Untold(s.log, id) => Untold(h, id)
               /\ \A x : ToldCall(s.log, id, x) => ToldCall(h, id, x)
               /\ IF id \in s.seen THEN k = h ELSE Adds(h, k, Sdk("metadata", id, m, Silent))
  BY PreludeQuiet
<1>5. Started(k, id) /\ (scene.tuples => content = IF m.whole THEN m.content ELSE Add(Assembled(k, id), m.content))
  <2>1. CASE id \in s.seen
    <3>1. PICK i \in DOMAIN s.open : s.open[i].id = id
      BY <2>1, SeenIs
    <3>2. s.open[i].of = m.of
      BY <3>1
    <3>3. Parted(s, id)
      <4>1. m.of \notin Tools
        BY CallsAssumption
      <4> QED  BY <3>1, <3>2, <4>1 DEF Heads
    <3>4. PICK q \in DOMAIN s.parts :
            /\ s.parts[q].id = id
            /\ content = IF m.whole THEN m.content ELSE Add(s.parts[q].content, m.content)
      BY <3>3, AccumulateIs
    <3>5. ToldCall(s.log, id, s.parts[q].content)
      BY <3>4 DEF Heads
    <3>6. ToldCall(k, id, s.parts[q].content)
      BY <1>4, <2>1, <3>5
    <3> QED  BY <3>4, <3>6 DEF ToldCall
  <2>2. CASE id \notin s.seen
    <3>1. Untold(s.log, id) /\ ~Parted(s, id)
      BY <2>2, UnseenIs
    <3>2. content = m.content
      BY <3>1, AccumulateIs DEF Parted
    <3>3. PICK d : d = Sdk("metadata", id, m, Silent)
      OBVIOUS
    <3>4. d.event = "metadata" /\ d.id = id
      BY <3>3, SdkIs
    <3>5. Untold(h, id) /\ Adds(h, k, d)
      BY <1>4, <2>2, <3>1, <3>3
    <3>6. Started(k, id) /\ Assembled(k, id) = Silent
      BY <3>4, <3>5, StartedFirst
    <3>7. Add(Silent, m.content) = m.content
      BY AddSilent
    <3> QED  BY <3>2, <3>6, <3>7
  <2> QED  BY <2>1, <2>2
<1>6. scene.tuples => f.content = IF e.whole THEN e.content ELSE Add(Assembled(k, id), e.content)
  BY <1>2, <1>5
<1>7. ToldCall(l, id, f.content)
  BY <1>2, <1>3, <1>5, <1>6, CallNext
<1> QED  BY <1>2, <1>7

\* A message of a node: complete from the start.
LEMMA NodeTells ==
  ASSUME NEW s, IsStream(s), Logged(s), Heard(s), Heads(s), NEW m, m.of \in Tools, NEW id,
         \A i \in DOMAIN s.open : s.open[i].id = id => s.open[i].of = m.of,
         NEW k, Prelude(s, k, m, id), NEW l,
         IF id \in s.seen THEN l = k ELSE NodeTold(k, l, m, id)
  PROVE  ToldNode(l, id)
<1>1. PICK h : /\ Untold(s.log, id) => Untold(h, id)
               /\ ToldNode(s.log, id) => ToldNode(h, id)
               /\ IF id \in s.seen THEN k = h ELSE Adds(h, k, Sdk("metadata", id, m, Silent))
  BY PreludeQuiet
<1>2. CASE id \in s.seen
  <2>1. PICK i \in DOMAIN s.open : s.open[i].id = id
    BY <1>2, SeenIs
  <2>2. s.open[i].of = m.of
    BY <2>1
  <2>3. m.of \notin Calls
    BY CallsAssumption
  <2>4. ToldNode(s.log, id)
    BY <2>1, <2>2, <2>3 DEF Heads
  <2> QED  BY <1>1, <1>2, <2>4
<1>3. CASE id \notin s.seen
  <2>1. PICK d, e, f : /\ d = Sdk("metadata", id, m, Silent) /\ e = Sdk("complete", id, m, m.content)
                       /\ f = Sdk("tuple", id, m, m.content)
    OBVIOUS
  <2>2. /\ d.event = "metadata" /\ d.id = id /\ e.event = "complete" /\ e.id = id
        /\ f.event = "tuple" /\ f.id = id
    BY <2>1, SdkIs
  <2>3. PICK j : Adds(k, j, e) /\ IF scene.tuples THEN Adds(j, l, f) ELSE l = j
    BY <1>3, <2>1 DEF NodeTold
  <2>4. Untold(h, id) /\ Adds(h, k, d)
    BY <1>1, <1>3, <2>1, UnseenIs
  <2> QED  BY <2>2, <2>3, <2>4, NodeFirst
<1> QED  BY <1>2, <1>3

\* No message is told both as a call's and as a node's.
LEMMA CallOrNode ==
  ASSUME NEW l, NEW id, NEW content, ToldCall(l, id, content)
  PROVE  ~ToldNode(l, id)
BY DEF ToldCall, ToldNode, Latest

\* What was told of other messages holds on.
LEMMA OthersStay ==
  ASSUME NEW s, IsStream(s), NEW t, NEW id, SpokenOf(s, t, id), NEW other, other # id
  PROVE  /\ \A content : ToldCall(s.log, other, content) => ToldCall(t.log, other, content)
         /\ ToldNode(s.log, other) => ToldNode(t.log, other)
<1>1. IsList(s.log)
  BY DEF IsStream
<1>2. Grows(s.log, t.log) /\ \A n \in New(s.log, t.log) : ~Concerns(t.log[n], other)
  BY DEF SpokenOf, Concerns
<1> QED  BY <1>1, <1>2, SdkQuiet

\* A message of a call, or one that a node made.
Ours(m) ==
  \/ m.role = "ai" /\ m.of \in Calls /\ IsContent(m.content)
  \/ m.role = "tool" /\ m.of \in Tools

\* Handling a call's message keeps what is told of every message right.
LEMMA CallHeads ==
  ASSUME NEW s, Heads(s), NEW m, m.of \in Calls, NEW id, IsStream(s),
         \A i \in DOMAIN s.open : s.open[i].id = id => s.open[i].of = m.of,
         NEW t, OpenWith(s, t, m, id), SpokenOf(s, t, id), NEW content, ToldCall(t.log, id, content),
         PartNoted(s, t, m, id, content)
  PROVE  Heads(t)
<1>1. PICK p \in DOMAIN t.parts :
        /\ t.parts[p].id = id /\ t.parts[p].of = m.of /\ t.parts[p].content = content
        /\ \A q \in DOMAIN t.parts : q # p => q \in DOMAIN s.parts /\ t.parts[q] = s.parts[q] /\ s.parts[q].id # id
        /\ \A q \in DOMAIN s.parts : q \in DOMAIN t.parts /\ t.parts[q].id = s.parts[q].id
  BY DEF PartNoted
<1>2. ASSUME NEW q \in DOMAIN t.parts
      PROVE  ToldCall(t.log, t.parts[q].id, t.parts[q].content)
  <2>1. CASE q = p
    BY <1>1, <2>1
  <2>2. CASE q # p
    <3>1. q \in DOMAIN s.parts /\ t.parts[q] = s.parts[q] /\ s.parts[q].id # id
      BY <1>1, <2>2
    <3>2. ToldCall(s.log, s.parts[q].id, s.parts[q].content)
      BY <3>1 DEF Heads
    <3>3. ToldCall(t.log, s.parts[q].id, s.parts[q].content)
      BY <3>1, <3>2, OthersStay
    <3> QED  BY <3>1, <3>3
  <2> QED  BY <2>1, <2>2
<1>3. ASSUME NEW q \in DOMAIN t.parts, NEW r \in DOMAIN t.parts, t.parts[q].id = t.parts[r].id
      PROVE  q = r
  <2>1. q # p /\ r # p => q \in DOMAIN s.parts /\ r \in DOMAIN s.parts /\ s.parts[q].id = s.parts[r].id
    BY <1>1, <1>3
  <2>2. q # p => t.parts[q].id # id
    BY <1>1
  <2>3. r # p => t.parts[r].id # id
    BY <1>1
  <2> QED  BY <1>1, <1>3, <2>1, <2>2, <2>3 DEF Heads
<1>4. ASSUME NEW i \in DOMAIN t.open
      PROVE  \/ t.open[i].of \in Calls /\ Parted(t, t.open[i].id)
             \/ t.open[i].of \in Tools /\ ToldNode(t.log, t.open[i].id)
  <2>1. CASE t.open[i].id = id /\ t.open[i].of = m.of
    BY <1>1, <2>1 DEF Parted
  <2>2. CASE i \in DOMAIN s.open /\ t.open[i].id = s.open[i].id /\ t.open[i].of = s.open[i].of
    <3>1. CASE s.open[i].of \in Calls /\ Parted(s, s.open[i].id)
      BY <1>1, <2>2, <3>1 DEF Parted
    <3>2. CASE s.open[i].of \in Tools /\ ToldNode(s.log, s.open[i].id)
      <4>1. s.open[i].id # id
        BY <2>2, <3>2, CallsAssumption
      <4> QED  BY <2>2, <3>2, <4>1, OthersStay
    <3> QED  BY <2>2, <3>1, <3>2 DEF Heads
  <2> QED  BY <2>1, <2>2 DEF OpenWith
<1> QED  BY <1>2, <1>3, <1>4 DEF Heads

\* Handling a node's message does too,
LEMMA NodeHeads ==
  ASSUME NEW s, Heads(s), NEW m, m.of \in Tools, NEW id, IsStream(s), Logged(s),
         \A i \in DOMAIN s.open : s.open[i].id = id => s.open[i].of = m.of,
         NEW t, OpenWith(s, t, m, id), SpokenOf(s, t, id), ToldNode(t.log, id), t.parts = s.parts
  PROVE  Heads(t)
<1>1. ASSUME NEW p \in DOMAIN s.parts
      PROVE  s.parts[p].id # id
  <2>1. SUFFICES ASSUME s.parts[p].id = id PROVE FALSE
    OBVIOUS
  <2>2. PICK i \in DOMAIN s.open : s.open[i].id = id
    BY <2>1 DEF Logged, Known
  <2>3. s.open[i].of \notin Calls
    BY <2>2, CallsAssumption
  <2>4. ToldNode(s.log, id)
    BY <2>2, <2>3 DEF Heads
  <2>5. ToldCall(s.log, id, s.parts[p].content)
    BY <2>1 DEF Heads
  <2> QED  BY <2>4, <2>5, CallOrNode
<1>2. ASSUME NEW p \in DOMAIN t.parts
      PROVE  ToldCall(t.log, t.parts[p].id, t.parts[p].content)
  <2>1. ToldCall(s.log, s.parts[p].id, s.parts[p].content)
    BY DEF Heads
  <2>2. s.parts[p].id # id
    BY <1>1
  <2> QED  BY <2>1, <2>2, OthersStay
<1>3. \A p, q \in DOMAIN t.parts : t.parts[p].id = t.parts[q].id => p = q
  BY DEF Heads
<1>4. ASSUME NEW i \in DOMAIN t.open
      PROVE  \/ t.open[i].of \in Calls /\ Parted(t, t.open[i].id)
             \/ t.open[i].of \in Tools /\ ToldNode(t.log, t.open[i].id)
  <2>1. CASE t.open[i].id = id /\ t.open[i].of = m.of
    BY <2>1
  <2>2. CASE i \in DOMAIN s.open /\ t.open[i].id = s.open[i].id /\ t.open[i].of = s.open[i].of
    <3>1. CASE s.open[i].of \in Calls /\ Parted(s, s.open[i].id)
      BY <2>2, <3>1 DEF Parted
    <3>2. CASE s.open[i].of \in Tools /\ ToldNode(s.log, s.open[i].id)
      <4>1. CASE s.open[i].id = id
        BY <2>2, <3>2, <4>1
      <4>2. CASE s.open[i].id # id
        BY <2>2, <3>2, <4>2, OthersStay
      <4> QED  BY <4>1, <4>2
    <3> QED  BY <2>2, <3>1, <3>2 DEF Heads
  <2> QED  BY <2>1, <2>2 DEF OpenWith
<1> QED  BY <1>2, <1>3, <1>4 DEF Heads

\* ... and so does handling any message.
LEMMA HandleHeads ==
  ASSUME NEW s, NEW n \in Nat, NEW b \in Nat, Fit(s, n, b), NEW m, Proper(m, n, b), Heads(s), Ours(m),
         NEW id, id = Resolve(s.identities, m), NEW t, t = Handle(s, m),
         NEW content, content = Accumulate(s.parts, Position(s.parts, id), m)
  PROVE  /\ Heads(t) /\ IdentityNoted(s, t, m, id)
         /\ m.role = "ai" => PartNoted(s, t, m, id, content)
         /\ m.role # "ai" => t.parts = s.parts
<1>1. IsStream(s) /\ Logged(s) /\ Heard(s)
  BY DEF Fit
<1>2. \A i \in DOMAIN s.open : s.open[i].id = id => s.open[i].of = m.of
  <2>1. /\ \A i \in DOMAIN s.open : s.open[i].id = id => s.open[i].of = m.of
        /\ Key(m) \in DOMAIN s.identities => s.identities[Key(m)] = id /\ Known(s, id, m.of)
        /\ Key(m) \notin DOMAIN s.identities =>
              /\ id \in {<<"provider", m.of>>, <<"own", m.of>>, <<"derived", Key(m)>>}
              /\ KeepsId(m.of) => id = IdOf(m.of)
    BY ResolveFits
  <2> QED  BY <2>1
<1>3. PICK k :
        /\ OpenWith(s, t, m, id) /\ IdentityNoted(s, t, m, id) /\ SpokenOf(s, t, id)
        /\ Prelude(s, k, m, id)
        /\ m.role = "ai" => CallTold(k, t.log, m, id, content) /\ t.parts = PartsWith(s, m, id)
        /\ m.role # "ai" => /\ IF id \in s.seen THEN t.log = k ELSE NodeTold(k, t.log, m, id)
                            /\ t.parts = s.parts
  BY HandleTells
<1>4. CASE m.role = "ai" /\ m.of \in Calls /\ IsContent(m.content)
  <2>1. PICK l : l = t.log
    OBVIOUS
  <2>2. ToldCall(l, id, content)
    BY <1>1, <1>2, <1>3, <1>4, <2>1, CallTells
  <2>3. \A p, q \in DOMAIN s.parts : s.parts[p].id = s.parts[q].id => p = q
    BY DEF Heads
  <2>4. PartNoted(s, t, m, id, content)
    BY <1>1, <1>3, <1>4, <2>3, PartsNoted
  <2>5. Heads(t)
    BY <1>1, <1>2, <1>3, <1>4, <2>1, <2>2, <2>4, CallHeads
  <2> QED  BY <1>3, <1>4, <2>4, <2>5
<1>5. CASE m.role = "tool" /\ m.of \in Tools
  <2>1. PICK l : l = t.log
    OBVIOUS
  <2>2. IF id \in s.seen THEN l = k ELSE NodeTold(k, l, m, id)
    BY <1>3, <1>5, <2>1
  <2>3. ToldNode(l, id)
    BY <1>1, <1>2, <1>3, <1>5, <2>2, NodeTells
  <2>4. Heads(t)
    BY <1>1, <1>2, <1>3, <1>5, <2>1, <2>3, NodeHeads
  <2> QED  BY <1>3, <1>5, <2>4
<1> QED  BY <1>4, <1>5 DEF Ours

-----------------------------------------------------------------------------
(* What the calls have said, and the parts of their messages.              *)

CallKey(c) == <<<<"call", c>>, scene.ns[c], 0>>

\* What the calls have said are contents.
Worded(said) == said = [c \in Calls |-> said[c]] /\ \A c \in Calls : IsContent(said[c])

\* Every part holds what its call has said.  A call that has not ended has one message, by the
\* id its callback's note, its event or its metadata decided; after that an output of the call may be
\* another message.
Says(s, said, ended) ==
  /\ \A p \in DOMAIN s.parts :
       /\ s.parts[p].of \in Calls /\ s.parts[p].content = said[s.parts[p].of]
       /\ s.parts[p].of \notin ended => s.parts[p].id = IdOf(s.parts[p].of)
  /\ \A c \in Calls : c \notin ended /\ said[c] # Silent => Parted(s, IdOf(c))
  /\ \A c \in Calls : CallKey(c) \in DOMAIN s.identities => s.identities[CallKey(c)] = IdOf(c)

\* A message under its call's key gets the call's id.
KeyFits(m) ==
  \A c \in Calls :
    Key(m) = CallKey(c) =>
      IF ProviderId(m) # None THEN ProviderId(m) = IdOf(c) ELSE <<"derived", CallKey(c)>> = IdOf(c)

\* A call's key is no other call's.
LEMMA CallKeyIs ==
  ASSUME NEW c \in Calls, NEW d \in Calls, CallKey(c) = CallKey(d)
  PROVE  c = d
BY DEF CallKey

\* A call's message is told under the identity its call was known by.
LEMMA ResolvesKey ==
  ASSUME NEW s, NEW said, NEW ended, Says(s, said, ended), NEW m, KeyFits(m), NEW id, id = Resolve(s.identities, m),
         NEW c \in Calls, Key(m) = CallKey(c)
  PROVE  id = IdOf(c)
BY DEF Says, KeyFits, Resolve

\* What is noted under a call's key stays the call's identity.
LEMMA KeysNoted ==
  ASSUME NEW s, NEW said, NEW ended, Says(s, said, ended), NEW m, KeyFits(m), NEW id, id = Resolve(s.identities, m),
         NEW t, IdentityNoted(s, t, m, id), NEW c \in Calls, CallKey(c) \in DOMAIN t.identities
  PROVE  t.identities[CallKey(c)] = IdOf(c)
<1>1. CASE Key(m) = CallKey(c)
  <2>1. id = IdOf(c)
    BY <1>1, ResolvesKey
  <2> QED  BY <1>1, <2>1 DEF IdentityNoted
<1>2. CASE Key(m) # CallKey(c)
  BY <1>2 DEF IdentityNoted, Says
<1> QED  BY <1>1, <1>2

\* What a call has said by one more message.
SaidWith(said, c, m) == [said EXCEPT ![c] = IF m.whole THEN m.content ELSE Add(said[c], m.content)]

\* A call goes on, or ends with its whole message: its part holds what it has said by then.
LEMMA LiveSays ==
  ASSUME NEW s, IsStream(s), Logged(s), NEW said, Worded(said), NEW ended, Says(s, said, ended),
         NEW c \in Calls, c \notin ended,
         NEW m, m.of = c, IsContent(m.content), KeyFits(m), Key(m) = CallKey(c),
         NEW id, id = Resolve(s.identities, m), \A i \in DOMAIN s.open : s.open[i].id = id => s.open[i].of = m.of,
         NEW t, IdentityNoted(s, t, m, id), \A p, q \in DOMAIN s.parts : s.parts[p].id = s.parts[q].id => p = q,
         NEW content, content = Accumulate(s.parts, Position(s.parts, id), m), PartNoted(s, t, m, id, content),
         NEW said2, said2 = SaidWith(said, c, m), NEW ended2, ended \subseteq ended2
  PROVE  Says(t, said2, ended2)
<1>1. id = IdOf(c)
  BY ResolvesKey
<1>8. PICK now : now = (IF m.whole THEN m.content ELSE Add(said[c], m.content))
  OBVIOUS
<1>2. said2[c] = now /\ \A d \in Calls : d # c => said2[d] = said[d]
  BY <1>8 DEF Worded, SaidWith
<1>3. content = now
  <2>1. CASE ~Parted(s, id) /\ content = m.content
    <3>1. said[c] = Silent
      BY <1>1, <2>1 DEF Says
    <3>2. Add(Silent, m.content) = m.content
      BY AddSilent
    <3> QED  BY <1>8, <2>1, <3>1, <3>2
  <2>2. ASSUME NEW q \in DOMAIN s.parts, s.parts[q].id = id,
               content = IF m.whole THEN m.content ELSE Add(s.parts[q].content, m.content)
        PROVE  content = now
    <3>1. Known(s, id, s.parts[q].of)
      BY <2>2 DEF Logged
    <3>2. s.parts[q].of = c
      BY <3>1 DEF Known
    <3>3. s.parts[q].content = said[c]
      BY <3>2 DEF Says
    <3> QED  BY <1>8, <2>2, <3>3
  <2> QED  BY <2>1, <2>2, AccumulateIs
<1>4. PICK p \in DOMAIN t.parts :
        /\ t.parts[p].id = id /\ t.parts[p].of = m.of /\ t.parts[p].content = content
        /\ \A q \in DOMAIN t.parts : q # p => q \in DOMAIN s.parts /\ t.parts[q] = s.parts[q] /\ s.parts[q].id # id
        /\ \A q \in DOMAIN s.parts : q \in DOMAIN t.parts /\ t.parts[q].id = s.parts[q].id
  BY DEF PartNoted
<1>5. ASSUME NEW q \in DOMAIN t.parts
      PROVE  /\ t.parts[q].of \in Calls /\ t.parts[q].content = said2[t.parts[q].of]
             /\ t.parts[q].of \notin ended2 => t.parts[q].id = IdOf(t.parts[q].of)
  <2>1. CASE q = p
    BY <1>1, <1>2, <1>3, <1>4, <2>1
  <2>2. CASE q # p
    <3>1. q \in DOMAIN s.parts /\ t.parts[q] = s.parts[q] /\ s.parts[q].id # id
      BY <1>4, <2>2
    <3>2. /\ s.parts[q].of \in Calls /\ s.parts[q].content = said[s.parts[q].of]
          /\ s.parts[q].of \notin ended => s.parts[q].id = IdOf(s.parts[q].of)
      BY <3>1 DEF Says
    <3>3. s.parts[q].of # c
      BY <1>1, <3>1, <3>2
    <3> QED  BY <1>2, <3>1, <3>2, <3>3
  <2> QED  BY <2>1, <2>2
<1>6. ASSUME NEW d \in Calls, d \notin ended2, said2[d] # Silent
      PROVE  Parted(t, IdOf(d))
  <2>1. CASE d = c
    BY <1>1, <1>4, <2>1 DEF Parted
  <2>2. CASE d # c
    <3>1. Parted(s, IdOf(d))
      BY <1>2, <1>6, <2>2 DEF Says
    <3> QED  BY <1>4, <3>1 DEF Parted
  <2> QED  BY <2>1, <2>2
<1>7. \A d \in Calls : CallKey(d) \in DOMAIN t.identities => t.identities[CallKey(d)] = IdOf(d)
  BY KeysNoted
<1> QED  BY <1>5, <1>6, <1>7 DEF Says

\* An output repeats the whole message of a call that ended with it.
LEMMA RepeatSays ==
  ASSUME NEW s, IsStream(s), NEW said, NEW ended, Says(s, said, ended),
         NEW m, m.of \in Calls, m.of \in ended, m.whole, m.content = said[m.of], KeyFits(m),
         NEW id, id = Resolve(s.identities, m), NEW t, IdentityNoted(s, t, m, id),
         NEW content, content = Accumulate(s.parts, Position(s.parts, id), m), PartNoted(s, t, m, id, content)
  PROVE  Says(t, said, ended)
<1>1. content = m.content
  BY AccumulateIs
<1>2. PICK p \in DOMAIN t.parts :
        /\ t.parts[p].id = id /\ t.parts[p].of = m.of /\ t.parts[p].content = content
        /\ \A q \in DOMAIN t.parts : q # p => q \in DOMAIN s.parts /\ t.parts[q] = s.parts[q] /\ s.parts[q].id # id
        /\ \A q \in DOMAIN s.parts : q \in DOMAIN t.parts /\ t.parts[q].id = s.parts[q].id
  BY DEF PartNoted
<1>3. ASSUME NEW q \in DOMAIN t.parts
      PROVE  /\ t.parts[q].of \in Calls /\ t.parts[q].content = said[t.parts[q].of]
             /\ t.parts[q].of \notin ended => t.parts[q].id = IdOf(t.parts[q].of)
  <2>1. CASE q = p
    BY <1>1, <1>2, <2>1
  <2>2. CASE q # p
    <3>1. q \in DOMAIN s.parts /\ t.parts[q] = s.parts[q]
      BY <1>2, <2>2
    <3> QED  BY <3>1 DEF Says
  <2> QED  BY <2>1, <2>2
<1>4. ASSUME NEW d \in Calls, d \notin ended, said[d] # Silent
      PROVE  Parted(t, IdOf(d))
  <2>1. Parted(s, IdOf(d))
    BY <1>4 DEF Says
  <2> QED  BY <1>2, <2>1 DEF Parted
<1>5. \A d \in Calls : CallKey(d) \in DOMAIN t.identities => t.identities[CallKey(d)] = IdOf(d)
  BY KeysNoted
<1> QED  BY <1>3, <1>4, <1>5 DEF Says

\* A node's message adds nothing to what the calls have said.
LEMMA NodeSays ==
  ASSUME NEW s, NEW said, NEW ended, Says(s, said, ended), NEW m, KeyFits(m),
         NEW id, id = Resolve(s.identities, m), NEW t, IdentityNoted(s, t, m, id), t.parts = s.parts
  PROVE  Says(t, said, ended)
<1>1. \A d \in Calls : CallKey(d) \in DOMAIN t.identities => t.identities[CallKey(d)] = IdOf(d)
  BY KeysNoted
<1> QED  BY <1>1 DEF Says, Parted

-----------------------------------------------------------------------------
(* The messages of an item, as the clients of the SDK are told of them.    *)

\* A streamed message is its call's, and kept under the call's key.
LEMMA StreamedTells ==
  ASSUME NEW c \in Calls, NEW content, IsContent(content), NEW whole,
         NEW m, m = Streamed(c, content, whole), ~Nameless(m)
  PROVE  /\ Ours(m) /\ m.of = c /\ m.whole = whole /\ m.content = content
         /\ KeyFits(m) /\ Key(m) = CallKey(c)
<1>1. /\ m.of = c /\ m.index = 0 /\ m.ns = scene.ns[c] /\ m.role = "ai" /\ m.whole = whole /\ m.content = content
      /\ m.observed = Observed(c) /\ m.given = Given(c)
      /\ m.run = (IF scene.events THEN <<"call", c>> ELSE None)
      /\ m.metadata = (IF scene.source[c] = "adapter" THEN <<"call", c>> ELSE None)
      /\ m.id = (IF scene.source[c] = "observed" /\ ~scene.events THEN <<"stamp", c, graph.items>> ELSE Given(c))
  BY DEF Streamed, Spoken
<1>2. Invocation(m) # None
  BY DEF Nameless
<1>3. None # <<"call", c>> /\ None # <<"provider", c>>
  BY DEF None
<1> HIDE DEF None
<1>4. ~Observed(c) => m.id = None /\ Given(c) = None
  BY <1>1 DEF Observed, Given
<1>5. Invocation(m) = <<"call", c>>
  BY <1>1, <1>2, <1>3, <1>4 DEF Invocation
<1>6. ProviderId(m) = Given(c)
  BY <1>1, <1>4 DEF ProviderId
<1>7. Key(m) = CallKey(c)
  BY <1>1, <1>5 DEF Key, CallKey
<1>8. IF Given(c) # None THEN Given(c) = IdOf(c) ELSE <<"derived", CallKey(c)>> = IdOf(c)
  <2>1. c \notin Tools
    BY CallsAssumption
  <2> QED  BY <1>3, <2>1 DEF Given, IdOf, CallKey
<1>9. ASSUME NEW d \in Calls, Key(m) = CallKey(d)
      PROVE  IF ProviderId(m) # None THEN ProviderId(m) = IdOf(d) ELSE <<"derived", CallKey(d)>> = IdOf(d)
  <2>1. c = d
    BY <1>7, <1>9, CallKeyIs
  <2> QED  BY <1>6, <1>8, <2>1
<1>10. KeyFits(m)
  BY <1>9 DEF KeyFits
<1>11. Ours(m)
  BY <1>1 DEF Ours
<1> QED  BY <1>1, <1>7, <1>10, <1>11

\* A message that only repeats what its call said, or one of a node.
Repeats(m, said, ended) ==
  /\ Ours(m) /\ KeyFits(m)
  /\ m.role = "ai" => m.of \in ended /\ m.whole /\ m.content = said[m.of]

\* An output repeats whole messages of calls that have ended.
LEMMA InOutputTells ==
  ASSUME NEW c \in Calls, NEW i \in Nat \ {0}, scene.events, IsContent(graph.said[c]), NEW ended, c \in ended,
         NEW m, m = InOutput(c, i)
  PROVE  Repeats(m, graph.said, ended)
<1>1. /\ m.of = c /\ m.index = i - 1 /\ m.ns = scene.ns[c] /\ m.role = "ai" /\ m.whole = TRUE /\ m.content = graph.said[c]
      /\ m.observed = (Observed(c) /\ c \notin graph.taken) /\ m.given = Given(c)
      /\ m.run = <<"chain", graph.items>>
      /\ m.id = (IF scene.source[c] = "observed" /\ ~scene.events THEN <<"stamp", c, graph.items>> ELSE Given(c))
  BY DEF InOutput, Spoken
<1>2. <<"chain", graph.items>> # None /\ <<"provider", c>> # None
  BY DEF None
<1> HIDE DEF None
<1>3. Invocation(m) = <<"call", c>> \/ Invocation(m) = <<"chain", graph.items>>
  BY <1>1, <1>2 DEF Invocation
<1>4. ProviderId(m) = Given(c)
  BY <1>1 DEF ProviderId
<1>5. IF Given(c) # None THEN Given(c) = IdOf(c) ELSE <<"derived", CallKey(c)>> = IdOf(c)
  <2>1. c \notin Tools
    BY CallsAssumption
  <2> QED  BY <1>2, <2>1 DEF Given, IdOf, CallKey
<1>6. ASSUME NEW d \in Calls, Key(m) = CallKey(d)
      PROVE  IF ProviderId(m) # None THEN ProviderId(m) = IdOf(d) ELSE <<"derived", CallKey(d)>> = IdOf(d)
  <2>1. Invocation(m) = <<"call", d>>
    BY <1>6 DEF Key, CallKey
  <2>2. c = d
    BY <1>3, <2>1
  <2> QED  BY <1>4, <1>5, <2>2
<1>7. KeyFits(m)
  BY <1>6 DEF KeyFits
<1>8. Ours(m)
  BY <1>1 DEF Ours
<1> QED  BY <1>1, <1>7, <1>8 DEF Repeats

\* A node returns a message of a tool.
LEMMA ReturnedTells ==
  ASSUME NEW x \in Tools, NEW i \in Nat, NEW run, NEW n,
         run = <<"chain", n>> \/ run = <<"update", n>> \/ (run = None /\ ~scene.events),
         NEW said, NEW ended, NEW m, m = Returned(x, run, i)
  PROVE  Repeats(m, said, ended)
<1>1. /\ m.of = x /\ m.role = "tool" /\ m.observed = FALSE /\ m.run = run /\ m.metadata = None
      /\ m.id = (IF scene.named \/ ~scene.events THEN <<"own", x>> ELSE None)
  BY DEF Returned
<1>2. <<"chain", n>> # None /\ <<"update", n>> # None /\ <<"own", x>> # None
  BY DEF None
<1> HIDE DEF None
<1>3. Invocation(m) = <<"chain", n>> \/ Invocation(m) = <<"update", n>> \/ Invocation(m) = <<"id", <<"own", x>>>>
  BY <1>1, <1>2 DEF Invocation
<1>4. ASSUME NEW d \in Calls PROVE Key(m) # CallKey(d)
  BY <1>3 DEF Key, CallKey
<1>5. KeyFits(m)
  BY <1>4 DEF KeyFits
<1>6. Ours(m)
  BY <1>1 DEF Ours
<1> QED  BY <1>1, <1>5, <1>6 DEF Repeats

Sdked(s, said, ended) == Heads(s) /\ Says(s, said, ended)

\* Handling a message that repeats or returns keeps all that is told right,
LEMMA HandleSdk ==
  ASSUME NEW s, NEW n \in Nat, NEW b \in Nat, Fit(s, n, b), NEW m, Proper(m, n, b),
         NEW said, NEW ended, Sdked(s, said, ended), Repeats(m, said, ended), NEW t, t = Handle(s, m)
  PROVE  Sdked(t, said, ended)
<1>1. PICK id, content : id = Resolve(s.identities, m) /\ content = Accumulate(s.parts, Position(s.parts, id), m)
  OBVIOUS
<1>2. Heads(s) /\ Says(s, said, ended) /\ Ours(m) /\ KeyFits(m) /\ IsStream(s)
  BY DEF Sdked, Repeats, Fit
<1>3. /\ Heads(t) /\ IdentityNoted(s, t, m, id)
      /\ m.role = "ai" => PartNoted(s, t, m, id, content)
      /\ m.role # "ai" => t.parts = s.parts
  BY <1>1, <1>2, HandleHeads
<1>4. CASE m.role = "ai" /\ m.of \in Calls
  <2>1. Says(t, said, ended)
    BY <1>1, <1>2, <1>3, <1>4, RepeatSays DEF Repeats
  <2> QED  BY <1>3, <2>1 DEF Sdked
<1>5. CASE m.role = "tool"
  <2>1. Says(t, said, ended)
    BY <1>1, <1>2, <1>3, <1>5, NodeSays
  <2> QED  BY <1>3, <2>1 DEF Sdked
<1> QED  BY <1>2, <1>4, <1>5 DEF Ours

\* ... and so do any number of them.
LEMMA HandleAllSdk ==
  ASSUME NEW s, NEW n \in Nat, Fit(s, n, 0), NEW ms, Len(ms) \in Nat, NEW said, NEW ended,
         \A i \in 1 .. Len(ms) : ms[i].index = i - 1 /\ Proper(ms[i], n, i - 1) /\ Repeats(ms[i], said, ended),
         Sdked(s, said, ended), NEW t, t = HandleAll(s, ms)
  PROVE  Sdked(t, said, ended)
<1>1. PICK g : Runs(g, "handle", s, Len(ms), ms) /\ HandleAll(s, ms) = g[Len(ms)]
  BY HandleAllRuns
<1>2. g[0] = s /\ \A i \in 1 .. Len(ms) : g[i] = Handle(g[i - 1], ms[i])
  BY <1>1 DEF Runs, StepOf
<1> DEFINE T == {k \in 0 .. Len(ms) : ~(Fit(g[k], n, k) /\ Sdked(g[k], said, ended))}
<1>4. 0 \notin T
  BY <1>2
<1>5. ASSUME NEW k \in 1 .. Len(ms), k - 1 \notin T PROVE k \notin T
  <2>1. k - 1 \in 0 .. Len(ms) /\ k - 1 \in Nat /\ k - 1 + 1 = k
    OBVIOUS
  <2>2. Fit(g[k - 1], n, k - 1) /\ Sdked(g[k - 1], said, ended)
    BY <1>5, <2>1
  <2>3. PICK a, m, j : a = g[k - 1] /\ m = ms[k] /\ j = k - 1
    OBVIOUS
  <2>4. Fit(a, n, j) /\ Sdked(a, said, ended) /\ j \in Nat /\ m.index = j /\ Proper(m, n, j) /\ Repeats(m, said, ended)
    BY <2>1, <2>2, <2>3
  <2>5. Fit(Handle(a, m), n, j + 1)
    BY <2>4, HandleFit
  <2>6. g[k] = Handle(a, m)
    BY <1>2, <2>3
  <2>7. Sdked(g[k], said, ended)
    BY <2>4, <2>6, HandleSdk
  <2> QED  BY <2>1, <2>3, <2>5, <2>6, <2>7
<1>6. T = {}
  <2>1. T \in SUBSET (0 .. Len(ms))
    OBVIOUS
  <2> HIDE DEF T
  <2> QED  BY <1>4, <1>5, <2>1, NoCounterexample
<1>7. Len(ms) \in 0 .. Len(ms)
  OBVIOUS
<1> QED  BY <1>1, <1>6, <1>7

\* What is told beside the messages of the SDK changes nothing of them.
LEMMA SdkedOn ==
  ASSUME NEW s, IsList(s.log), NEW said, NEW ended, Sdked(s, said, ended), NEW t, t.parts = s.parts, t.open = s.open,
         t.identities = s.identities, Grows(s.log, t.log), \A n \in New(s.log, t.log) : t.log[n].event \notin SdkEvents
  PROVE  Sdked(t, said, ended)
<1>1. ASSUME NEW id
      PROVE  /\ \A content : ToldCall(s.log, id, content) => ToldCall(t.log, id, content)
             /\ ToldNode(s.log, id) => ToldNode(t.log, id)
  <2>1. \A n \in New(s.log, t.log) : ~Concerns(t.log[n], id)
    BY DEF Concerns
  <2> QED  BY <2>1, SdkQuiet
<1>2. Heads(t)
  BY <1>1 DEF Sdked, Heads, Parted
<1>3. Says(t, said, ended)
  BY DEF Sdked, Says, Parted
<1> QED  BY <1>2, <1>3 DEF Sdked

\* What is told beside the messages leaves them right.
LEMMA TellSdk ==
  ASSUME NEW s, IsStream(s), NEW said, NEW ended, Sdked(s, said, ended), NEW events, IsList(events),
         \A i \in 1 .. Len(events) : events[i].event \notin SdkEvents, NEW t, t = Tell(s, events)
  PROVE  Sdked(t, said, ended)
<1>1. PICK l : l = s.log \o events
  OBVIOUS
<1>2. t = Record(s.identities, s.open, s.parts, s.seen, l)
  BY <1>1, TellIs
<1>3. t.identities = s.identities /\ t.open = s.open /\ t.parts = s.parts /\ t.log = l
  BY <1>2, RecordOf
<1>4. IsList(s.log)
  BY DEF IsStream
<1>5. Grows(s.log, l) /\ \A n \in New(s.log, l) : n - Len(s.log) \in 1 .. Len(events) /\ l[n] = events[n - Len(s.log)]
  BY <1>1, <1>4, ListConcat
<1> QED  BY <1>3, <1>4, <1>5, SdkedOn

\* A call says one more piece, or ends with its whole message.
LEMMA LiveSdk ==
  ASSUME NEW s, NEW n \in Nat, NEW b \in Nat, Fit(s, n, b), NEW said, Worded(said), NEW ended, Sdked(s, said, ended),
         NEW c \in Calls, c \notin ended, NEW m, Proper(m, n, b), Ours(m), m.of = c, KeyFits(m), Key(m) = CallKey(c),
         IsContent(m.content), m.role = "ai",
         NEW said2, said2 = SaidWith(said, c, m), NEW ended2, ended \subseteq ended2,
         NEW t, t = Handle(s, m)
  PROVE  Sdked(t, said2, ended2)
<1>1. PICK id, content : id = Resolve(s.identities, m) /\ content = Accumulate(s.parts, Position(s.parts, id), m)
  OBVIOUS
<1>2. Heads(s) /\ Says(s, said, ended) /\ IsStream(s) /\ Logged(s)
  BY DEF Sdked, Fit
<1>3. /\ Heads(t) /\ IdentityNoted(s, t, m, id)
      /\ m.role = "ai" => PartNoted(s, t, m, id, content)
      /\ m.role # "ai" => t.parts = s.parts
  BY <1>1, <1>2, HandleHeads
<1>4. \A i \in DOMAIN s.open : s.open[i].id = id => s.open[i].of = m.of
  <2>1. /\ \A i \in DOMAIN s.open : s.open[i].id = id => s.open[i].of = m.of
        /\ Key(m) \in DOMAIN s.identities => s.identities[Key(m)] = id /\ Known(s, id, m.of)
        /\ Key(m) \notin DOMAIN s.identities =>
              /\ id \in {<<"provider", m.of>>, <<"own", m.of>>, <<"derived", Key(m)>>}
              /\ KeepsId(m.of) => id = IdOf(m.of)
    BY <1>1, ResolveFits
  <2> QED  BY <2>1
<1>5. \A p, q \in DOMAIN s.parts : s.parts[p].id = s.parts[q].id => p = q
  BY <1>2 DEF Heads
<1>6. PartNoted(s, t, m, id, content) /\ IdentityNoted(s, t, m, id)
  BY <1>3
<1>7. Says(t, said2, ended2)
  BY <1>1, <1>2, <1>4, <1>5, <1>6, LiveSays
<1> QED  BY <1>3, <1>7 DEF Sdked

-----------------------------------------------------------------------------
(* What a log tells the clients of the SDK on the whole.                   *)

\* What a log tells of one message, and of all; Concluded: all are complete.
SdkTells(l, id) ==
  /\ Headed(l, id)
  /\ \A m, n \in Told(l, id, {"complete"}) : m = n
  /\ \A p \in Told(l, id, {"partial"}) : Final(p, Told(l, id, {"partial"})) =>
       /\ scene.tuples => Assembled(l, id) = l[p].content
       /\ \A n \in Told(l, id, {"complete"}) : Final(n, Told(l, id, SdkEvents)) /\ l[n].content = l[p].content

SdkTold(l) == \A id \in Ids(l, SdkEvents) : SdkTells(l, id)

Concluded(l) == \A id \in Ids(l, SdkEvents) : Told(l, id, {"complete"}) # {}

\* The last of some numbers.
LEMMA FinalIs ==
  ASSUME NEW N, N \subseteq Nat, NEW p \in N, NEW q \in N, Final(p, N), Final(q, N)
  PROVE  p = q
BY DEF Final

\* What is told of a message is in the log.
LEMMA ToldNumbers ==
  ASSUME NEW l, IsList(l), NEW id, NEW events
  PROVE  Told(l, id, events) \subseteq Nat
<1>1. DOMAIN l = 1 .. Len(l)
  BY ListIs
<1> QED  BY <1>1 DEF Told

\* A call's message told as its part holds it is told as it should be,
LEMMA CallSdkTells ==
  ASSUME NEW l, IsList(l), NEW id, NEW content, ToldCall(l, id, content)
  PROVE  /\ SdkTells(l, id)
         /\ \A p \in Told(l, id, {"partial"}) : Final(p, Told(l, id, {"partial"})) => l[p].content = content
<1>1. PICK N : N = Told(l, id, {"partial"})
  OBVIOUS
<1>2. N \subseteq Nat
  BY <1>1, ToldNumbers
<1>3. PICK q \in N : Final(q, N) /\ l[q].content = content
  BY <1>1 DEF ToldCall, Latest
<1>4. \A p \in N : Final(p, N) => l[p].content = content
  BY <1>2, <1>3, FinalIs
<1>5. Headed(l, id) /\ Told(l, id, {"complete"}) = {} /\ (scene.tuples => Assembled(l, id) = content)
  BY DEF ToldCall, Started, Uncompleted
<1> QED  BY <1>1, <1>4, <1>5 DEF SdkTells

\* ... and so is a node's.
LEMMA NodeSdkTells ==
  ASSUME NEW l, NEW id, ToldNode(l, id)
  PROVE  SdkTells(l, id) /\ Told(l, id, {"complete"}) # {}
BY DEF ToldNode, SdkTells

\* While the graph streams every message is told as it should be, as much as its call has said.
LEMMA StreamingTold ==
  ASSUME NEW s, IsStream(s), Messages(s), Logged(s), NEW said, NEW ended, Sdked(s, said, ended)
  PROVE  /\ SdkTold(s.log)
         /\ \A id \in Ids(s.log, SdkEvents) : \A p \in Told(s.log, id, {"partial"}) :
              Final(p, Told(s.log, id, {"partial"})) => s.log[p].content = said[s.log[p].of]
<1>1. IsList(s.log) /\ Heads(s) /\ Says(s, said, ended)
  BY DEF IsStream, Sdked
<1>2. SUFFICES ASSUME NEW id \in Ids(s.log, SdkEvents)
               PROVE  /\ SdkTells(s.log, id)
                      /\ \A p \in Told(s.log, id, {"partial"}) :
                           Final(p, Told(s.log, id, {"partial"})) => s.log[p].content = said[s.log[p].of]
  BY DEF SdkTold
<1>3. PICK i \in DOMAIN s.open : s.open[i].id = id
  BY DEF Ids, Logged, Known
<1>4. CASE s.open[i].of \in Calls /\ Parted(s, id)
  <2>1. PICK q \in DOMAIN s.parts : s.parts[q].id = id
    BY <1>4 DEF Parted
  <2>2. PICK content : content = s.parts[q].content
    OBVIOUS
  <2>3. ToldCall(s.log, id, content)
    BY <1>1, <2>1, <2>2 DEF Heads
  <2>4. /\ SdkTells(s.log, id)
        /\ \A p \in Told(s.log, id, {"partial"}) : Final(p, Told(s.log, id, {"partial"})) => s.log[p].content = content
    BY <1>1, <2>3, CallSdkTells
  <2>5. content = said[s.open[i].of]
    <3>1. content = said[s.parts[q].of]
      BY <1>1, <2>2 DEF Says
    <3>2. Known(s, id, s.parts[q].of)
      BY <2>1 DEF Logged
    <3> QED  BY <1>3, <3>1, <3>2 DEF Known, Messages
  <2>6. ASSUME NEW p \in Told(s.log, id, {"partial"}) PROVE s.log[p].of = s.open[i].of
    <3>1. p \in DOMAIN s.log /\ s.log[p].event \in SdkEvents /\ s.log[p].id = id
      BY DEF Told, SdkEvents
    <3>2. Known(s, id, s.log[p].of)
      BY <3>1 DEF Logged
    <3> QED  BY <1>3, <3>2 DEF Known, Messages
  <2> QED  BY <2>4, <2>5, <2>6
<1>5. CASE ToldNode(s.log, id)
  BY <1>5, NodeSdkTells DEF ToldNode
<1> QED  BY <1>1, <1>3, <1>4, <1>5 DEF Heads

\* Events that are not the SDK's change nothing.
LEMMA SdkToldQuiet ==
  ASSUME NEW l, IsList(l), NEW m, Grows(l, m), \A n \in New(l, m) : m[n].event \notin SdkEvents, SdkTold(l)
  PROVE  SdkTold(m) /\ (Concluded(l) => Concluded(m))
<1>1. /\ IsList(m) /\ DOMAIN l \subseteq DOMAIN m
      /\ \A n \in DOMAIN m : n \in DOMAIN l \/ n \in New(l, m)
      /\ \A n \in DOMAIN l : m[n] = l[n] /\ n \notin New(l, m)
  BY GrowsOver
<1>2. \A id \in Ids(m, SdkEvents) : id \in Ids(l, SdkEvents)
  BY <1>1 DEF Ids
<1>3. ASSUME NEW id \in Ids(m, SdkEvents)
      PROVE  SdkTells(m, id) /\ (Told(l, id, {"complete"}) # {} => Told(m, id, {"complete"}) # {})
  <2>1. SdkTells(l, id)
    BY <1>2 DEF SdkTold
  <2>2. \A n \in New(l, m) : ~Concerns(m[n], id)
    BY DEF Concerns
  <2>3. ASSUME NEW events \in SUBSET SdkEvents
        PROVE  Told(m, id, events) = Told(l, id, events) /\ \A n \in Told(l, id, events) : m[n] = l[n]
    BY <2>2, ToldStill
  <2>4. Told(m, id, SdkEvents) = Told(l, id, SdkEvents) /\ \A n \in Told(l, id, SdkEvents) : m[n] = l[n]
    BY <2>3, SdkEventsAre
  <2>5. Told(m, id, {"partial"}) = Told(l, id, {"partial"}) /\ \A n \in Told(l, id, {"partial"}) : m[n] = l[n]
    BY <2>3, SdkEventsAre
  <2>6. Told(m, id, {"complete"}) = Told(l, id, {"complete"}) /\ \A n \in Told(l, id, {"complete"}) : m[n] = l[n]
    BY <2>3, SdkEventsAre
  <2>7. Assembled(m, id) = Assembled(l, id)
    <3>1. \A n \in New(l, m) : ~(m[n].event = "tuple" /\ m[n].id = id)
      BY DEF SdkEvents
    <3> QED  BY <3>1, AssembledStill
  <2>8. Headed(m, id)
    BY <2>1, <2>4 DEF SdkTells, Headed
  <2>9. SdkTells(m, id)
    BY <2>1, <2>4, <2>5, <2>6, <2>7, <2>8 DEF SdkTells
  <2> QED  BY <2>6, <2>9
<1> QED  BY <1>2, <1>3 DEF SdkTold, Concluded

\* A message of a call is told complete, once and last.
LEMMA OnceMore ==
  ASSUME NEW l, IsList(l), NEW m, Grows(l, m), NEW id, NEW z \in New(l, m), m[z].event = "complete", m[z].id = id,
         \A n \in New(l, m) : Concerns(m[n], id) => n = z, ToldCall(l, id, m[z].content)
  PROVE  SdkTells(m, id) /\ Told(m, id, {"complete"}) # {}
<1>1. /\ IsList(m) /\ DOMAIN l \subseteq DOMAIN m
      /\ \A n \in DOMAIN m : n \in DOMAIN l \/ n \in New(l, m)
      /\ \A n \in DOMAIN l : m[n] = l[n] /\ n \notin New(l, m)
      /\ New(l, m) \subseteq DOMAIN m
  BY GrowsOver
<1>2. Len(l) \in Nat /\ DOMAIN l = 1 .. Len(l) /\ Len(m) \in Nat
  BY <1>1, ListIs
<1>3. \A n \in DOMAIN l : n < z
  BY <1>2 DEF New
<1>4. ASSUME NEW events \in SUBSET SdkEvents
      PROVE  /\ Told(m, id, events) = Told(l, id, events) \cup (IF "complete" \in events THEN {z} ELSE {})
             /\ \A n \in Told(l, id, events) : m[n] = l[n] /\ n < z
  <2>1. ASSUME NEW n \in Told(m, id, events)
        PROVE  n \in Told(l, id, events) \/ (n = z /\ "complete" \in events)
    <3>1. CASE n \in DOMAIN l
      BY <1>1, <3>1 DEF Told
    <3>2. CASE n \in New(l, m)
      <4>1. Concerns(m[n], id)
        BY DEF Told, Concerns
      <4> QED  BY <3>2, <4>1 DEF Told
    <3> QED  BY <1>1, <3>1, <3>2 DEF Told
  <2>2. ASSUME NEW n \in Told(l, id, events) PROVE n \in Told(m, id, events) /\ m[n] = l[n] /\ n < z
    BY <1>1, <1>3 DEF Told
  <2>3. "complete" \in events => z \in Told(m, id, events)
    BY <1>1 DEF Told
  <2> QED  BY <2>1, <2>2, <2>3
<1>5. PICK A, B : A = Told(l, id, SdkEvents) /\ B = Told(l, id, {"partial"})
  OBVIOUS
<1>6. Told(m, id, SdkEvents) = A \cup {z} /\ \A n \in A : m[n] = l[n] /\ n < z
  <2>1. "complete" \in SdkEvents
    BY DEF SdkEvents
  <2> QED  BY <1>4, <1>5, <2>1, SdkEventsAre
<1>7. Told(m, id, {"partial"}) = B /\ \A n \in B : m[n] = l[n]
  <2>1. "complete" \notin {"partial"}
    OBVIOUS
  <2> QED  BY <1>4, <1>5, <2>1, SdkEventsAre
<1>8. Told(m, id, {"complete"}) = {z}
  <2>1. Told(l, id, {"complete"}) = {}
    BY DEF ToldCall, Started, Uncompleted
  <2> QED  BY <1>4, <2>1, SdkEventsAre
<1>9. Headed(m, id)
  <2>1. (\A n \in A : l[n].event = "metadata" <=> First(n, A)) /\ A # {}
    BY <1>5 DEF ToldCall, Started, Headed, Untold
  <2>2. A \subseteq Nat /\ z \in Nat
    <3>1. A \subseteq Nat
      BY <1>5, ToldNumbers
    <3>2. z \in Nat
      BY <1>2 DEF New
    <3> QED  BY <3>1, <3>2
  <2>3. ASSUME NEW n \in A PROVE m[n].event = "metadata" <=> First(n, A \cup {z})
    <3>1. First(n, A) <=> First(n, A \cup {z})
      BY <1>6, <2>2 DEF First
    <3> QED  BY <1>6, <2>1, <3>1
  <2>4. m[z].event # "metadata" /\ ~First(z, A \cup {z})
    <3>1. PICK n \in A : TRUE
      BY <2>1
    <3>2. n < z /\ n \in Nat /\ z \in Nat
      BY <1>6, <2>2
    <3>3. ~(z <= n)
      BY <3>2
    <3> QED  BY <3>3 DEF First
  <2> QED  BY <1>6, <2>3, <2>4 DEF Headed
<1>10. Final(z, Told(m, id, SdkEvents))
  <2>1. A \subseteq Nat /\ z \in Nat
    <3>1. A \subseteq Nat
      BY <1>5, ToldNumbers
    <3>2. z \in Nat
      BY <1>2 DEF New
    <3> QED  BY <3>1, <3>2
  <2>2. \A n \in A \cup {z} : n <= z
    BY <1>6, <2>1
  <2> QED  BY <1>6, <2>2 DEF Final
<1>11. scene.tuples => Assembled(m, id) = m[z].content
  <2>1. ASSUME NEW n \in New(l, m) PROVE ~(m[n].event = "tuple" /\ m[n].id = id)
    <3>1. SUFFICES ASSUME m[n].event = "tuple", m[n].id = id PROVE FALSE
      OBVIOUS
    <3>2. Concerns(m[n], id)
      BY <3>1 DEF Concerns, SdkEvents
    <3> QED  BY <3>1, <3>2
  <2>2. Assembled(m, id) = Assembled(l, id)
    BY <2>1, AssembledStill
  <2> QED  BY <2>2 DEF ToldCall
<1>12. \A p \in B : Final(p, B) => m[p].content = m[z].content
  <2>1. PICK content : content = m[z].content
    OBVIOUS
  <2>2. \A p \in B : Final(p, B) => l[p].content = content
    BY <1>5, <2>1, CallSdkTells
  <2> QED  BY <1>7, <2>1, <2>2
<1> QED  BY <1>7, <1>8, <1>9, <1>10, <1>11, <1>12 DEF SdkTells

\* Every message that was accumulated is told complete: then all are.
LEMMA ConcludeTold ==
  ASSUME NEW s, IsStream(s), Messages(s), Logged(s), NEW said, NEW ended, Sdked(s, said, ended),
         NEW l, IsList(l), NEW done, done.log = l, Concludes(s, done)
  PROVE  SdkTold(l) /\ Concluded(l)
<1>1. /\ IsList(s.log) /\ IsList(s.parts) /\ Heads(s)
  BY DEF IsStream, Sdked
<1>2. /\ Grows(s.log, l) /\ Len(l) = Len(s.log) + Len(s.parts)
      /\ \A n \in New(s.log, l) :
           n - Len(s.log) \in DOMAIN s.parts /\ l[n] = Conclusion(s.parts[n - Len(s.log)])
  BY DEF Concludes
<1>3. /\ DOMAIN s.log \subseteq DOMAIN l
      /\ \A n \in DOMAIN l : n \in DOMAIN s.log \/ n \in New(s.log, l)
      /\ \A n \in DOMAIN s.log : l[n] = s.log[n]
  BY <1>1, <1>2, GrowsOver
<1>4. Len(s.log) \in Nat /\ Len(s.parts) \in Nat /\ DOMAIN s.parts = 1 .. Len(s.parts)
  BY <1>1, ListIs
<1>5. SUFFICES ASSUME NEW id \in Ids(l, SdkEvents)
               PROVE  SdkTells(l, id) /\ Told(l, id, {"complete"}) # {}
  BY DEF SdkTold, Concluded
<1>6. PICK i \in DOMAIN s.open : s.open[i].id = id
  <2>1. PICK n \in DOMAIN l : l[n].event \in SdkEvents /\ l[n].id = id
    BY DEF Ids
  <2>2. CASE n \in DOMAIN s.log
    BY <1>3, <2>1, <2>2 DEF Logged, Known
  <2>3. CASE n \in New(s.log, l)
    <3>1. PICK q \in DOMAIN s.parts : l[n] = Conclusion(s.parts[q])
      BY <1>2, <2>3
    <3>2. s.parts[q].id = id
      BY <2>1, <3>1, ConclusionIs
    <3> QED  BY <3>2 DEF Logged, Known
  <2> QED  BY <1>3, <2>1, <2>2, <2>3
<1>7. CASE Parted(s, id)
  <2>1. PICK p \in DOMAIN s.parts : s.parts[p].id = id
    BY <1>7 DEF Parted
  <2>2. PICK z : z = Len(s.log) + p
    OBVIOUS
  <2>3. z \in New(s.log, l) /\ z - Len(s.log) = p
    <3>1. PICK a, b : a = Len(s.log) /\ b = Len(s.parts)
      OBVIOUS
    <3>2. a \in Nat /\ b \in Nat /\ p \in 1 .. b /\ z = a + p
      BY <1>4, <2>2, <3>1
    <3>3. z \in a + 1 .. a + b /\ z - a = p
      BY <3>2
    <3>4. New(s.log, l) = a + 1 .. a + b
      BY <1>2, <3>1 DEF New
    <3> QED  BY <3>1, <3>3, <3>4
  <2>4. l[z] = Conclusion(s.parts[p])
    BY <1>2, <2>3
  <2>5. l[z].event = "complete" /\ l[z].id = id /\ l[z].content = s.parts[p].content
    BY <2>1, <2>4, ConclusionIs
  <2>6. ASSUME NEW n \in New(s.log, l), Concerns(l[n], id) PROVE n = z
    <3>1. PICK q \in DOMAIN s.parts : q = n - Len(s.log) /\ l[n] = Conclusion(s.parts[q])
      BY <1>2
    <3>2. s.parts[q].id = id
      BY <2>6, <3>1, ConclusionIs DEF Concerns
    <3>3. q = p
      BY <1>1, <2>1, <3>2 DEF Heads
    <3>4. n \in Nat
      BY <1>2, <1>4 DEF New
    <3> QED  BY <1>4, <2>2, <3>1, <3>3, <3>4
  <2>7. ToldCall(s.log, id, l[z].content)
    BY <1>1, <2>1, <2>5 DEF Heads
  <2>8. PICK k : k = s.log
    OBVIOUS
  <2>9. /\ IsList(k) /\ Grows(k, l) /\ z \in New(k, l) /\ (\A n \in New(k, l) : Concerns(l[n], id) => n = z)
        /\ ToldCall(k, id, l[z].content)
    BY <1>1, <1>2, <2>3, <2>6, <2>7, <2>8
  <2> QED  BY <2>5, <2>9, OnceMore
<1>8. CASE ~Parted(s, id)
  <2>1. ToldNode(s.log, id)
    BY <1>1, <1>6, <1>8 DEF Heads
  <2>2. ASSUME NEW n \in New(s.log, l) PROVE ~Concerns(l[n], id)
    <3>1. PICK q \in DOMAIN s.parts : l[n] = Conclusion(s.parts[q])
      BY <1>2
    <3>2. s.parts[q].id # id
      BY <1>8 DEF Parted
    <3> QED  BY <3>1, <3>2, ConclusionIs DEF Concerns
  <2>3. ToldNode(l, id)
    BY <1>1, <1>2, <2>1, <2>2, SdkQuiet
  <2> QED  BY <2>3, NodeSdkTells
<1> QED  BY <1>7, <1>8

\* What an execution that stopped has told.
SdkOver(l, final) == SdkTold(l) /\ (final \in {"other", "mapping"} => Concluded(l))

\* After the stop nothing but events that are not the SDK's may follow.
LEMMA SdkOverQuiet ==
  ASSUME NEW l, IsList(l), NEW final, SdkOver(l, final), NEW events, IsList(events),
         \A i \in 1 .. Len(events) : events[i].event \notin SdkEvents, NEW m, m = l \o events
  PROVE  IsList(m) /\ SdkOver(m, final)
<1>1. IsList(m) /\ Grows(l, m)
      /\ \A n \in New(l, m) : n - Len(l) \in 1 .. Len(events) /\ m[n] = events[n - Len(l)]
  BY ListConcat
<1>2. \A n \in New(l, m) : m[n].event \notin SdkEvents
  BY <1>1
<1>3. SdkTold(l)
  BY DEF SdkOver
<1>4. SdkTold(m) /\ (Concluded(l) => Concluded(m))
  BY <1>1, <1>2, <1>3, SdkToldQuiet
<1> QED  BY <1>1, <1>4 DEF SdkOver

\* Every message completed, the protocol's last events leave what the SDK is told.
LEMMA FinishingTold ==
  ASSUME NEW s, IsStream(s), Messages(s), Logged(s), NEW said, NEW ended, Sdked(s, said, ended),
         NEW l, Finishing(s, l)
  PROVE  SdkTold(l) /\ Concluded(l)
<1>1. PICK done : /\ Concludes(s, done) /\ Grows(done.log, l)
                  /\ \A n \in New(done.log, l) : l[n].event \in ProtocolEvents
  BY DEF Finishing
<1>2. PICK k : k = done.log
  OBVIOUS
<1>3. IsList(k)
  BY <1>1, <1>2 DEF Concludes, Grows
<1>4. SdkTold(k) /\ Concluded(k)
  BY <1>1, <1>2, <1>3, ConcludeTold
<1>5. Grows(k, l) /\ \A n \in New(k, l) : l[n].event \notin SdkEvents
  BY <1>1, <1>2 DEF ProtocolEvents, SdkEvents
<1> QED  BY <1>3, <1>4, <1>5, SdkToldQuiet

\* The end completes every message the stream left open (_finalize_stream).
LEMMA SdkEnds ==
  ASSUME NEW s, IsStream(s), Messages(s), Logged(s), NEW said, NEW ended, Sdked(s, said, ended),
         NEW final \in {"none", "other", "mapping"}, NEW r, NEW l, EndsAs(s, final, r, l),
         NEW asks, IsList(asks), \A i \in 1 .. Len(asks) : asks[i].event \notin SdkEvents,
         NEW m, m = r.log \o asks
  PROVE  SdkOver(m, final)
<1>1. IsList(l)
  BY DEF EndsAs
<1>2. SdkOver(l, final)
  <2>1. CASE final = "none"
    <3>1. l = s.log
      BY <2>1 DEF EndsAs
    <3>2. SdkTold(l)
      BY <3>1, StreamingTold
    <3> QED  BY <2>1, <3>2 DEF SdkOver
  <2>2. CASE final # "none"
    <3>1. Finishing(s, l)
      BY <2>2 DEF EndsAs
    <3>2. SdkTold(l) /\ Concluded(l)
      BY <3>1, FinishingTold
    <3> QED  BY <3>2 DEF SdkOver
  <2> QED  BY <2>1, <2>2
<1>3. PICK last : last = IF final \in {"none", "other"} \/ shown THEN <<>> ELSE <<Shown(graph.step)>>
  OBVIOUS
<1>4. r.log = l \o last
  BY <1>3 DEF EndsAs
<1>5. IsList(last) /\ \A i \in 1 .. Len(last) : last[i].event \notin SdkEvents
  <2>1. CASE last = <<>>
    <3>1. \A i \in 1 .. 0 : FALSE
      OBVIOUS
    <3> QED  BY <2>1, <3>1, ListEmpty
  <2>2. CASE last = <<Shown(graph.step)>>
    <3>1. PICK e : e = Shown(graph.step)
      OBVIOUS
    <3>2. e.event \notin SdkEvents
      BY <3>1, ShownIs DEF SdkEvents
    <3>3. IsList(last) /\ 1 .. Len(last) = {1} /\ last[1] = e
      BY <2>2, <3>1, ListOne
    <3> QED  BY <3>2, <3>3
  <2> QED  BY <1>3, <2>1, <2>2
<1>6. PICK k : k = r.log
  OBVIOUS
<1>7. IsList(k) /\ SdkOver(k, final)
  BY <1>1, <1>2, <1>4, <1>5, <1>6, SdkOverQuiet
<1>8. m = k \o asks
  BY <1>6
<1> QED  BY <1>7, <1>8, SdkOverQuiet

-----------------------------------------------------------------------------
(* The clients of the SDK, step by step.                                   *)

\* While the graph streams, and after it has stopped.
SdkInv ==
  /\ Worded(graph.said)
  /\ phase = "streaming" => Sdked(stream, graph.said, graph.ended)
  /\ phase # "streaming" => SdkOver(stream.log, result)

\* What is told holds while the log, the parts and what was said stay.
LEMMA SdkedStays ==
  ASSUME scene' = scene, Sdked(stream', graph'.said, graph'.ended)
  PROVE  Sdked(stream, graph.said, graph.ended)'
BY DEF Sdked, Heads, Says, ToldCall, IdOf, CallKey

\* ... and after the stop.
LEMMA SdkOverStays ==
  ASSUME scene' = scene, SdkOver(stream'.log, result')
  PROVE  SdkOver(stream.log, result)'
BY DEF SdkOver, SdkTold, SdkTells

\* A step that leaves the execution streaming.
LEMMA SdkGoesOn ==
  ASSUME scene' = scene, phase = "streaming", phase' = phase, Worded(graph'.said),
         Sdked(stream', graph'.said, graph'.ended)
  PROVE  SdkInv'
<1>1. Sdked(stream, graph.said, graph.ended)'
  BY SdkedStays
<1> QED  BY <1>1 DEF SdkInv, Worded

\* A step that stops it.
LEMMA SdkStops ==
  ASSUME scene' = scene, phase' # "streaming", Worded(graph'.said), SdkOver(stream'.log, result')
  PROVE  SdkInv'
<1>1. SdkOver(stream.log, result)'
  BY SdkOverStays
<1> QED  BY <1>1 DEF SdkInv, Worded

\* An execution that fails leaves what was told by then.
LEMMA SdkFails ==
  ASSUME StreamInv, SdkInv, phase = "streaming", UNCHANGED <<scene, stream, result>>, phase' # "streaming",
         Worded(graph'.said)
  PROVE  SdkInv'
<1>1. result = "unread" /\ Fit(stream, graph.items, 0) /\ Sdked(stream, graph.said, graph.ended)
  BY DEF StreamInv, Streaming, Between, SdkInv
<1>2. IsStream(stream) /\ Messages(stream) /\ Logged(stream)
  BY <1>1 DEF Fit
<1>3. SdkTold(stream.log)
  BY <1>1, <1>2, StreamingTold
<1>4. SdkOver(stream'.log, result')
  BY <1>1, <1>3 DEF SdkOver
<1> QED  BY <1>4, SdkStops

\* A piece is a content.
LEMMA PieceIs ==
  ASSUME NEW piece \in Pieces \cup {Silent}
  PROVE  IsContent(piece)
<1>1. CASE piece = Silent
  BY <1>1, SilentIs
<1>2. ASSUME NEW t \in Texts, NEW n \in {0, 1}, piece = [text |-> <<t>>, tool |-> n] PROVE IsContent(piece)
  <2>1. PICK x : x = <<t>>
    OBVIOUS
  <2>2. IsList(x)
    BY <2>1, ListOne
  <2> QED  BY <1>2, <2>1, <2>2 DEF IsContent
<1>3. CASE piece = [text |-> <<>>, tool |-> 1]
  BY <1>3, ListEmpty DEF IsContent
<1> QED  BY <1>1, <1>2, <1>3 DEF Pieces

\* A call that says more says a content.
LEMMA WordedWith ==
  ASSUME NEW said, Worded(said), NEW c \in Calls, NEW x, IsContent(x), NEW said2, said2 = [said EXCEPT ![c] = x]
  PROVE  Worded(said2)
BY DEF Worded

\* An output and an update leave what was said.
Taking(g, x) == [g EXCEPT !.ended = @ \cup x, !.taken = @ \cup x, !.items = @ + 1]
Updating(g, x) == [g EXCEPT !.updated = @ \cup x, !.step = @ + 1, !.items = @ + 1]

\* Taking an item leaves what the calls have said,
LEMMA TakingSaid ==
  ASSUME NEW g, IsGraph(g), NEW x, NEW h, h = Taking(g, x)
  PROVE  h.said = g.said /\ h.ended = g.ended \cup x
<1>1. h = [g EXCEPT !.ended = @ \cup x, !.taken = @ \cup x, !.items = @ + 1]
  BY DEF Taking
<1>2. h = Graph(g.said, g.chunks, g.ended \cup x, g.taken \cup x, g.tools, g.updated, g.items + 1, g.step, g.state)
  BY <1>1, TakenGraph
<1> QED  BY <1>2 DEF Graph

\* ... and so does an update.
LEMMA UpdatingSaid ==
  ASSUME NEW g, IsGraph(g), NEW x, NEW h, h = Updating(g, x)
  PROVE  h.said = g.said /\ h.ended = g.ended
<1>1. h = [g EXCEPT !.updated = @ \cup x, !.step = @ + 1, !.items = @ + 1]
  BY DEF Updating
<1>2. h = Graph(g.said, g.chunks, g.ended, g.taken, g.tools, g.updated \cup x, g.items + 1, g.step + 1, g.state)
  BY <1>1, UpdatedGraph
<1> QED  BY <1>2 DEF Graph

\* What is told beside the messages of the SDK.
LEMMA TellOneSdk ==
  ASSUME NEW s, IsStream(s), NEW said, NEW ended, Sdked(s, said, ended), NEW e, e.event \notin SdkEvents,
         NEW t, t = Tell(s, <<e>>)
  PROVE  Sdked(t, said, ended)
<1>1. PICK v : v = <<e>>
  OBVIOUS
<1>2. IsList(v) /\ 1 .. Len(v) = {1} /\ v[1] = e
  BY <1>1, ListOne
<1> QED  BY <1>1, <1>2, TellSdk

\* An echo of an item's updates tells the SDK nothing,
LEMMA EchoedSdk ==
  ASSUME NEW s, IsStream(s), NEW said, NEW ended, Sdked(s, said, ended), NEW t, t = Echoed(s)
  PROVE  Sdked(t, said, ended)
<1>1. CASE scene.events /\ scene.updates
  <2>1. PICK e : e = [event |-> "updates", items |-> None]
    OBVIOUS
  <2>2. e.event \notin SdkEvents
    BY <2>1 DEF SdkEvents
  <2>3. t = Tell(s, <<e>>)
    BY <1>1, <2>1 DEF Echoed
  <2> QED  BY <2>2, <2>3, TellOneSdk
<1>2. CASE ~(scene.events /\ scene.updates)
  BY <1>2 DEF Echoed
<1> QED  BY <1>1, <1>2

\* ... nor do the updates of a super-step.
LEMMA ForwardedSdk ==
  ASSUME NEW s, IsStream(s), NEW said, NEW ended, Sdked(s, said, ended), NEW items, NEW t, t = Tell(s, Forwarded(items))
  PROVE  Sdked(t, said, ended)
<1>1. CASE scene.updates
  <2>1. PICK e : e = [event |-> "updates", items |-> items]
    OBVIOUS
  <2>2. e.event \notin SdkEvents
    BY <2>1 DEF SdkEvents
  <2>3. t = Tell(s, <<e>>)
    BY <1>1, <2>1 DEF Forwarded
  <2> QED  BY <2>2, <2>3, TellOneSdk
<1>2. CASE ~scene.updates /\ items # None
  <2>1. PICK e : e = [event |-> "interrupted", items |-> items]
    OBVIOUS
  <2>2. e.event \notin SdkEvents
    BY <2>1 DEF SdkEvents
  <2>3. t = Tell(s, <<e>>)
    BY <1>2, <2>1 DEF Forwarded
  <2> QED  BY <2>2, <2>3, TellOneSdk
<1>3. CASE ~scene.updates /\ items = None
  <2>1. PICK v : v = <<>>
    OBVIOUS
  <2>2. t = Tell(s, v)
    BY <1>3, <2>1 DEF Forwarded
  <2>3. IsList(v) /\ \A i \in 1 .. Len(v) : v[i].event \notin SdkEvents
    <3>1. \A i \in 1 .. 0 : FALSE
      OBVIOUS
    <3> QED  BY <2>1, <3>1, ListEmpty
  <2> QED  BY <2>2, <2>3, TellSdk
<1> QED  BY <1>1, <1>2, <1>3

\* What holds when the graph yields an item.
LEMMA ItemSdk ==
  ASSUME StreamInv, SdkInv, Item
  PROVE  /\ phase = "streaming" /\ graph.items \in Nat /\ IsGraph(graph) /\ Worded(graph.said)
         /\ Fit(stream, graph.items, 0) /\ IsStream(stream) /\ Sdked(stream, graph.said, graph.ended)
<1>1. phase = "streaming" /\ graph.items \in Nat /\ GraphTyped(graph) /\ Fit(stream, graph.items, 0)
  BY ItemIs DEF Between
<1> QED  BY <1>1 DEF SdkInv, GraphTyped, Fit

\* A call's live message is told, and its part follows what the call has said.
LEMMA LiveToldSdk ==
  ASSUME StreamInv, SdkInv, Item, NEW c \in Calls, c \notin graph.ended, NEW content, IsContent(content),
         NEW whole, NEW m, m = Streamed(c, content, whole), Live(m),
         NEW said2, graph'.said = said2, Worded(said2),
         said2 = [graph.said EXCEPT ![c] = IF whole THEN content ELSE Add(graph.said[c], content)],
         NEW ended2, graph'.ended = ended2, graph.ended \subseteq ended2
  PROVE  SdkInv'
<1>1. /\ phase = "streaming" /\ graph.items \in Nat /\ IsGraph(graph) /\ Worded(graph.said)
      /\ Fit(stream, graph.items, 0) /\ IsStream(stream) /\ Sdked(stream, graph.said, graph.ended)
  BY ItemSdk
<1>2. CASE Nameless(m)
  <2>1. UNCHANGED <<scene, stream, result>> /\ phase' = "failed"
    BY <1>2 DEF Live
  <2> QED  BY <1>1, <2>1, SdkFails
<1>3. CASE ~Nameless(m)
  <2>1. stream' = Handle(stream, m) /\ UNCHANGED <<scene, phase>>
    BY <1>3 DEF Live
  <2>2. /\ Ours(m) /\ m.of = c /\ m.whole = whole /\ m.content = content
        /\ KeyFits(m) /\ Key(m) = CallKey(c)
    BY <1>3, StreamedTells
  <2>3. Proper(m, graph.items, 0)
    BY <1>1, <1>3, StreamedIsProper
  <2>4. m.role = "ai"
    BY DEF Streamed, Spoken
  <2>5. PICK s, n, b, said, ended, t :
          /\ s = stream /\ n = graph.items /\ b = 0 /\ said = graph.said /\ ended = graph.ended /\ t = stream'
    OBVIOUS
  <2>6. /\ n \in Nat /\ b \in Nat /\ Fit(s, n, b) /\ Worded(said) /\ Sdked(s, said, ended) /\ c \notin ended
        /\ Proper(m, n, b) /\ ended \subseteq ended2 /\ t = Handle(s, m)
    BY <1>1, <2>1, <2>3, <2>5
  <2>7. said2 = SaidWith(said, c, m)
    BY <2>2, <2>5 DEF SaidWith
  <2>8. Sdked(t, said2, ended2)
    BY <2>2, <2>4, <2>6, <2>7, LiveSdk
  <2> QED  BY <1>1, <2>1, <2>5, <2>8, SdkGoesOn
<1> QED  BY <1>2, <1>3

\* A model call streams a chunk.
LEMMA ChunkSdk ==
  ASSUME StreamInv, SdkInv, NEW c \in Calls, NEW piece \in Pieces, Chunk(c, piece)
  PROVE  SdkInv'
<1>1. Item /\ c \notin graph.ended
  BY DEF Chunk
<1>2. IsGraph(graph) /\ Worded(graph.said)
  BY <1>1, ItemSdk
<1>3. IsContent(piece)
  BY PieceIs
<1>4. PICK g, h : g = graph /\ h = graph'
  OBVIOUS
<1>5. h = Saying(g, c, piece)
  BY <1>4 DEF Chunk, Saying
<1>6. h = Graph([g.said EXCEPT ![c] = Add(@, piece)], [g.chunks EXCEPT ![c] = @ + 1], g.ended, g.taken,
                g.tools, g.updated, g.items + 1, g.step, g.state)
  BY <1>2, <1>4, <1>5, SpokenGraph
<1>7. h.said = [g.said EXCEPT ![c] = Add(@, piece)] /\ h.ended = g.ended
  BY <1>6 DEF Graph
<1>8. PICK x : x = Add(g.said[c], piece)
  OBVIOUS
<1>9. PICK said2 : said2 = [g.said EXCEPT ![c] = x]
  OBVIOUS
<1>10. h.said = said2
  BY <1>7, <1>8, <1>9
<1>11. IsContent(x)
  BY <1>2, <1>3, <1>4, <1>8, AddIs DEF Worded
<1>12. Worded(said2)
  BY <1>2, <1>4, <1>9, <1>11, WordedWith
<1>13. PICK whole : whole = FALSE
  OBVIOUS
<1>14. PICK m : m = Streamed(c, piece, whole)
  OBVIOUS
<1>15. Live(m)
  BY <1>13, <1>14 DEF Chunk
<1>16. said2 = [graph.said EXCEPT ![c] = IF whole THEN piece ELSE Add(graph.said[c], piece)]
  BY <1>4, <1>8, <1>9, <1>13
<1> QED  BY <1>1, <1>3, <1>4, <1>7, <1>10, <1>12, <1>14, <1>15, <1>16, LiveToldSdk

\* A model call ends with its whole message.
LEMMA WholeSdk ==
  ASSUME StreamInv, SdkInv, NEW c \in Calls, NEW piece \in Pieces \cup {Silent}, Whole(c, piece)
  PROVE  SdkInv'
<1>1. Item /\ c \notin graph.ended
  BY DEF Whole
<1>2. IsGraph(graph) /\ Worded(graph.said)
  BY <1>1, ItemSdk
<1>3. IsContent(piece)
  BY PieceIs
<1>4. PICK g, h : g = graph /\ h = graph'
  OBVIOUS
<1>5. PICK content : content = Add(graph.said[c], piece)
  OBVIOUS
<1>6. h = EndingWith(g, c, content) /\ Live(Streamed(c, content, TRUE))
  BY <1>4, <1>5 DEF Whole, EndingWith
<1>7. h = Graph([g.said EXCEPT ![c] = content], g.chunks, g.ended \cup {c}, g.taken, g.tools, g.updated,
                g.items + 1, g.step, g.state)
  BY <1>2, <1>4, <1>6, EndedGraph
<1>8. h.said = [g.said EXCEPT ![c] = content] /\ h.ended = g.ended \cup {c}
  BY <1>7 DEF Graph
<1>9. PICK said2 : said2 = [g.said EXCEPT ![c] = content]
  OBVIOUS
<1>10. IsContent(content)
  BY <1>2, <1>3, <1>5, AddIs DEF Worded
<1>11. Worded(said2)
  BY <1>2, <1>4, <1>9, <1>10, WordedWith
<1>12. PICK whole : whole = TRUE
  OBVIOUS
<1>13. PICK m : m = Streamed(c, content, whole)
  OBVIOUS
<1>14. Live(m)
  BY <1>6, <1>12, <1>13
<1>15. said2 = [graph.said EXCEPT ![c] = IF whole THEN content ELSE Add(graph.said[c], content)]
  BY <1>4, <1>9, <1>12
<1>16. graph'.said = said2 /\ graph'.ended = h.ended /\ graph.ended \subseteq h.ended
  BY <1>4, <1>8, <1>9
<1> QED  BY <1>1, <1>10, <1>11, <1>13, <1>14, <1>15, <1>16, LiveToldSdk

\* A node returns the messages of calls.
LEMMA OutputSdk ==
  ASSUME StreamInv, SdkInv, NEW cs \in SeqOf(Calls, Cardinality(Calls)), Output(cs)
  PROVE  SdkInv'
<1>1. /\ phase = "streaming" /\ graph.items \in Nat /\ IsGraph(graph) /\ Worded(graph.said)
      /\ Fit(stream, graph.items, 0) /\ IsStream(stream) /\ Sdked(stream, graph.said, graph.ended)
  BY ItemSdk DEF Output
<1>2. Cardinality(Calls) \in Nat
  BY CallsAssumption, FS_CardinalityType
<1>3. Len(cs) \in Nat /\ DOMAIN cs = 1 .. Len(cs) /\ (\A i \in 1 .. Len(cs) : cs[i] \in Calls)
  BY <1>2, ListOf
<1>4. PICK g, h, x : g = graph /\ h = graph' /\ x = Range(cs)
  OBVIOUS
<1>5. h = Taking(g, x)
  BY <1>4 DEF Output, Taking
<1>6. h.said = g.said /\ h.ended = g.ended \cup x
  BY <1>1, <1>4, <1>5, TakingSaid
<1>7. PICK said, ended : said = g.said /\ ended = g.ended \cup x
  OBVIOUS
<1>8. Sdked(stream, said, ended)
  BY <1>1, <1>4, <1>7 DEF Sdked, Says
<1>9. PICK ms : ms = [i \in DOMAIN cs |-> InOutput(cs[i], i)]
  OBVIOUS
<1>10. Len(ms) = Len(cs) /\ \A i \in 1 .. Len(cs) : ms[i] = InOutput(cs[i], i)
  <2>1. DOMAIN ms = 1 .. Len(cs)
    BY <1>3, <1>9
  <2> QED  BY <1>3, <1>9, <2>1
<1>11. ASSUME NEW i \in 1 .. Len(ms)
       PROVE  ms[i].index = i - 1 /\ Proper(ms[i], graph.items, i - 1) /\ Repeats(ms[i], said, ended)
  <2>1. ms[i] = InOutput(cs[i], i) /\ cs[i] \in Calls /\ i \in Nat \ {0} /\ scene.events /\ i \in DOMAIN cs
    BY <1>3, <1>10 DEF Output
  <2>2. PICK c \in Calls : c = cs[i]
    BY <2>1
  <2>3. InOutput(c, i).index = i - 1 /\ Proper(InOutput(c, i), graph.items, i - 1)
    BY <1>1, <2>1, InOutputIsProper
  <2>4. c \in ended
    BY <1>4, <1>7, <2>1, <2>2 DEF Range
  <2>5. IsContent(graph.said[c])
    BY <1>1 DEF Worded
  <2>6. PICK m : m = InOutput(c, i)
    OBVIOUS
  <2>7. Repeats(m, graph.said, ended)
    BY <2>1, <2>4, <2>5, <2>6, InOutputTells
  <2> QED  BY <1>4, <1>7, <2>1, <2>2, <2>3, <2>6, <2>7
<1>12. PICK s, n, t : s = stream /\ n = graph.items /\ t = HandleAll(stream, ms)
  OBVIOUS
<1>13. /\ n \in Nat /\ Fit(s, n, 0) /\ Len(ms) \in Nat /\ Sdked(s, said, ended) /\ t = HandleAll(s, ms)
       /\ \A i \in 1 .. Len(ms) : ms[i].index = i - 1 /\ Proper(ms[i], n, i - 1) /\ Repeats(ms[i], said, ended)
  BY <1>1, <1>3, <1>8, <1>10, <1>11, <1>12
<1>14. Sdked(t, said, ended)
  BY <1>13, HandleAllSdk
<1>15. IsStream(t)
  <2>1. Fit(HandleAll(s, ms), n, Len(ms))
    BY <1>13, HandleAllFits
  <2> QED  BY <1>13, <2>1 DEF Fit
<1>16. stream' = Echoed(t) /\ UNCHANGED <<scene, phase>>
  BY <1>9, <1>12 DEF Output
<1>17. PICK u : u = stream'
  OBVIOUS
<1>18. Sdked(u, said, ended)
  BY <1>14, <1>15, <1>16, <1>17, EchoedSdk
<1> QED  BY <1>1, <1>4, <1>6, <1>7, <1>16, <1>17, <1>18, SdkGoesOn

\* A node emits a message of its own.
LEMMA NodeMessageSdk ==
  ASSUME StreamInv, SdkInv, NEW x \in Tools, NodeMessage(x)
  PROVE  SdkInv'
<1>1. /\ phase = "streaming" /\ graph.items \in Nat /\ IsGraph(graph) /\ Worded(graph.said)
      /\ Fit(stream, graph.items, 0) /\ IsStream(stream) /\ Sdked(stream, graph.said, graph.ended)
  BY ItemSdk DEF NodeMessage
<1>2. PICK g, h : g = graph /\ h = graph'
  OBVIOUS
<1>3. h = Graph(g.said, g.chunks, g.ended, g.taken, g.tools \cup {x}, g.updated, g.items + 1, g.step, g.state)
  <2>1. h = [g EXCEPT !.tools = @ \cup {x}, !.items = @ + 1]
    BY <1>2 DEF NodeMessage
  <2> QED  BY <1>1, <1>2, <2>1, ToolsGraph
<1>4. h.said = g.said /\ h.ended = g.ended
  BY <1>3 DEF Graph
<1>5. PICK said, ended : said = g.said /\ ended = g.ended
  OBVIOUS
<1>6. PICK run : run = IF scene.events THEN <<"chain", graph.items>> ELSE None
  OBVIOUS
<1>7. PICK s, n, b, m : s = stream /\ n = graph.items /\ b = 0 /\ m = Returned(x, run, b)
  OBVIOUS
<1>8. run = <<"chain", n>> \/ run = <<"update", n>> \/ (run = None /\ ~scene.events)
  BY <1>6, <1>7
<1>9. b \in Nat /\ n \in Nat /\ Fit(s, n, b) /\ IsStream(s) /\ Sdked(s, said, ended)
  BY <1>1, <1>2, <1>5, <1>7
<1>10. Repeats(m, said, ended)
  BY <1>7, <1>8, <1>9, ReturnedTells
<1>11. Proper(m, n, b)
  <2>1. Proper(Returned(x, run, b), graph.items, b)
    BY <1>1, <1>7, <1>8, <1>9, ReturnedIsProper
  <2> QED  BY <1>7, <2>1
<1>12. PICK t : t = Handle(s, m)
  OBVIOUS
<1>13. Sdked(t, said, ended)
  BY <1>9, <1>10, <1>11, <1>12, HandleSdk
<1>14. IsStream(t)
  <2>1. Fit(Handle(s, m), n, m.index + 1)
    BY <1>9, <1>11, HandleFit
  <2> QED  BY <1>12, <2>1 DEF Fit
<1>15. stream' = Echoed(t) /\ UNCHANGED <<scene, phase>>
  BY <1>6, <1>7, <1>12 DEF NodeMessage
<1>16. PICK u : u = stream'
  OBVIOUS
<1>17. Sdked(u, said, ended)
  BY <1>13, <1>14, <1>15, <1>16, EchoedSdk
<1> QED  BY <1>1, <1>2, <1>4, <1>5, <1>15, <1>16, <1>17, SdkGoesOn

\* A super-step ends and its updates are told.
LEMMA UpdateSdk ==
  ASSUME StreamInv, SdkInv, NEW ts \in SeqOf(Tools, 2), NEW items, Update(ts, items)
  PROVE  SdkInv'
<1>1. /\ phase = "streaming" /\ graph.items \in Nat /\ IsGraph(graph) /\ Worded(graph.said)
      /\ Fit(stream, graph.items, 0) /\ IsStream(stream) /\ Sdked(stream, graph.said, graph.ended)
  BY ItemSdk DEF Update
<1>2. Len(ts) \in Nat /\ DOMAIN ts = 1 .. Len(ts) /\ (\A i \in 1 .. Len(ts) : ts[i] \in Tools)
  BY ListOf
<1>3. PICK g, h, x : g = graph /\ h = graph' /\ x = Range(ts)
  OBVIOUS
<1>4. h = Updating(g, x)
  BY <1>3 DEF Update, Updating
<1>5. h.said = g.said /\ h.ended = g.ended
  BY <1>1, <1>3, <1>4, UpdatingSaid
<1>6. PICK said, ended, s, n : said = g.said /\ ended = g.ended /\ s = stream /\ n = graph.items
  OBVIOUS
<1>7. PICK ms : ms = [i \in DOMAIN ts |-> InUpdate(ts[i], i)]
  OBVIOUS
<1>8. Len(ms) = Len(ts) /\ \A i \in 1 .. Len(ts) : ms[i] = InUpdate(ts[i], i)
  <2>1. DOMAIN ms = 1 .. Len(ts)
    BY <1>2, <1>7
  <2> QED  BY <1>2, <1>7, <2>1
<1>9. ASSUME NEW i \in 1 .. Len(ms)
      PROVE  ms[i].index = i - 1 /\ Proper(ms[i], n, i - 1) /\ Repeats(ms[i], said, ended)
  <2>1. PICK run, k : run = <<"update", n>> /\ k = i - 1
    OBVIOUS
  <2>2. k \in Nat /\ n \in Nat /\ n = graph.items
    BY <1>1, <1>2, <1>6, <1>8, <2>1
  <2>3. PICK y \in Tools : y = ts[i]
    BY <1>2, <1>8
  <2>4. PICK m : m = Returned(y, run, k)
    OBVIOUS
  <2>5. ms[i] = m
    BY <1>6, <1>8, <2>1, <2>3, <2>4 DEF InUpdate
  <2>6. Returned(y, run, k).index = k /\ Proper(Returned(y, run, k), graph.items, k)
    BY <2>1, <2>2, ReturnedIsProper
  <2>7. Repeats(m, said, ended)
    BY <2>1, <2>2, <2>4, ReturnedTells
  <2> QED  BY <2>1, <2>2, <2>4, <2>5, <2>6, <2>7
<1>10. PICK t : t = HandleAll(s, ms)
  OBVIOUS
<1>11. n \in Nat /\ Fit(s, n, 0) /\ Len(ms) \in Nat /\ Sdked(s, said, ended)
  BY <1>1, <1>2, <1>3, <1>6, <1>8
<1>12. Sdked(t, said, ended)
  BY <1>9, <1>10, <1>11, HandleAllSdk
<1>13. IsStream(t)
  <2>1. Fit(HandleAll(s, ms), n, Len(ms))
    BY <1>9, <1>11, HandleAllFits
  <2> QED  BY <1>10, <2>1 DEF Fit
<1>14. stream' = Tell(t, Forwarded(items)) /\ UNCHANGED <<scene, phase>>
  BY <1>6, <1>7, <1>10 DEF Update, FromUpdate
<1>15. PICK u : u = stream'
  OBVIOUS
<1>16. Sdked(u, said, ended)
  BY <1>12, <1>13, <1>14, <1>15, ForwardedSdk
<1> QED  BY <1>1, <1>3, <1>5, <1>6, <1>14, <1>15, <1>16, SdkGoesOn

\* The values of the state are told.
LEMMA ValuesSdk == ASSUME StreamInv, SdkInv, Values PROVE SdkInv'
<1>1. /\ phase = "streaming" /\ graph.items \in Nat /\ IsGraph(graph) /\ Worded(graph.said)
      /\ Fit(stream, graph.items, 0) /\ IsStream(stream) /\ Sdked(stream, graph.said, graph.ended)
  BY ItemSdk DEF Values
<1>2. PICK g, h : g = graph /\ h = graph'
  OBVIOUS
<1>3. h = Graph(g.said, g.chunks, g.ended, g.taken, g.tools, g.updated, g.items + 1, g.step, g.state + 1)
  <2>1. h = [g EXCEPT !.state = @ + 1, !.items = @ + 1]
    BY <1>2 DEF Values
  <2> QED  BY <1>1, <1>2, <2>1, StateGraph
<1>4. h.said = g.said /\ h.ended = g.ended
  BY <1>3 DEF Graph
<1>5. PICK e : e = Shown(graph.state + 1)
  OBVIOUS
<1>6. e.event \notin SdkEvents
  BY <1>5, ShownIs DEF SdkEvents
<1>7. PICK said, ended, s, t : said = g.said /\ ended = g.ended /\ s = stream /\ t = stream'
  OBVIOUS
<1>8. t = Tell(s, <<e>>) /\ UNCHANGED <<scene, phase>> /\ IsStream(s) /\ Sdked(s, said, ended)
  BY <1>1, <1>2, <1>5, <1>7 DEF Values
<1>9. Sdked(t, said, ended)
  BY <1>6, <1>8, TellOneSdk
<1> QED  BY <1>1, <1>2, <1>4, <1>7, <1>8, <1>9, SdkGoesOn

\* The graph ends, with a final state or without.
LEMMA EndSdk ==
  ASSUME StreamInv, SdkInv, NEW final \in {"none", "other", "mapping"}, NEW cs \in Named, End(final, cs)
  PROVE  SdkInv'
<1>1. /\ phase = "streaming" /\ Fit(stream, graph.items, 0)
      /\ interrupt \in {None, <<1>>, <<1, 2>>}
  BY DEF StreamInv, Scenery, Streaming, Between, End
<1>2. IsStream(stream) /\ Messages(stream) /\ Logged(stream) /\ Sdked(stream, graph.said, graph.ended) /\ Worded(graph.said)
  BY <1>1 DEF Fit, SdkInv
<1>3. Cardinality(Calls) \in Nat
  BY CallsAssumption, FS_CardinalityType
<1>4. Len(cs) \in Nat
  BY <1>3, ListOf DEF Named
<1>5. /\ stream' = Tell(Finalize(stream, final, cs), Requested(interrupt))
      /\ result' = final /\ phase' = "done" /\ UNCHANGED <<scene, graph>>
  BY DEF End
<1>6. PICK r : r = Finalize(stream, final, cs)
  OBVIOUS
<1>7. IsStream(r) /\ \E l : EndsAs(stream, final, r, l)
  BY <1>1, <1>4, <1>6, FinalizeEnds
<1>8. PICK l : EndsAs(stream, final, r, l)
  BY <1>7
<1>9. PICK asks : asks = Requested(interrupt)
  OBVIOUS
<1>10. IsList(asks) /\ \A i \in 1 .. Len(asks) : asks[i].event \notin SdkEvents
  BY <1>1, <1>9, RequestedIs DEF SdkEvents
<1>11. PICK t, m : t = stream' /\ m = r.log \o asks
  OBVIOUS
<1>12. t.log = m
  <2>1. t = Tell(r, asks)
    BY <1>5, <1>6, <1>9, <1>11
  <2> QED  BY <1>7, <1>11, <2>1, TellLog
<1>13. PICK s, said, ended : s = stream /\ said = graph.said /\ ended = graph.ended
  OBVIOUS
<1>14. SdkOver(m, final)
  <2>1. IsStream(s) /\ Messages(s) /\ Logged(s) /\ Sdked(s, said, ended) /\ EndsAs(s, final, r, l)
    BY <1>2, <1>8, <1>13
  <2> QED  BY <1>10, <1>11, <2>1, SdkEnds
<1>15. Worded(graph'.said)
  BY <1>2, <1>5
<1> QED  BY <1>5, <1>11, <1>12, <1>14, <1>15, SdkStops

\* At the start nothing was said or told.
LEMMA InitSdk == Init => SdkInv
<1> SUFFICES ASSUME Init PROVE SdkInv
  OBVIOUS
<1>1. /\ graph.said = [c \in Calls |-> Silent] /\ phase = "streaming"
      /\ stream = [identities |-> <<>>, open |-> <<>>, parts |-> <<>>, seen |-> {}, log |-> <<>>]
  BY DEF Init
<1>2. Worded(graph.said)
  BY <1>1, SilentIs DEF Worded
<1>3. DOMAIN stream.identities = {} /\ DOMAIN stream.open = {} /\ DOMAIN stream.parts = {}
  BY <1>1, ListEmpty
<1>4. \A c \in Calls : graph.said[c] = Silent
  BY <1>1
<1>5. Sdked(stream, graph.said, graph.ended)
  BY <1>3, <1>4 DEF Sdked, Heads, Says
<1> QED  BY <1>1, <1>2, <1>5 DEF SdkInv

\* Every step keeps it.
LEMMA NextSdk == StreamInv /\ SdkInv /\ [Next]_vars => SdkInv'
<1> SUFFICES ASSUME StreamInv, SdkInv, [Next]_vars PROVE SdkInv'
  OBVIOUS
<1>1. ASSUME NEW c \in Calls, NEW piece \in Pieces, Chunk(c, piece) PROVE SdkInv'
  BY <1>1, ChunkSdk
<1>2. ASSUME NEW c \in Calls, NEW piece \in Pieces \cup {Silent}, Whole(c, piece) PROVE SdkInv'
  BY <1>2, WholeSdk
<1>3. ASSUME NEW cs \in SeqOf(Calls, Cardinality(Calls)), Output(cs) PROVE SdkInv'
  BY <1>3, OutputSdk
<1>4. ASSUME NEW t \in Tools, NodeMessage(t) PROVE SdkInv'
  BY <1>4, NodeMessageSdk
<1>5. ASSUME NEW ts \in SeqOf(Tools, 2), NEW items \in {<<>>, << 1 >>, << 1, 2 >>}, Update(ts, items) PROVE SdkInv'
  BY <1>5, UpdateSdk
<1>6. ASSUME Values PROVE SdkInv'
  BY <1>6, ValuesSdk
<1>7. ASSUME NEW final \in {"none", "other", "mapping"}, NEW cs \in Named, End(final, cs) PROVE SdkInv'
  BY <1>7, EndSdk
<1>8. ASSUME Break PROVE SdkInv'
  <2>1. phase = "streaming" /\ phase' # "streaming" /\ UNCHANGED <<scene, graph, stream, result>>
    BY <1>8 DEF Break
  <2>2. Worded(graph'.said)
    BY <2>1 DEF SdkInv
  <2> QED  BY <2>1, <2>2, SdkFails
<1>9. ASSUME UNCHANGED vars PROVE SdkInv'
  <2>1. scene' = scene /\ graph' = graph /\ stream' = stream /\ result' = result /\ phase' = phase
    BY <1>9 DEF vars
  <2>2. Worded(graph'.said)
    BY <2>1 DEF SdkInv
  <2>3. CASE phase = "streaming"
    <3>1. Sdked(stream', graph'.said, graph'.ended)
      BY <2>1, <2>3 DEF SdkInv
    <3> QED  BY <2>1, <2>2, <2>3, <3>1, SdkGoesOn
  <2>4. CASE phase # "streaming"
    <3>1. SdkOver(stream'.log, result')
      BY <2>1, <2>4 DEF SdkInv
    <3> QED  BY <2>1, <2>2, <2>4, <3>1, SdkStops
  <2> QED  BY <2>3, <2>4
<1> QED  BY <1>1, <1>2, <1>3, <1>4, <1>5, <1>6, <1>7, <1>8, <1>9 DEF Next

\* What the two invariants say of the clients of the SDK.
LEMMA SdkHolds == StreamInv /\ SdkInv => SdkMessages
<1> SUFFICES ASSUME StreamInv, SdkInv PROVE SdkMessages
  OBVIOUS
<1>1. PICK l : l = stream.log
  OBVIOUS
<1>2. /\ SdkTold(l)
      /\ phase = "streaming" =>
           \A id \in Ids(l, SdkEvents) : \A p \in Told(l, id, {"partial"}) :
             Final(p, Told(l, id, {"partial"})) => l[p].content = graph.said[l[p].of]
      /\ result \in {"other", "mapping"} => Concluded(l)
  <2>1. CASE phase = "streaming"
    <3>1. result = "unread" /\ Fit(stream, graph.items, 0) /\ Sdked(stream, graph.said, graph.ended)
      BY <2>1 DEF StreamInv, Streaming, Between, SdkInv
    <3>2. IsStream(stream) /\ Messages(stream) /\ Logged(stream)
      BY <3>1 DEF Fit
    <3> QED  BY <1>1, <3>1, <3>2, StreamingTold
  <2>2. CASE phase # "streaming"
    BY <1>1, <2>2 DEF SdkInv, SdkOver
  <2> QED  BY <2>1, <2>2
<1>3. ASSUME NEW id \in Ids(l, SdkEvents)
      PROVE  LET told     == Told(l, id, SdkEvents)
                 partials == Told(l, id, {"partial"})
                 complete == Told(l, id, {"complete"})
             IN  /\ \A n \in told : l[n].event = "metadata" <=> First(n, told)
                 /\ \A m, n \in complete : m = n
                 /\ \A p \in partials : Final(p, partials) =>
                      /\ phase = "streaming" => l[p].content = graph.said[l[p].of]
                      /\ scene.tuples => Assembled(l, id) = l[p].content
                      /\ \A n \in complete : Final(n, told) /\ l[n].content = l[p].content
                 /\ result \in {"other", "mapping"} => complete # {}
  BY <1>2 DEF SdkTold, SdkTells, Headed, Concluded
<1> QED  BY <1>1, <1>3 DEF SdkMessages

\* Every message an SDK's client hears of begins with its metadata, its last partial holds all its call
\* has said, its tuples add up to that, and it is told complete once and last; when the execution ends
\* with any final state all are complete (_handle_live_message, _finalize_stream).
THEOREM MessagesHold == Spec => []SdkMessages
<1>1. Init => StreamInv /\ SdkInv
  BY InitHolds, InitSdk
<1>2. StreamInv /\ SdkInv /\ [Next]_vars => (StreamInv /\ SdkInv)'
  BY NextHolds, NextSdk
<1>3. StreamInv /\ SdkInv => SdkMessages
  BY SdkHolds
<1> QED  BY <1>1, <1>2, <1>3, PTL DEF Spec
=============================================================================
