-------------------------- MODULE ConversionProofs --------------------------
(***************************************************************************)
(* What the conversion keeps to whatever the tables, the entities and the  *)
(* reports are.  The inductive invariant says that a sample comes from a   *)
(* conversion of its entity, and that the whole conversion of an entity    *)
(* the walk has passed is in the dictionary of the path or on the page.    *)
(***************************************************************************)
EXTENDS Conversion, FiniteSetTheorems, TLAPS

(* The walk has passed the entity in the present path.                     *)
PassedHere(e, p, n) == p = path /\ (n < node \/ (n = node /\ e \notin todo))

Kept ==
    \A e \in report.entities : \A p \in DOMAIN Paths : \A n \in DOMAIN Paths[p] :
        Paths[p][n] = e[1] =>
            /\ p < path => Converted(e) \subseteq page[p]
            /\ PassedHere(e, p, n) => Converted(e) \subseteq out

Origin ==
    /\ \A s \in out : s[1] \in report.entities /\ s \in Converted(s[1])
    /\ \A p \in DOMAIN page : \A s \in page[p] : s[1] \in report.entities /\ s \in Converted(s[1])

IInv == TypeOK /\ Kept /\ Origin

(* A conversion is a matter of the report alone.                           *)
LEMMA ConvertedStable ==
    ASSUME report' = report
    PROVE  \A e : Converted(e)' = Converted(e)
BY DEF Converted, Raises, Records, Value, Lacks, Overlaid

LEMMA ConvertedSamples ==
    ASSUME NEW e \in Entities
    PROVE  Converted(e) \subseteq Samples
BY RowsAssumption DEF Converted, Samples

LEMMA InitIInv == Init => IInv
<1> SUFFICES ASSUME Init PROVE IInv
  OBVIOUS
<1>1. TypeOK
  BY PathsAssumption, ReportsAssumption DEF Init, TypeOK
<1>2. Kept
  BY PathsAssumption DEF Init, Kept, PassedHere
<1>3. Origin
  BY DEF Init, Origin
<1> QED
  BY <1>1, <1>2, <1>3 DEF IInv

LEMMA NextNodeKeeps == IInv /\ NextNode => IInv'
<1> SUFFICES ASSUME IInv, NextNode PROVE IInv'
  OBVIOUS
<1>0. \A e : Converted(e)' = Converted(e)
  BY ConvertedStable DEF NextNode
<1>1. TypeOK'
  BY PathsAssumption DEF IInv, TypeOK, NextNode
<1>2. Kept'
  <2> SUFFICES ASSUME NEW e \in report.entities, NEW p \in DOMAIN Paths, NEW n \in DOMAIN Paths[p],
                      Paths[p][n] = e[1]
               PROVE  /\ p < path => Converted(e) \subseteq page[p]
                      /\ PassedHere(e, p, n)' => Converted(e) \subseteq out
    BY <1>0 DEF NextNode, Kept
  <2>1. p < path => Converted(e) \subseteq page[p]
    BY DEF IInv, Kept
  <2>2. ASSUME PassedHere(e, p, n)' PROVE Converted(e) \subseteq out
    <3>1. p = path /\ n \in Nat /\ node \in Nat
      BY <2>2, PathsAssumption DEF PassedHere, NextNode, IInv, TypeOK
    <3>2. n < node + 1
      BY <2>2, <3>1 DEF PassedHere, NextNode
    <3>3. PassedHere(e, p, n)
      BY <3>1, <3>2 DEF PassedHere, NextNode
    <3> QED
      BY <3>3 DEF IInv, Kept
  <2> QED
    BY <2>1, <2>2
<1>3. Origin'
  BY <1>0 DEF IInv, Origin, NextNode
<1> QED
  BY <1>1, <1>2, <1>3 DEF IInv

LEMMA ConvertKeeps == ASSUME NEW e \in Entities, IInv, Convert(e) PROVE IInv'
<1>0. \A f : Converted(f)' = Converted(f)
  BY ConvertedStable DEF Convert
<1>1. TypeOK'
  BY ConvertedSamples DEF IInv, TypeOK, Convert
<1>2. Kept'
  <2> SUFFICES ASSUME NEW f \in report.entities, NEW p \in DOMAIN Paths, NEW n \in DOMAIN Paths[p],
                      Paths[p][n] = f[1]
               PROVE  /\ p < path => Converted(f) \subseteq page[p]
                      /\ PassedHere(f, p, n)' => Converted(f) \subseteq out'
    BY <1>0 DEF Convert, Kept
  <2>1. p < path => Converted(f) \subseteq page[p]
    BY DEF IInv, Kept
  <2>2. CASE f = e
    BY <2>1, <2>2 DEF Convert
  <2>3. CASE f # e
    <3>1. PassedHere(f, p, n)' => PassedHere(f, p, n)
      BY <2>3 DEF PassedHere, Convert
    <3> QED
      BY <2>1, <3>1 DEF IInv, Kept, Convert
  <2> QED
    BY <2>2, <2>3
<1>3. Origin'
  <2>1. \A s \in Converted(e) : s[1] = e
    BY DEF Converted
  <2>2. e \in report.entities
    BY DEF IInv, TypeOK, Convert
  <2> QED
    BY <1>0, <2>1, <2>2 DEF IInv, Origin, Convert
<1> QED
  BY <1>1, <1>2, <1>3 DEF IInv

LEMMA YieldKeeps == IInv /\ Yield => IInv'
<1> SUFFICES ASSUME IInv, Yield PROVE IInv'
  OBVIOUS
<1>0. \A e : Converted(e)' = Converted(e)
  BY ConvertedStable DEF Yield
<1>1. CASE \E s \in out : s[1] \in report.foreign
  <2>1. TypeOK'
    BY <1>1 DEF IInv, TypeOK, Yield
  <2>2. Kept'
    BY <1>0, <1>1 DEF IInv, Kept, PassedHere, Yield
  <2>3. Origin'
    BY <1>0, <1>1 DEF IInv, Origin, Yield
  <2> QED
    BY <2>1, <2>2, <2>3 DEF IInv
<1>2. CASE ~\E s \in out : s[1] \in report.foreign
  <2>0. /\ page' = Append(page, out) /\ path' = path + 1 /\ node' = 0 /\ out' = {}
        /\ stream' = IF path = Len(Paths) THEN "done" ELSE "open"
        /\ report' = report /\ todo' = todo
    BY <1>2 DEF Yield
  <2>a. /\ path \in 1 .. Len(Paths) /\ Len(Paths) \in Nat
        /\ page \in Seq(SUBSET Samples) /\ out \in SUBSET Samples /\ Len(page) = path - 1
    BY PathsAssumption DEF IInv, TypeOK, Yield
  <2>b. /\ Len(page') = path /\ DOMAIN page' = 1 .. path /\ DOMAIN page = 1 .. path - 1
        /\ page'[path] = out /\ \A p \in 1 .. path - 1 : page'[p] = page[p]
        /\ page' \in Seq(SUBSET Samples)
    BY <2>0, <2>a
  <2>1. TypeOK'
    <3>1. path + 1 \in 1 .. Len(Paths) => Paths[path + 1] \in Seq(STRING)
      BY PathsAssumption, <2>a
    <3>2. stream' # "done" => path + 1 \in 1 .. Len(Paths)
      BY <2>0, <2>a
    <3> QED
      BY <2>0, <2>a, <2>b, <3>1, <3>2 DEF IInv, TypeOK
  <2>2. Kept'
    <3> SUFFICES ASSUME NEW e \in report.entities, NEW p \in DOMAIN Paths, NEW n \in DOMAIN Paths[p],
                        Paths[p][n] = e[1]
                 PROVE  /\ p < path + 1 => Converted(e) \subseteq page'[p]
                        /\ ~PassedHere(e, p, n)'
      BY <1>0, <2>0 DEF Kept
    <3>0. p \in 1 .. Len(Paths) /\ n \in 1 .. Len(Paths[p]) /\ Len(Paths[p]) \in Nat
      BY PathsAssumption
    <3>1. ~PassedHere(e, p, n)'
      BY <2>0, <3>0 DEF PassedHere
    <3>2. CASE p < path
      <4>1. Converted(e) \subseteq page[p]
        BY <3>2 DEF IInv, Kept
      <4> QED
        BY <2>a, <2>b, <3>0, <3>1, <3>2, <4>1
    <3>3. CASE p = path
      <4>1. node = Len(Paths[path]) /\ todo = {}
        BY DEF Yield
      <4>2. PassedHere(e, p, n)
        BY <3>0, <3>3, <4>1 DEF PassedHere
      <4>3. Converted(e) \subseteq out
        BY <4>2 DEF IInv, Kept
      <4> QED
        BY <2>b, <3>1, <3>3, <4>3
    <3> QED
      BY <2>a, <3>0, <3>1, <3>2, <3>3
  <2>3. Origin'
    <3> SUFFICES ASSUME NEW p \in 1 .. path, NEW s \in page'[p]
                 PROVE  s[1] \in report.entities /\ s \in Converted(s[1])
      BY <1>0, <2>0, <2>b DEF Origin
    <3>1. CASE p = path
      BY <2>b, <3>1 DEF IInv, Origin
    <3>2. CASE p # path
      <4>1. p \in 1 .. path - 1
        BY <2>a, <3>2
      <4> QED
        BY <2>b, <4>1 DEF IInv, Origin
    <3> QED
      BY <3>1, <3>2
  <2> QED
    BY <2>1, <2>2, <2>3 DEF IInv
<1> QED
  BY <1>1, <1>2

LEMMA StutterKeeps == IInv /\ UNCHANGED vars => IInv'
<1> SUFFICES ASSUME IInv, UNCHANGED vars PROVE IInv'
  OBVIOUS
<1>0. \A e : Converted(e)' = Converted(e)
  BY ConvertedStable DEF vars
<1> QED
  BY <1>0 DEF IInv, TypeOK, Kept, Origin, PassedHere, vars

LEMMA Invariance == Spec => []IInv
<1>1. IInv /\ [Next]_vars => IInv'
  BY NextNodeKeeps, ConvertKeeps, YieldKeeps, StutterKeeps DEF Next
<1> QED
  BY InitIInv, <1>1, PTL DEF Spec

-----------------------------------------------------------------------------
(* The walk over the tables stays within them, and the page has the paths  *)
(* before the present one.                                                 *)
THEOREM TypeCorrect == Spec => []TypeOK
<1>1. IInv => TypeOK
  BY DEF IInv
<1> QED
  BY Invariance, <1>1, PTL

(* No sample is made up, whatever rows the converters have and whichever   *)
(* keys the sentinel stands for.                                           *)
THEOREM SamplesReported == Spec => []OnlyReported
<1>1. IInv => OnlyReported
  <2> SUFFICES ASSUME IInv, NEW s \in Streamed
               PROVE  \/ RowOf(s).does = "recOr0"
                      \/ \E k \in RowOf(s).from : ~Lacks(s[1], k)
    BY DEF OnlyReported
  <2>1. s \in Converted(s[1])
    BY DEF IInv, Origin, Streamed
  <2>2. Records(s[1], RowOf(s))
    BY <2>1 DEF Converted, RowOf
  <2>3. \A k : Value(s[1], k) = "reported" => ~Lacks(s[1], k)
    BY DEF Value
  <2> QED
    BY <2>2, <2>3 DEF Records
<1> QED
  BY Invariance, <1>1, PTL

(* An entity that fails costs no other one a sample, and a key a host does *)
(* not know costs no other key one.                                        *)
THEOREM NothingIsLost == Spec => []NothingLost
<1>1. IInv => NothingLost
  <2> SUFFICES ASSUME IInv, stream = "done",
                      NEW e \in report.entities, Sound(e),
                      NEW i \in DOMAIN Rows[e], Rows[e][i].does = "rec",
                      NEW k \in Rows[e][i].from, ~Lacks(e, k), ~Overlaid(e, k)
               PROVE  Emitted(e, i)
    BY DEF NothingLost
  <2>0. /\ e \in Entities
        /\ path = Len(Paths) + 1 /\ Len(page) = Len(Paths) /\ DOMAIN page = DOMAIN Paths
    BY PathsAssumption DEF IInv, TypeOK
  <2>1. PICK p \in DOMAIN Paths : \E n \in DOMAIN Paths[p] : Paths[p][n] = e[1]
    BY <2>0, EntitiesAssumption
  <2>2. Converted(e) \subseteq page[p]
    <3>1. p < path
      BY <2>0, <2>1, PathsAssumption
    <3> QED
      BY <2>1, <3>1 DEF IInv, Kept
  <2>3. \A j \in DOMAIN Rows[e] : ~Raises(e, Rows[e][j])
    <3> SUFFICES ASSUME NEW j \in DOMAIN Rows[e], Raises(e, Rows[e][j]) PROVE FALSE
      OBVIOUS
    <3>1. CASE Rows[e][j].does = "check" /\ e \in report.bad
      BY <3>1 DEF Sound
    <3>2. CASE /\ Rows[e][j].does \in {"rec", "read"}
               /\ \A l \in Rows[e][j].from : Value(e, l) = "absent"
      <4>1. PICK l \in Rows[e][j].from : ~Lacks(e, l) \/ l \in Missing[e[1]]
        BY <3>2 DEF Sound
      <4>2. Value(e, l) # "absent"
        BY <4>1 DEF Value
      <4> QED
        BY <3>2, <4>1, <4>2
    <3> QED
      BY <3>1, <3>2 DEF Raises
  <2>4. Records(e, Rows[e][i])
    <3>1. Value(e, k) = "reported"
      BY DEF Value, Overlaid
    <3> QED
      BY <3>1 DEF Records
  <2>5. <<e, i>> \in Converted(e)
    <3>1. 1 .. i \subseteq DOMAIN Rows[e]
      BY <2>0, RowsAssumption
    <3> QED
      BY <2>3, <2>4, <3>1 DEF Converted
  <2> QED
    BY <2>0, <2>1, <2>2, <2>5 DEF Emitted
<1> QED
  BY Invariance, <1>1, PTL

-----------------------------------------------------------------------------
(* The page.  A sample is in a path its node is listed in: the walk takes  *)
(* an entity up only there, and what it recorded is streamed there.        *)
Placed ==
    /\ report \in Reports
    /\ \A e \in todo : node \in DOMAIN Paths[path] /\ Paths[path][node] = e[1]
    /\ \A s \in out : InPath(s[1], path)
    /\ \A p \in DOMAIN page : \A s \in page[p] : InPath(s[1], p)

LEMMA InitPlaced == Init => Placed
BY DEF Init, Placed

LEMMA StepPlaces == ASSUME IInv, Placed, [Next]_vars PROVE Placed'
<1>1. CASE NextNode
  <2>1. node + 1 \in DOMAIN Paths[path]
    <3>1. path \in DOMAIN Paths
      BY <1>1, PathsAssumption DEF NextNode, IInv, TypeOK
    <3>2. Paths[path] \in Seq(STRING)
      BY <3>1, PathsAssumption
    <3> QED
      BY <1>1, <3>2 DEF NextNode, IInv, TypeOK
  <2> QED
    BY <1>1, <2>1 DEF NextNode, Placed, InPath
<1>2. ASSUME NEW e \in Entities, Convert(e) PROVE Placed'
  <2>1. \A s \in Converted(e) : s[1] = e
    BY DEF Converted
  <2>2. InPath(e, path)
    BY <1>2 DEF Convert, Placed, InPath
  <2> QED
    BY <1>2, <2>1, <2>2 DEF Convert, Placed, InPath
<1>3. CASE Yield
  <2>1. CASE \E s \in out : s[1] \in report.foreign
    BY <1>3, <2>1 DEF Yield, Placed, InPath
  <2>2. CASE ~\E s \in out : s[1] \in report.foreign
    <3>1. page' = Append(page, out) /\ out' = {} /\ todo' = {} /\ report' = report
      BY <1>3, <2>2 DEF Yield
    <3>2. page \in Seq(SUBSET Samples) /\ out \in SUBSET Samples /\ Len(page) = path - 1 /\ path \in Nat
      BY PathsAssumption DEF IInv, TypeOK
    <3>3. /\ DOMAIN page' = 1 .. path /\ DOMAIN page = 1 .. path - 1
          /\ page'[path] = out /\ \A p \in 1 .. path - 1 : page'[p] = page[p]
      BY <3>1, <3>2
    <3>4. ASSUME NEW p \in 1 .. path, NEW s \in page'[p] PROVE InPath(s[1], p)
      <4>1. CASE p = path
        BY <3>3, <4>1 DEF Placed
      <4>2. CASE p # path
        <5>1. p \in 1 .. path - 1
          BY <3>2, <4>2
        <5> QED
          BY <3>3, <5>1 DEF Placed
      <4> QED
        BY <4>1, <4>2
    <3>5. \A p \in DOMAIN page' : \A s \in page'[p] : InPath(s[1], p)
      BY <3>3, <3>4
    <3>6. report' \in Reports
      BY <3>1 DEF Placed
    <3> QED
      BY <3>1, <3>5, <3>6 DEF Placed, InPath
  <2> QED
    BY <2>1, <2>2
<1>4. CASE UNCHANGED vars
  BY <1>4 DEF vars, Placed, InPath
<1> QED
  BY <1>1, <1>2, <1>3, <1>4 DEF Next

(* An image of a finite set under a function that keeps its members apart  *)
(* has as many members.                                                    *)
LEMMA SameCount ==
    ASSUME NEW S, IsFiniteSet(S), NEW T, NEW f \in [S -> T],
           \A y \in T : \E x \in S : f[x] = y,
           \A x, y \in S : f[x] = f[y] => x = y
    PROVE  Cardinality(T) = Cardinality(S)
<1>1. f \in Bijection(S, T)
  BY DEF Bijection, Injection, Surjection, IsInjective
<1>2. ExistsBijection(S, T)
  BY <1>1 DEF ExistsBijection
<1> QED
  BY <1>2, FS_Bijection

(* Pairs that agree when their first components do.                        *)
LEMMA Single ==
    ASSUME NEW R, IsFiniteSet(R), \A x, y \in R : x[1] = y[1] => x = y
    PROVE  Functional(R)
<1> DEFINE f == [x \in R |-> x[1]]
           M == {x[1] : x \in R}
<1>1. f \in [R -> M] /\ \A m \in M : \E x \in R : f[x] = m
  OBVIOUS
<1>2. \A x, y \in R : f[x] = f[y] => x = y
  OBVIOUS
<1>3. Cardinality(M) = Cardinality(R)
  <2> HIDE DEF f, M
  <2> QED
    BY <1>1, <1>2, SameCount
<1> QED
  BY <1>3 DEF Functional

(* A report has finitely many rows.                                        *)
LEMMA RowsFinite ==
    ASSUME NEW E, E \subseteq Entities, IsFiniteSet(E)
    PROVE  IsFiniteSet(UNION {{e} \X DOMAIN Rows[e] : e \in E})
<1> DEFINE f == [e \in E |-> {e} \X DOMAIN Rows[e]]
           T == {{e} \X DOMAIN Rows[e] : e \in E}
<1>1. IsFiniteSet(T)
  <2>1. f \in Surjection(E, T)
    BY DEF Surjection
  <2> QED
    BY <2>1, FS_Surjection
<1>2. ASSUME NEW t \in T PROVE IsFiniteSet(t)
  <2>1. PICK e \in E : t = {e} \X DOMAIN Rows[e]
    OBVIOUS
  <2>2. Len(Rows[e]) \in Int /\ DOMAIN Rows[e] = 1 .. Len(Rows[e])
    BY <2>1, RowsAssumption
  <2>3. IsFiniteSet({e})
    BY FS_Singleton
  <2>4. IsFiniteSet(DOMAIN Rows[e])
    BY <2>2, FS_Interval
  <2> QED
    BY <2>1, <2>3, <2>4, FS_Product
<1> QED
  BY <1>1, <1>2, FS_UNION

(* What is streamed are rows that record, of entities of one report.       *)
LEMMA StreamedRows ==
    ASSUME IInv, Placed, NEW p \in DOMAIN page, NEW s \in page[p]
    PROVE  /\ s[1] \in Entities /\ s[1] \in report.entities
           /\ s = <<s[1], s[2]>> /\ s[2] \in Recording(s[1])
           /\ InPath(s[1], p)
<1>1. s[1] \in report.entities /\ s \in Converted(s[1])
  BY DEF IInv, Origin
<1>2. s[1] \in Entities
  BY <1>1 DEF IInv, TypeOK
<1>3. s \in {s[1]} \X DOMAIN Rows[s[1]] /\ Records(s[1], Rows[s[1]][s[2]])
  BY <1>1 DEF Converted
<1>4. s[2] \in Recording(s[1])
  BY <1>3 DEF Recording, Records
<1>5. s = <<s[1], s[2]>>
  BY <1>3
<1> QED
  BY <1>1, <1>2, <1>4, <1>5 DEF Placed

(* Tables that keep apart whatever a host may report together give a page  *)
(* on which a series is one row of one identity, whichever conversions     *)
(* were cut short, and a metric is in one group.                           *)
THEOREM PageWellFormed ==
    ASSUME \A e, f \in Entities : Together(e, f) => KeptApart(e, f)
    PROVE  Spec => []WellFormed
<1>1. IInv /\ Placed => WellFormed
  <2> SUFFICES ASSUME IInv, Placed PROVE WellFormed
    OBVIOUS
  <2> DEFINE Line(s) == <<Series(s), <<Identity[s[1]], s[2]>>>>
             lines  == {Line(s) : s \in Streamed}
             groups == UNION {{<<RowOf(s).metric, p>> : s \in page[p]} : p \in DOMAIN page}
  <2>0. ASSUME NEW p \in DOMAIN page, NEW s \in page[p], NEW q \in DOMAIN page, NEW t \in page[q],
               RowOf(s).metric = RowOf(t).metric
        PROVE  p = q /\ (Series(s) = Series(t) => Line(s) = Line(t))
    <3>1. /\ s[1] \in Entities /\ s[1] \in report.entities /\ s = <<s[1], s[2]>>
          /\ s[2] \in Recording(s[1]) /\ InPath(s[1], p)
      BY StreamedRows
    <3>2. /\ t[1] \in Entities /\ t[1] \in report.entities /\ t = <<t[1], t[2]>>
          /\ t[2] \in Recording(t[1]) /\ InPath(t[1], q)
      BY StreamedRows
    <3>3. KeptApart(s[1], t[1])
      <4>1. Together(s[1], t[1])
        BY <3>1, <3>2 DEF Placed, Together
      <4> QED
        BY <3>1, <3>2, <4>1
    <3>4. p \in DOMAIN Paths /\ q \in DOMAIN Paths
      BY PathsAssumption DEF IInv, TypeOK
    <3>5. Rows[s[1]][s[2]].metric = Rows[t[1]][t[2]].metric
      BY <2>0 DEF RowOf
    <3>6. /\ Series(<<s[1], s[2]>>) = Series(<<t[1], t[2]>>)
             => Identity[s[1]] = Identity[t[1]] /\ s[2] = t[2]
          /\ p = q
      BY <3>1, <3>2, <3>3, <3>4, <3>5 DEF KeptApart
    <3> QED
      BY <3>1, <3>2, <3>6
  <2>1. IsFiniteSet(Streamed)
    <3> DEFINE U == UNION {{e} \X DOMAIN Rows[e] : e \in report.entities}
    <3>1. IsFiniteSet(U)
      BY RowsFinite, ReportsAssumption DEF Placed
    <3>2. Streamed \subseteq U
      <4> SUFFICES ASSUME NEW p \in DOMAIN page, NEW s \in page[p] PROVE s \in U
        BY DEF Streamed
      <4>1. s[1] \in report.entities /\ s \in {s[1]} \X DOMAIN Rows[s[1]]
        BY DEF IInv, Origin, Converted
      <4> QED
        BY <4>1
    <3> QED
      BY <3>1, <3>2, FS_Subset
  <2>2. Functional(lines)
    <3> DEFINE f == [s \in Streamed |-> Line(s)]
    <3>1. f \in Surjection(Streamed, lines)
      BY DEF Surjection
    <3>2. IsFiniteSet(lines)
      <4> HIDE DEF f, lines
      <4> QED
        BY <2>1, <3>1, FS_Surjection
    <3>3. ASSUME NEW x \in lines, NEW y \in lines, x[1] = y[1] PROVE x = y
      <4>1. PICK s \in Streamed : x = Line(s)
        OBVIOUS
      <4>2. PICK t \in Streamed : y = Line(t)
        OBVIOUS
      <4>3. Series(s) = Series(t)
        BY <3>3, <4>1, <4>2
      <4>4. RowOf(s).metric = RowOf(t).metric
        BY <4>3 DEF Series
      <4>5. Line(s) = Line(t)
        <5> HIDE DEF Line
        <5> QED
          BY <2>0, <4>3, <4>4 DEF Streamed
      <4> QED
        BY <4>1, <4>2, <4>5
    <3> HIDE DEF lines
    <3> QED
      BY <3>2, <3>3, Single
  <2>3. IsFiniteSet(groups)
    <3> DEFINE f == [x \in Streamed \X DOMAIN page |-> <<RowOf(x[1]).metric, x[2]>>]
               G == {f[x] : x \in Streamed \X DOMAIN page}
    <3>1. IsFiniteSet(DOMAIN page)
      <4>1. DOMAIN page = 1 .. Len(page) /\ Len(page) \in Int /\ 1 \in Int
        BY DEF IInv, TypeOK
      <4> QED
        BY <4>1, FS_Interval
    <3>2. IsFiniteSet(Streamed \X DOMAIN page)
      BY <2>1, <3>1, FS_Product
    <3>3. f \in Surjection(Streamed \X DOMAIN page, G)
      BY DEF Surjection
    <3>4. IsFiniteSet(G)
      <4> HIDE DEF f, G
      <4> QED
        BY <3>2, <3>3, FS_Surjection
    <3>5. groups \subseteq G
      <4> SUFFICES ASSUME NEW p \in DOMAIN page, NEW s \in page[p] PROVE <<RowOf(s).metric, p>> \in G
        OBVIOUS
      <4>1. <<s, p>> \in Streamed \X DOMAIN page
        BY DEF Streamed
      <4>2. f[<<s, p>>] = <<RowOf(s).metric, p>>
        BY <4>1
      <4> QED
        BY <4>1, <4>2
    <3> QED
      BY <3>4, <3>5, FS_Subset
  <2>4. Functional(groups)
    <3>1. ASSUME NEW g \in groups, NEW h \in groups, g[1] = h[1] PROVE g = h
      <4>1. PICK p \in DOMAIN page : \E s \in page[p] : g = <<RowOf(s).metric, p>>
        OBVIOUS
      <4>2. PICK q \in DOMAIN page : \E t \in page[q] : h = <<RowOf(t).metric, q>>
        OBVIOUS
      <4> QED
        BY <2>0, <3>1, <4>1, <4>2
    <3> HIDE DEF groups
    <3> QED
      BY <2>3, <3>1, Single
  <2> QED
    BY <2>2, <2>4 DEF WellFormed
<1>2. IInv /\ Placed /\ [Next]_vars => Placed'
  BY StepPlaces
<1> QED
  BY Invariance, InitPlaced, <1>1, <1>2, PTL DEF Spec

=============================================================================
