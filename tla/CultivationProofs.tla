--------------------------- MODULE CultivationProofs ---------------------------
(***************************************************************************)
(* Proofs about Cultivation, for every value of the constants: any stages, *)
(* contents, materials and days, and any number of calls in flight beside  *)
(* the daily job.  First what a loop over stages sums up, then what a call *)
(* refers to, what follows the activation, the rows of the store, and last *)
(* what holds of calls that do not overlap.                                *)
(***************************************************************************)
EXTENDS Cultivation, FiniteSetTheorems, WellFoundedInduction, TLAPS

-----------------------------------------------------------------------------
\* Sums over finite sets.  The library's induction needs an operator for what is
\* proved; that a set of finite sets has a smallest does as well.
SumOver(f, X) == MapThenSumSet(LAMBDA x : f[x], X)

\* A set of finite sets has a smallest.
LEMMA SmallestSet ==
  ASSUME NEW S, IsFiniteSet(S), NEW T \in SUBSET (SUBSET S), T # {}
  PROVE  \E X \in T : \A Y \in T : Y \subseteq X => Y = X
<1>1. FiniteSubsetsOf(S) = SUBSET S
  BY FS_FiniteSubsetsOfFinite
<1>2. IsWellFoundedOn(StrictSubsetOrdering(S), SUBSET S)
  BY <1>1, FS_StrictSubsetOrderingWellFounded
<1>3. PICK X \in T : \A Y \in T : ~ (<<Y, X>> \in StrictSubsetOrdering(S))
  BY <1>2, WFMin
<1>4. \A Y \in T : <<Y, X>> \in StrictSubsetOrdering(S) <=> Y \subseteq X /\ Y # X
  BY DEF StrictSubsetOrdering
<1>5. \A Y \in T : Y \subseteq X => Y = X
  BY <1>3, <1>4
<1> QED BY <1>5

\* One step of the sum of X, given the sums it of smaller sets.
SumStep(f, it, X) ==
  IF X = {} THEN 0 ELSE LET x == CHOOSE x \in X : TRUE IN f[x] + it[X \ {x}]

Sums(f, it, S) == it = [X \in SUBSET S |-> SumStep(f, it, X)]

LEMMA SumUnfolds ==
  ASSUME NEW f, NEW X
  PROVE  SumOver(f, X) = (CHOOSE it : Sums(f, it, X))[X]
BY DEF SumOver, MapThenSumSet, MapThenFoldSet, SumStep, Sums

LEMMA SumsAgree ==
  ASSUME NEW S, IsFiniteSet(S), NEW f, NEW X \in SUBSET S, NEW Y \in SUBSET S,
         NEW i, NEW j, Sums(f, i, X), Sums(f, j, Y)
  PROVE  \A Z \in SUBSET (X \cap Y) : i[Z] = j[Z]
<1> DEFINE T == {Z \in SUBSET (X \cap Y) : i[Z] # j[Z]}
<1>1. SUFFICES ASSUME T # {} PROVE FALSE
  OBVIOUS
<1>2. T \in SUBSET (SUBSET S)
  OBVIOUS
<1> HIDE DEF T
<1>3. PICK Z \in T : \A W \in T : W \subseteq Z => W = Z
  BY <1>1, <1>2, SmallestSet
<1> USE DEF T
<1>4. Z \in SUBSET X /\ Z \in SUBSET Y /\ i[Z] = SumStep(f, i, Z) /\ j[Z] = SumStep(f, j, Z)
  BY DEF Sums
<1>5. Z # {}
  BY <1>4 DEF SumStep
<1> DEFINE z == CHOOSE x \in Z : TRUE
<1>6. z \in Z
  BY <1>5
<1>7. i[Z] = f[z] + i[Z \ {z}] /\ j[Z] = f[z] + j[Z \ {z}]
  BY <1>4, <1>5 DEF SumStep
<1>8. i[Z \ {z}] = j[Z \ {z}]
  BY <1>3, <1>6
<1> QED BY <1>7, <1>8

LEMMA SumsExist ==
  ASSUME NEW S, IsFiniteSet(S), NEW f \in [S -> Int]
  PROVE  \E it \in [SUBSET S -> Int] : Sums(f, it, S)
<1> DEFINE Upto(n) == \E it \in [SUBSET S -> Int] :
                        \A X \in SUBSET S : Cardinality(X) <= n => it[X] = SumStep(f, it, X)
<1>1. \A X \in SUBSET S : IsFiniteSet(X) /\ Cardinality(X) \in Nat
  BY FS_Subset, FS_CardinalityType
<1>2. Upto(0)
  <2> DEFINE it == [X \in SUBSET S |-> 0]
  <2>1. \A X \in SUBSET S : Cardinality(X) <= 0 => X = {}
    BY <1>1, FS_EmptySet
  <2>2. it \in [SUBSET S -> Int] /\ \A X \in SUBSET S : it[X] = 0
    OBVIOUS
  <2> HIDE DEF it
  <2> QED BY <2>1, <2>2 DEF SumStep
<1>3. ASSUME NEW n \in Nat, Upto(n)
      PROVE  Upto(n + 1)
  <2>1. PICK it \in [SUBSET S -> Int] :
          \A X \in SUBSET S : Cardinality(X) <= n => it[X] = SumStep(f, it, X)
    BY <1>3
  <2> DEFINE jt == [X \in SUBSET S |-> IF Cardinality(X) = n + 1 THEN SumStep(f, it, X)
                                                               ELSE it[X]]
  <2>2. \A X \in SUBSET S : SumStep(f, it, X) \in Int
    <3> SUFFICES ASSUME NEW X \in SUBSET S, X # {}
                 PROVE  SumStep(f, it, X) \in Int
      BY DEF SumStep
    <3> DEFINE x == CHOOSE x \in X : TRUE
    <3>1. x \in X
      OBVIOUS
    <3>2. SumStep(f, it, X) = f[x] + it[X \ {x}]
      BY DEF SumStep
    <3> HIDE DEF x
    <3>3. f[x] \in Int /\ it[X \ {x}] \in Int
      BY <3>1
    <3> QED BY <3>2, <3>3
  <2>3. jt \in [SUBSET S -> Int]
    BY <2>2
  <2>4. ASSUME NEW X \in SUBSET S, Cardinality(X) <= n + 1
        PROVE  SumStep(f, jt, X) = SumStep(f, it, X)
    <3> SUFFICES ASSUME X # {}
                 PROVE  SumStep(f, jt, X) = SumStep(f, it, X)
      BY DEF SumStep
    <3> DEFINE x == CHOOSE x \in X : TRUE
    <3>1. x \in X
      OBVIOUS
    <3>2. /\ SumStep(f, it, X) = f[x] + it[X \ {x}]
          /\ SumStep(f, jt, X) = f[x] + jt[X \ {x}]
      BY DEF SumStep
    <3> HIDE DEF x
    <3>3. Cardinality(X \ {x}) <= n /\ Cardinality(X \ {x}) \in Nat
      BY <1>1, <2>4, <3>1, FS_RemoveElement
    <3>4. jt[X \ {x}] = it[X \ {x}]
      BY <3>3
    <3> QED BY <3>2, <3>4
  <2>5. ASSUME NEW X \in SUBSET S, Cardinality(X) <= n + 1
        PROVE  jt[X] = SumStep(f, jt, X)
    <3>1. jt[X] = IF Cardinality(X) = n + 1 THEN SumStep(f, it, X) ELSE it[X]
      OBVIOUS
    <3>2. Cardinality(X) \in Nat /\ SumStep(f, jt, X) = SumStep(f, it, X)
      BY <1>1, <2>4, <2>5
    <3> HIDE DEF jt
    <3> QED BY <2>1, <2>5, <3>1, <3>2
  <2> HIDE DEF jt
  <2> QED BY <2>3, <2>5
<1> HIDE DEF Upto
<1>4. Cardinality(S) \in Nat /\ IsFiniteSet(0 .. Cardinality(S))
  BY <1>1, FS_Interval
<1>5. \A n \in Nat : Upto(n)
  <2> SUFFICES ASSUME NEW n \in Nat, ~Upto(n) PROVE FALSE
    OBVIOUS
  <2> DEFINE N == 0 .. n
             T == {0 .. m : m \in {k \in 0 .. n : ~Upto(k)}}
  <2>1. IsFiniteSet(N)
    BY FS_Interval
  <2>2. T \in SUBSET (SUBSET N)
    OBVIOUS
  <2>3. T # {}
    <3>1. 0 .. n \in T
      OBVIOUS
    <3> QED BY <3>1
  <2> HIDE DEF T, N
  <2>4. PICK X \in T : \A Y \in T : Y \subseteq X => Y = X
    BY <2>1, <2>2, <2>3, SmallestSet
  <2> USE DEF T
  <2>5. PICK m \in 0 .. n : ~Upto(m) /\ X = 0 .. m
    BY <2>4
  <2>6. m # 0
    BY <1>2, <2>5
  <2>7. m - 1 \in Nat /\ ~Upto(m - 1)
    BY <1>3, <2>5, <2>6
  <2>8. 0 .. (m - 1) \in T
    BY <2>7
  <2>9. 0 .. (m - 1) \subseteq X /\ m \in X /\ m \notin 0 .. (m - 1)
    BY <2>5, <2>7
  <2> QED BY <2>4, <2>8, <2>9
<1>6. PICK it \in [SUBSET S -> Int] :
        \A X \in SUBSET S : Cardinality(X) <= Cardinality(S) => it[X] = SumStep(f, it, X)
  BY <1>4, <1>5 DEF Upto
<1>7. \A X \in SUBSET S : it[X] = SumStep(f, it, X)
  BY <1>6, FS_Subset
<1>8. Sums(f, it, S)
  BY <1>7 DEF Sums
<1> QED BY <1>8

\* The sum of a set, from that of the rest of it.
LEMMA SumParts ==
  ASSUME NEW S, IsFiniteSet(S), NEW f \in [S -> Int]
  PROVE  /\ SumOver(f, {}) = 0
         /\ \A X \in SUBSET S :
              /\ SumOver(f, X) \in Int
              /\ \A x \in X : SumOver(f, X) = f[x] + SumOver(f, X \ {x})
<1>1. PICK it \in [SUBSET S -> Int] : Sums(f, it, S)
  BY SumsExist
<1>2. \A X \in SUBSET S : SumOver(f, X) = it[X]
  <2> SUFFICES ASSUME NEW X \in SUBSET S
               PROVE  SumOver(f, X) = it[X]
    OBVIOUS
  <2> DEFINE g == [x \in X |-> f[x]]
             ix == [Y \in SUBSET X |-> it[Y]]
  <2>1. \A Y \in SUBSET X : ix[Y] = SumStep(f, ix, Y)
    <3> SUFFICES ASSUME NEW Y \in SUBSET X
                 PROVE  SumStep(f, it, Y) = SumStep(f, ix, Y)
      BY <1>1 DEF Sums
    <3> DEFINE y == CHOOSE y \in Y : TRUE
    <3>1. CASE Y = {}
      BY <3>1 DEF SumStep
    <3>2. CASE Y # {}
      <4>1. y \in Y
        BY <3>2
      <4>2. ix[Y \ {y}] = it[Y \ {y}]
        OBVIOUS
      <4>3. /\ SumStep(f, it, Y) = f[y] + it[Y \ {y}]
            /\ SumStep(f, ix, Y) = f[y] + ix[Y \ {y}]
        BY <3>2 DEF SumStep
      <4> QED BY <4>2, <4>3
    <3> QED BY <3>1, <3>2
  <2>2. Sums(f, ix, X)
    BY <2>1 DEF Sums
  <2> DEFINE jt == CHOOSE jt : Sums(f, jt, X)
  <2>3. Sums(f, jt, X)
    BY <2>2
  <2>4. SumOver(f, X) = jt[X]
    BY SumUnfolds
  <2> HIDE DEF jt
  <2>5. X \in SUBSET (X \cap S) /\ S \in SUBSET S
    OBVIOUS
  <2>6. jt[X] = it[X]
    BY <1>1, <2>3, <2>5, SumsAgree
  <2> QED BY <2>4, <2>6
<1>3. \A X \in SUBSET S : it[X] = SumStep(f, it, X)
  BY <1>1 DEF Sums
<1>4. it[{}] = 0
  BY <1>3 DEF SumStep
<1>5. \A X \in SUBSET S : \A x \in X : it[X] = f[x] + it[X \ {x}]
  <2> DEFINE T == {X \in SUBSET S : \E x \in X : it[X] # f[x] + it[X \ {x}]}
  <2> SUFFICES ASSUME T # {} PROVE FALSE
    OBVIOUS
  <2>1. T \in SUBSET (SUBSET S)
    OBVIOUS
  <2> HIDE DEF T
  <2>2. PICK X \in T : \A Y \in T : Y \subseteq X => Y = X
    BY <2>1, SmallestSet
  <2> USE DEF T
  <2>3. PICK x \in X : it[X] # f[x] + it[X \ {x}]
    OBVIOUS
  <2> DEFINE c == CHOOSE c \in X : TRUE
  <2>4. c \in X
    BY <2>3
  <2>5. it[X] = f[c] + it[X \ {c}]
    BY <1>3, <2>3 DEF SumStep
  <2> HIDE DEF c
  <2>6. c # x
    BY <2>3, <2>5
  <2>7. X \ {c} \notin T /\ X \ {x} \notin T
    BY <2>2, <2>3, <2>4
  <2>8. /\ it[X \ {c}] = f[x] + it[(X \ {c}) \ {x}]
        /\ it[X \ {x}] = f[c] + it[(X \ {x}) \ {c}]
    BY <2>3, <2>4, <2>6, <2>7
  <2>9. (X \ {c}) \ {x} = (X \ {x}) \ {c}
    OBVIOUS
  <2>10. f[x] \in Int /\ f[c] \in Int /\ it[(X \ {x}) \ {c}] \in Int
    BY <2>3, <2>4
  <2> DEFINE a == it[(X \ {x}) \ {c}]
  <2>11. it[X] = f[c] + (f[x] + a) /\ it[X \ {x}] = f[c] + a
    BY <2>5, <2>8, <2>9
  <2>12. it[X] # f[x] + (f[c] + a)
    BY <2>3, <2>11
  <2> HIDE DEF a
  <2> QED BY <2>10, <2>11, <2>12 DEF a
<1> QED BY <1>2, <1>4, <1>5

\* What a loop over the stages of gs takes of m.
LEMMA SumOfStages ==
  ASSUME NEW list \in Lists, NEW gs \in SUBSET Stage, NEW m
  PROVE  /\ Sum(list, gs, m) \in Int
         /\ gs = {} => Sum(list, gs, m) = 0
         /\ \A g \in gs : Sum(list, gs, m)
              = (IF MaterialOf[g] = m THEN list[g] ELSE 0) + Sum(list, gs \ {g}, m)
<1> DEFINE Of(hs) == {g \in hs : MaterialOf[g] = m}
<1>1. \A hs : Sum(list, hs, m) = SumOver(list, Of(hs))
  BY DEF Sum, SumOver
<1>2. IsFiniteSet(Stage) /\ list \in [Stage -> Int]
  BY CultivationAssumption DEF Lists
<1>3. \A hs \in SUBSET Stage : SumOver(list, Of(hs)) \in Int
  BY <1>2, SumParts
<1>4. gs = {} => SumOver(list, Of(gs)) = 0
  <2>1. gs = {} => Of(gs) = {}
    OBVIOUS
  <2> QED BY <1>2, <2>1, SumParts
<1>5. ASSUME NEW g \in gs
      PROVE  Sum(list, gs, m)
               = (IF MaterialOf[g] = m THEN list[g] ELSE 0) + Sum(list, gs \ {g}, m)
  <2>1. CASE MaterialOf[g] = m
    <3>1. Of(gs \ {g}) = Of(gs) \ {g} /\ g \in Of(gs) /\ Of(gs) \in SUBSET Stage
      BY <2>1
    <3>2. SumOver(list, Of(gs)) = list[g] + SumOver(list, Of(gs) \ {g})
      BY <1>2, <3>1, SumParts
    <3> QED BY <1>1, <2>1, <3>1, <3>2
  <2>2. CASE MaterialOf[g] # m
    <3>1. Of(gs \ {g}) = Of(gs)
      BY <2>2
    <3>2. Sum(list, gs \ {g}, m) = Sum(list, gs, m)
      BY <1>1, <3>1
    <3>3. Sum(list, gs, m) \in Int
      BY <1>1, <1>3
    <3> QED BY <2>2, <3>2, <3>3
  <2> QED BY <2>1, <2>2
<1> QED BY <1>1, <1>3, <1>4, <1>5

-----------------------------------------------------------------------------
\* What a call refers to, in the tables rq of requests and tk of tasks, is there.
Refers(w, rq, tk) ==
  /\ w.op = "setStatus" => rq[w.i] # "none"
  /\ w.op \in {"readStock", "saveStock"} /\ w.next \in Stage => rq[w.next] # "none"
  /\ w.op = "saveReport" => w.i \in tk
  /\ w.op = "insertTask" => rq[w.i] # "none"
  /\ w.op = "insertDiary" => rq[w.k] # "none"

ReferInv == \A p \in Process : Refers(work[p], request, task)

\* TypeOK is not inductive as it stands: a row that is written refers to what the
\* handler read.
CultivationTypeInv == TypeOK /\ ReferInv

\* A call that makes a request, or saves an active process, has seen it active; one
\* that saves a diary, the work in progress.
Follows(w, bg, wd) ==
  /\ w.op = "saveProcess" /\ w.status = "active" => bg # Never
  /\ w.op = "insertRequest" => bg # Never
  /\ w.op = "insertDiary" => w.k \in wd

ActivationInv ==
  /\ status = "active" \/ visits # {} => begun # Never
  /\ \A i \in Item : request[i] # "none" => begun # Never
  /\ \A k \in Content : request[k] = "in_progress" => k \in worked
  /\ diary \subseteq worked
  /\ \A p \in Process : Follows(work[p], begun, worked)

\* A row of m is consistent.
OfAPiece(row, m) ==
  /\ row.status = "out_of_stock" <=> row.total <= 0
  /\ IF m \in Rented THEN row.total - Stock[m] = row.rented ELSE row.rented = 0

PieceInv ==
  /\ \A m \in Material : OfAPiece(stock[m], m)
  /\ \A p \in Process : work[p].op = "saveStock" => OfAPiece(work[p].row, work[p].m)

\* What w has still to put in the store, of m.
Pending(w, st, m) ==
  IF w.op = "readStock" THEN w.sign * Sum(w.list, w.left, m)
  ELSE IF w.op = "saveStock"
       THEN (IF w.m = m THEN w.row.total - st[m].total ELSE 0)
              + w.sign * Sum(w.list, w.left, m)
  ELSE 0

Even(w, st, ow) ==
  \A m \in Material : st[m].total + Pending(w, st, m) = Stock[m] - ow[m]

\* One call is in flight, or the job is at work; only the job makes requests.
OneAtATime ==
  /\ \A p, q \in Process : work[p] # Idle /\ work[q] # Idle => p = q
  /\ phase # "idle" => \A c \in Call : work[c] = Idle
  /\ phase = "idle" => visits = {}
  /\ \A c \in Call : work[c].op \notin {"insertRequest", "insertTask"}

\* Once active a process stays active: a row that is saved is the one that was read.
ActiveSince ==
  /\ begun # Never => status = "active" /\ begun <= now
  /\ \A p \in Process : work[p].op = "saveProcess" => work[p].status = status

\* k was to be asked for by now.
Due(k, bg, n) == bg # Never /\ bg < Begin[k] - 1 /\ Begin[k] - 1 <= n

\* The job is at k.
AtWork(w, k) == w.op \in {"insertRequest", "insertTask"} /\ w.i = k

TasksMade ==
  \A i \in Item : request[i] # "none"
    => i \in task \/ (work[Job].op = "insertTask" /\ work[Job].i = i)

DueAsked ==
  \A k \in Content \cap stages : Due(k, begun, now)
    => k \in task \/ (phase = "contents" /\ k \in visits) \/ AtWork(work[Job], k)

StoreEven ==
  \A p \in Process : (\A q \in Process \ {p} : work[q] = Idle)
    => Even(work[p], stock, owed)

SmoothInv == TasksMade /\ DueAsked /\ StoreEven

\* When calls do not overlap; and while none has failed.
CultivationSerialInv ==
  serial => OneAtATime /\ ActiveSince /\ (accidents = 0 => SmoothInv)

-----------------------------------------------------------------------------
\* The fields of what is left to a call, and what a call may have left.
LEMMA CultivationWorkFields ==
  ASSUME NEW w \in Work
  PROVE  /\ w.op = "readStock" => w \in Adjust
         /\ w.op = "saveStock" => w \in SaveRow
         /\ w.op = "setStatus" => w \in SetStatusTo
         /\ w.op = "saveReport" => w \in PutReport
         /\ w.op = "saveProcess" => w \in SaveProcess
         /\ w.op = "setQuantity" => w \in SetOne
         /\ w.op \in {"deleteContents", "deleteMaterials", "deleteStage"} => w \in Delete
         /\ w.op = "insertDiary" => w \in PutDiary
         /\ w.op \in {"insertRequest", "insertTask"} => w \in OnItem
<1>1. \A u \in {Idle} : u.op = "idle"
  BY DEF Idle
<1>2. \A u \in Adjust : u.op = "readStock"
  BY DEF Adjust
<1>3. \A u \in SaveRow : u.op = "saveStock"
  BY DEF SaveRow
<1>4. \A u \in SetActive : u.op = "setActive"
  BY DEF SetActive
<1>5. \A u \in SetStatusTo : u.op = "setStatus"
  BY DEF SetStatusTo
<1>6. \A u \in PutReport : u.op = "saveReport"
  BY DEF PutReport
<1>7. \A u \in SaveProcess : u.op = "saveProcess"
  BY DEF SaveProcess
<1>8. \A u \in SetOne : u.op = "setQuantity"
  BY DEF SetOne
<1>9. \A u \in Delete : u.op \in {"deleteContents", "deleteMaterials", "deleteStage"}
  BY DEF Delete
<1>10. \A u \in PutDiary : u.op = "insertDiary"
  BY DEF PutDiary
<1>11. \A u \in OnItem : u.op \in {"insertRequest", "insertTask"}
  BY DEF OnItem
<1> QED BY <1>1, <1>2, <1>3, <1>4, <1>5, <1>6, <1>7, <1>8, <1>9, <1>10, <1>11 DEF Work

LEMMA CultivationWork ==
  /\ Idle \in Work /\ Idle.op = "idle"
  /\ \A i \in Item, s \in RequestStatus :
       /\ SetStatusWork(i, s) \in Work /\ SetStatusWork(i, s).op = "setStatus"
       /\ SetStatusWork(i, s).i = i /\ SetStatusWork(i, s).to = s
  /\ \A i \in Item :
       /\ [op |-> "insertRequest", i |-> i] \in Work
       /\ [op |-> "insertTask", i |-> i] \in Work
  /\ \A i \in Item, b \in BOOLEAN : [op |-> "saveReport", i |-> i, found |-> b] \in Work
  /\ \A k \in Content : [op |-> "insertDiary", k |-> k] \in Work
  /\ \A s \in ProcessStatus, e \in Edit :
       [op |-> "saveProcess", status |-> s, edit |-> e] \in Work
  /\ \A g \in Stage : /\ [op |-> "deleteMaterials", g |-> g] \in Work
                      /\ [op |-> "deleteStage", g |-> g] \in Work
  /\ \A e \in Edit : e \in Work /\ e.op \in {"idle", "setQuantity", "deleteContents"}
<1>1. Idle \in Work /\ Idle.op = "idle"
  BY DEF Work, Idle
<1>2. \A i \in Item, s \in RequestStatus :
        /\ SetStatusWork(i, s) \in SetStatusTo /\ SetStatusWork(i, s).op = "setStatus"
        /\ SetStatusWork(i, s).i = i /\ SetStatusWork(i, s).to = s
  BY DEF SetStatusTo, SetStatusWork
<1>3. \A i \in Item : /\ [op |-> "insertRequest", i |-> i] \in OnItem
                      /\ [op |-> "insertTask", i |-> i] \in OnItem
  BY DEF OnItem
<1>4. \A i \in Item, b \in BOOLEAN : [op |-> "saveReport", i |-> i, found |-> b] \in PutReport
  BY Zenon DEF PutReport
<1>5. \A k \in Content : [op |-> "insertDiary", k |-> k] \in PutDiary
  BY DEF PutDiary
<1>6. \A s \in ProcessStatus, e \in Edit :
        [op |-> "saveProcess", status |-> s, edit |-> e] \in SaveProcess
  BY DEF SaveProcess
<1>7. \A g \in Stage : /\ [op |-> "deleteMaterials", g |-> g] \in Delete
                       /\ [op |-> "deleteStage", g |-> g] \in Delete
  BY DEF Delete
<1>8. ASSUME NEW e \in Edit
      PROVE  e \in Work /\ e.op \in {"idle", "setQuantity", "deleteContents"}
  <2>1. CASE e = Idle
    BY <1>1, <2>1
  <2>2. CASE e \in SetOne
    BY <2>2 DEF Work, SetOne
  <2>3. CASE e \in [op: {"deleteContents"}, g: Stage]
    <3>1. e \in Delete /\ e.op = "deleteContents"
      BY <2>3 DEF Delete
    <3> QED BY <3>1 DEF Work
  <2> QED BY <2>1, <2>2, <2>3 DEF Edit
<1> QED BY <1>1, <1>2, <1>3, <1>4, <1>5, <1>6, <1>7, <1>8 DEF Work

LEMMA Signs ==
  ASSUME NEW sign \in {-1, 1}, NEW x \in Int, NEW y \in Int
  PROVE  /\ sign * x \in Int /\ sign * 0 = 0
         /\ sign * (x + y) = sign * x + sign * y
<1>1. CASE sign = 1
  BY <1>1
<1>2. CASE sign = -1
  BY <1>2
<1> QED BY <1>1, <1>2

\* A loop that is over goes on with what comes after it.
LEMMA LoopFacts ==
  ASSUME NEW gs \in SUBSET Stage, NEW sign \in {-1, 1}, NEW list \in Lists,
         NEW next \in Stage \cup {"active"}
  PROVE  LET w == LoopWork(gs, sign, list, next)
         IN  /\ w \in Work /\ w.op \in {"readStock", "setActive", "setStatus"}
             /\ w.op = "setStatus" => w.to = "completed"
             /\ \A rq, tk : (next \in Stage => rq[next] # "none") => Refers(w, rq, tk)
             /\ \A st, m : Pending(w, st, m) = sign * Sum(list, gs, m)
<1> DEFINE w == LoopWork(gs, sign, list, next)
<1>1. CASE gs # {}
  <2> DEFINE v == [op |-> "readStock", left |-> gs, sign |-> sign, list |-> list,
                   next |-> next]
  <2>1. w = v
    BY <1>1 DEF LoopWork
  <2>2. v \in Adjust
    BY DEF Adjust
  <2>3. /\ v.op = "readStock" /\ v.next = next /\ v.sign = sign /\ v.list = list
        /\ v.left = gs
    OBVIOUS
  <2> HIDE DEF v, w
  <2>4. v \in Work
    BY <2>2 DEF Work
  <2>5. \A rq, tk : (next \in Stage => rq[next] # "none") => Refers(v, rq, tk)
    BY <2>3 DEF Refers
  <2>6. \A st, m : Pending(v, st, m) = sign * Sum(list, gs, m)
    BY <2>3 DEF Pending
  <2> QED BY <2>1, <2>3, <2>4, <2>5, <2>6 DEF w
<1>2. CASE gs = {}
  <2>1. \A m : sign * Sum(list, gs, m) = 0
    BY <1>2, SumOfStages, Signs
  <2>2. w = AfterLoop(next)
    BY <1>2 DEF LoopWork
  <2>3. CASE next = "active"
    <3>1. w = [op |-> "setActive"] /\ w.op = "setActive"
      BY <2>2, <2>3 DEF AfterLoop
    <3> HIDE DEF w
    <3>2. w \in Work
      BY <3>1 DEF Work, SetActive
    <3> QED BY <2>1, <3>1, <3>2, <2>3, CultivationAssumption DEF Refers, Pending, w
  <2>4. CASE next \in Stage
    <3>1. next # "active" /\ next \in Item /\ "completed" \in RequestStatus
      BY <2>4, CultivationAssumption DEF Item, RequestStatus
    <3>2. w = SetStatusWork(next, "completed")
      BY <2>2, <3>1 DEF AfterLoop
    <3> HIDE DEF w
    <3>3. w \in Work /\ w.op = "setStatus" /\ w.i = next /\ w.to = "completed"
      BY <3>1, <3>2, CultivationWork
    <3>4. \A rq, tk : (next \in Stage => rq[next] # "none") => Refers(w, rq, tk)
      BY <2>4, <3>3 DEF Refers
    <3>5. \A st, m : Pending(w, st, m) = 0
      BY <3>3 DEF Pending
    <3> QED BY <2>1, <3>3, <3>4, <3>5 DEF w
  <2> QED BY <2>3, <2>4
<1> QED BY <1>1, <1>2

\* What a loop that is begun owes.
LEMMA OwedFacts ==
  ASSUME TypeOK, NEW gs \in SUBSET Stage, NEW sign \in {-1, 1}, Owe(gs, sign),
         NEW next \in Stage \cup {"active"}
  PROVE  LET w == LoopWork(gs, sign, quantity, next)
         IN  /\ owed' \in [Material -> Int]
             /\ serial /\ accidents = 0
                => \A m \in Material : owed'[m] = owed[m] - Pending(w, stock, m)
<1> DEFINE w == LoopWork(gs, sign, quantity, next)
<1>1. \A m : Pending(w, stock, m) = sign * Sum(quantity, gs, m)
  <2>1. quantity \in Lists
    BY DEF TypeOK
  <2>2. \A st, m : Pending(w, st, m) = sign * Sum(quantity, gs, m)
    BY <2>1, LoopFacts
  <2> HIDE DEF w
  <2> QED BY <2>2
<1>2. \A m : sign * Sum(quantity, gs, m) \in Int
  BY SumOfStages, Signs DEF TypeOK
<1>3. owed \in [Material -> Int]
  BY DEF TypeOK
<1> HIDE DEF w
<1>4. \A m \in Material : owed[m] - sign * Sum(quantity, gs, m) \in Int
  BY <1>2, <1>3
<1>5. owed' \in [Material -> Int]
  BY <1>4 DEF Owe
<1>6. serial /\ accidents = 0
        => \A m \in Material : owed'[m] = owed[m] - Pending(w, stock, m)
  BY <1>1 DEF Owe
<1> QED BY <1>5, <1>6 DEF w

\* A call that starts with w.
Arrived(c, w) ==
  /\ work[c] = Idle /\ MayStart
  /\ work' = [work EXCEPT ![c] = w]
  /\ UNCHANGED <<tables, phase, visits, now, begun, worked, accidents, serial>>
  /\ Refers(w, request, task)
  /\ w.op \notin {"saveStock", "insertRequest", "insertTask"}
  /\ w.op = "saveProcess" => w.status = status
  /\ w.op = "insertDiary" => w.k \in Content /\ request[w.k] = "in_progress"
  /\ owed' \in [Material -> Int]
  /\ serial /\ accidents = 0
     => \A m \in Material : owed'[m] = owed[m] - Pending(w, stock, m)

\* One that owes nothing.
LEMMA StartIsArrival ==
  ASSUME TypeOK, NEW c \in Call, NEW w \in Work, Start(c, w), Refers(w, request, task),
         w.op \notin {"readStock", "saveStock", "insertRequest", "insertTask"},
         w.op = "saveProcess" => w.status = status,
         w.op = "insertDiary" => w.k \in Content /\ request[w.k] = "in_progress"
  PROVE  Arrived(c, w)
<1>1. owed' = owed /\ owed \in [Material -> Int]
  BY DEF Start, history, TypeOK
<1>2. \A m : Pending(w, stock, m) = 0
  BY DEF Pending
<1>3. \A m \in Material : owed'[m] = owed[m] - Pending(w, stock, m)
  BY <1>1, <1>2
<1> QED BY <1>1, <1>3 DEF Start, Arrived, Goto, history

LEMMA LoopIsArrival ==
  ASSUME TypeOK, NEW c \in Call, NEW gs \in SUBSET Stage, NEW sign \in {-1, 1},
         NEW next \in Stage \cup {"active"},
         work[c] = Idle, MayStart, Owe(gs, sign),
         Goto(c, LoopWork(gs, sign, quantity, next)),
         UNCHANGED <<tables, phase, visits, now, begun, worked, accidents, serial>>,
         next \in Stage => request[next] # "none"
  PROVE  \E w \in Work : Arrived(c, w)
<1> DEFINE w == LoopWork(gs, sign, quantity, next)
<1>1. /\ w \in Work /\ w.op \in {"readStock", "setActive", "setStatus"}
      /\ Refers(w, request, task)
  BY LoopFacts DEF TypeOK
<1>2. /\ owed' \in [Material -> Int]
      /\ serial /\ accidents = 0
           => \A m \in Material : owed'[m] = owed[m] - Pending(w, stock, m)
  BY OwedFacts
<1>3. work' = [work EXCEPT ![c] = w]
  BY DEF Goto
<1> HIDE DEF w
<1>4. Arrived(c, w)
  BY <1>1, <1>2, <1>3 DEF Arrived
<1> QED BY <1>1, <1>4

LEMMA ArriveIsArrival ==
  ASSUME CultivationTypeInv, NEW c \in Call, Arrive(c)
  PROVE  \E w \in Work : Arrived(c, w)
<1> USE DEF CultivationTypeInv
<1>1. \A i \in task : i \in Item /\ request[i] # "none"
  BY DEF TypeOK
<1>2. ASSUME UpdateStatusProcessSpecificToActive(c)
      PROVE  \E w \in Work : Arrived(c, w)
  <2> DEFINE gs == {g \in stages \cap Stage : HasRow(g)}
  <2>1. gs \in SUBSET Stage
    OBVIOUS
  <2>2. /\ work[c] = Idle /\ MayStart /\ Owe(gs, -1)
        /\ Goto(c, LoopWork(gs, -1, quantity, "active"))
        /\ UNCHANGED <<tables, phase, visits, now, begun, worked, accidents, serial>>
    BY <1>2 DEF UpdateStatusProcessSpecificToActive
  <2> HIDE DEF gs
  <2> QED BY <2>1, <2>2, LoopIsArrival, CultivationAssumption
<1>3. ASSUME NEW g \in Stage, ConfirmMaterial(c, g)
      PROVE  \E w \in Work : Arrived(c, w)
  <2> DEFINE gs == WithRow(g)
  <2>1. gs \in SUBSET Stage
    BY DEF WithRow
  <2>2. /\ work[c] = Idle /\ MayStart /\ Owe(gs, -1) /\ request[g] # "none"
        /\ Goto(c, LoopWork(gs, -1, quantity, g))
        /\ UNCHANGED <<tables, phase, visits, now, begun, worked, accidents, serial>>
    BY <1>3 DEF ConfirmMaterial
  <2> HIDE DEF gs
  <2> QED BY <2>1, <2>2, LoopIsArrival
<1>4. ASSUME NEW i \in Item, NEW s \in RequestStatus, request[i] # "none",
             Start(c, SetStatusWork(i, s))
      PROVE  \E w \in Work : Arrived(c, w)
  <2> DEFINE w == SetStatusWork(i, s)
  <2>1. w \in Work /\ w.op = "setStatus" /\ w.i = i
    BY CultivationWork
  <2>2. Start(c, w)
    BY <1>4
  <2> HIDE DEF w
  <2>3. Refers(w, request, task)
    BY <1>4, <2>1 DEF Refers
  <2> QED BY <2>1, <2>2, <2>3, StartIsArrival
<1>5. ASSUME NEW i \in Item, AssignTask(c, i) \/ StartTask(c, i) \/ ApproveTask(c, i)
      PROVE  \E w \in Work : Arrived(c, w)
  <2>1. request[i] # "none"
    BY <1>1, <1>5 DEF AssignTask, StartTask, ApproveTask
  <2>2. \E s \in RequestStatus : Start(c, SetStatusWork(i, s))
    BY <1>5 DEF AssignTask, StartTask, ApproveTask, RequestStatus
  <2> QED BY <1>4, <2>1, <2>2
<1>6. ASSUME NEW i \in Item, NEW to \in {"completed", "rejected"}, ConfirmRequest(c, i, to)
      PROVE  \E w \in Work : Arrived(c, w)
  BY <1>4, <1>6 DEF ConfirmRequest, RequestStatus
<1>7. ASSUME NEW i \in Item, CreateReport(c, i)
      PROVE  \E w \in Work : Arrived(c, w)
  <2> DEFINE w == [op |-> "saveReport", i |-> i, found |-> i \in report]
  <2>1. \A b \in BOOLEAN : [op |-> "saveReport", i |-> i, found |-> b] \in Work
    BY CultivationWork
  <2>2. w \in Work
    <3>1. (i \in report) \in BOOLEAN
      OBVIOUS
    <3> QED BY <2>1, <3>1, Zenon
  <2>3. w.op = "saveReport" /\ w.i = i
    OBVIOUS
  <2>4. Start(c, w) /\ i \in task
    BY <1>7 DEF CreateReport
  <2> HIDE DEF w
  <2>5. Refers(w, request, task)
    BY <2>3, <2>4 DEF Refers
  <2> QED BY <2>2, <2>3, <2>4, <2>5, StartIsArrival
<1>8. ASSUME NEW k \in Content, CreateDinary(c, k)
      PROVE  \E w \in Work : Arrived(c, w)
  <2> DEFINE w == [op |-> "insertDiary", k |-> k]
  <2>1. w \in Work
    BY CultivationWork
  <2>2. w.op = "insertDiary" /\ w.k = k
    OBVIOUS
  <2>3. Start(c, w) /\ request[k] = "in_progress"
    BY <1>8 DEF CreateDinary
  <2> HIDE DEF w
  <2>4. Refers(w, request, task)
    BY <2>2, <2>3 DEF Refers
  <2> QED BY <2>1, <2>2, <2>3, <2>4, StartIsArrival
<1>9. ASSUME NEW edit \in Edit, UpdateProcessSpecific(c, edit)
      PROVE  \E w \in Work : Arrived(c, w)
  <2> DEFINE w == [op |-> "saveProcess", status |-> status, edit |-> edit]
  <2>1. w \in Work
    BY CultivationWork DEF TypeOK
  <2>2. w.op = "saveProcess" /\ w.status = status
    OBVIOUS
  <2>3. Start(c, w)
    BY <1>9 DEF UpdateProcessSpecific
  <2> HIDE DEF w
  <2>4. Refers(w, request, task)
    BY <2>2 DEF Refers
  <2> QED BY <2>1, <2>2, <2>3, <2>4, StartIsArrival
<1> QED BY <1>2, <1>3, <1>5, <1>6, <1>7, <1>8, <1>9 DEF Arrive

-----------------------------------------------------------------------------
\* TypeOK, but for the work in flight.
TablesOK ==
  /\ status \in ProcessStatus
  /\ stages \in SUBSET Item
  /\ quantity \in Lists
  /\ stock \in [Material -> StockRow]
  /\ request \in [Item -> RequestStatus \cup {"none"}]
  /\ \A i \in Item : request[i] # "none" => i \in stages
  /\ task \in SUBSET Item /\ \A i \in task : request[i] # "none"
  /\ report \in SUBSET task
  /\ diary \in SUBSET (Content \cap stages)
  /\ phase \in {"idle", "contents", "stages"}
  /\ visits \in SUBSET Item
  /\ now \in Nat
  /\ begun \in Nat \cup {Never} /\ worked \in SUBSET Content
  /\ owed \in [Material -> Int]
  /\ accidents \in Nat
  /\ serial \in BOOLEAN

LEMMA TypeIsTables == TypeOK <=> TablesOK /\ work \in [Process -> Work]
BY DEF TypeOK, TablesOK

LEMMA RefersStays ==
  ASSUME NEW w \in Work, NEW rq, NEW rq2, NEW tk, NEW tk2, Refers(w, rq, tk),
         \A i \in Item : rq[i] # "none" => rq2[i] # "none", tk \subseteq tk2
  PROVE  Refers(w, rq2, tk2)
<1>1. /\ w.op = "setStatus" => w.i \in Item
      /\ w.op = "insertTask" => w.i \in Item
      /\ w.op = "insertDiary" => w.k \in Item
  BY CultivationWorkFields DEF SetStatusTo, OnItem, PutDiary, Item
<1>2. Stage \subseteq Item
  BY DEF Item
<1> QED BY <1>1, <1>2 DEF Refers

\* A step of p that leaves it w.
LEMMA TypeStep ==
  ASSUME CultivationTypeInv, NEW p \in Process, NEW w \in Work,
         work' = [work EXCEPT ![p] = w], TablesOK', Refers(w, request', task'),
         \A i \in Item : request[i] # "none" => request'[i] # "none",
         task \subseteq task'
  PROVE  CultivationTypeInv'
<1>1. work \in [Process -> Work] /\ ReferInv
  BY TypeIsTables DEF CultivationTypeInv
<1>2. work' \in [Process -> Work]
  BY <1>1
<1>3. TypeOK'
  BY <1>2 DEF TypeOK, TablesOK
<1>4. \A q \in Process : Refers(work'[q], request', task')
  <2> SUFFICES ASSUME NEW q \in Process
               PROVE  Refers(work'[q], request', task')
    OBVIOUS
  <2>1. work[q] \in Work /\ Refers(work[q], request, task)
    BY <1>1 DEF ReferInv
  <2>2. work'[q] = w \/ work'[q] = work[q]
    BY <1>1
  <2> QED BY <2>1, <2>2, RefersStays
<1> QED BY <1>3, <1>4 DEF CultivationTypeInv, ReferInv

\* A step that keeps the requests and their tasks.
LEMMA TypeStays ==
  ASSUME CultivationTypeInv, UNCHANGED <<request, task>>, TablesOK',
         work' = work \/ \E p \in Process : work' = [work EXCEPT ![p] = Idle]
  PROVE  CultivationTypeInv'
<1>1. CASE work' = work
  <2>1. TypeOK'
    BY <1>1 DEF CultivationTypeInv, TypeOK, TablesOK
  <2> QED BY <1>1, <2>1 DEF CultivationTypeInv, ReferInv
<1>2. ASSUME NEW p \in Process, work' = [work EXCEPT ![p] = Idle]
      PROVE  CultivationTypeInv'
  <2>1. Idle \in Work /\ Idle.op = "idle"
    BY CultivationWork
  <2>2. Refers(Idle, request', task')
    BY <2>1 DEF Refers
  <2> QED BY <1>2, <2>1, <2>2, TypeStep
<1> QED BY <1>1, <1>2

LEMMA ArriveKeepsTypes ==
  ASSUME CultivationTypeInv, NEW c \in Call, Arrive(c)
  PROVE  CultivationTypeInv'
<1>1. PICK w \in Work : Arrived(c, w)
  BY ArriveIsArrival
<1>2. TablesOK'
  BY <1>1, TypeIsTables DEF CultivationTypeInv, TablesOK, Arrived, tables
<1>3. c \in Process /\ UNCHANGED <<request, task>>
  BY <1>1 DEF Process, Arrived, tables
<1> QED BY <1>1, <1>2, <1>3, TypeStep DEF Arrived

\* What is left to p, when it has something left.
LEMMA CultivationWorkAt ==
  ASSUME CultivationTypeInv, NEW p \in Process
  PROVE  work[p] \in Work /\ Refers(work[p], request, task) /\ TablesOK
BY TypeIsTables DEF CultivationTypeInv, ReferInv

\* What p saves of the store, and the rest of its loop.
LEMMA LoopKeepsTypes ==
  ASSUME CultivationTypeInv, NEW p \in Process, ReadStock(p) \/ SaveStock(p)
  PROVE  CultivationTypeInv'
<1>1. work[p] \in Work /\ Refers(work[p], request, task) /\ TablesOK
  BY CultivationWorkAt
<1>2. CASE ReadStock(p)
  <2> DEFINE u == work[p]
  <2>1. u.op = "readStock" /\ u \in Adjust
    BY <1>1, <1>2, CultivationWorkFields DEF ReadStock
  <2>2. /\ u.left \in SUBSET Stage /\ u.sign \in {-1, 1} /\ u.list \in Lists
        /\ u.next \in Stage \cup {"active"}
    BY <2>1 DEF Adjust
  <2>3. PICK g \in u.left :
          Goto(p, [op |-> "saveStock", left |-> u.left \ {g}, sign |-> u.sign,
                   list |-> u.list, next |-> u.next, m |-> MaterialOf[g],
                   row |-> Adjusted(stock[MaterialOf[g]], MaterialOf[g],
                                    u.sign * u.list[g])])
    BY <1>2 DEF ReadStock
  <2> HIDE DEF u
  <2> DEFINE m == MaterialOf[g]
             n == u.sign * u.list[g]
             row == Adjusted(stock[m], m, n)
             w == [op |-> "saveStock", left |-> u.left \ {g}, sign |-> u.sign,
                   list |-> u.list, next |-> u.next, m |-> m, row |-> row]
  <2>4. g \in Stage /\ m \in Material /\ u.list[g] \in Int
    BY <2>2, CultivationAssumption DEF Lists
  <2>5. n \in Int
    BY <2>2, <2>4, Signs
  <2>6. stock[m] \in StockRow
    BY <1>1, <2>4 DEF TablesOK
  <2> HIDE DEF m, n
  <2>7. row \in StockRow
    BY <2>5, <2>6 DEF Adjusted, StockRow
  <2> HIDE DEF row
  <2>8. w \in SaveRow
    BY <2>2, <2>4, <2>7 DEF SaveRow
  <2>9. work' = [work EXCEPT ![p] = w]
    BY <2>3 DEF Goto, row, n, m
  <2>10. w.op = "saveStock" /\ w.next = u.next
    OBVIOUS
  <2> HIDE DEF w
  <2>11. w \in Work
    BY <2>8 DEF Work
  <2>12. Refers(w, request, task)
    BY <1>1, <2>1, <2>10 DEF Refers, u
  <2>13. UNCHANGED <<tables, phase, visits, now, history, accidents, serial>>
    BY <1>2 DEF ReadStock
  <2>14. TablesOK'
    BY <1>1, <2>13 DEF tables, history, TablesOK
  <2>15. UNCHANGED <<request, task>>
    BY <2>13 DEF tables
  <2> QED BY <2>9, <2>11, <2>12, <2>14, <2>15, TypeStep
<1>3. CASE SaveStock(p)
  <2> DEFINE u == work[p]
             w == LoopWork(u.left, u.sign, u.list, u.next)
  <2>1. u.op = "saveStock" /\ u \in SaveRow
    BY <1>1, <1>3, CultivationWorkFields DEF SaveStock
  <2>2. /\ u.left \in SUBSET Stage /\ u.sign \in {-1, 1} /\ u.list \in Lists
        /\ u.next \in Stage \cup {"active"} /\ u.m \in Material /\ u.row \in StockRow
    BY <2>1 DEF SaveRow
  <2>3. u.next \in Stage => request[u.next] # "none"
    BY <1>1, <2>1 DEF Refers
  <2>4. /\ work' = [work EXCEPT ![p] = w]
        /\ stock' = [stock EXCEPT ![u.m] = u.row]
        /\ UNCHANGED <<status, stages, quantity, request, task, report, diary, phase,
                       visits, now, history, accidents, serial>>
    BY <1>3 DEF SaveStock, Goto
  <2> HIDE DEF u
  <2>5. w \in Work /\ Refers(w, request, task)
    BY <2>2, <2>3, LoopFacts
  <2> HIDE DEF w
  <2>6. TablesOK'
    BY <1>1, <2>2, <2>4 DEF history, TablesOK
  <2> QED BY <2>4, <2>5, <2>6, TypeStep
<1> QED BY <1>2, <1>3

LEMMA ActivateKeepsTypes ==
  ASSUME CultivationTypeInv, NEW p \in Process, SetStatusActive(p)
  PROVE  CultivationTypeInv'
<1>1. TablesOK
  BY CultivationWorkAt
<1>2. TablesOK'
  BY <1>1 DEF SetStatusActive, TablesOK, ProcessStatus
<1> QED BY <1>2, TypeStays DEF SetStatusActive, Goto

LEMMA RequestKeepsTypes ==
  ASSUME CultivationTypeInv, NEW p \in Process,
         SaveRequest(p) \/ CreateTaskAuto(p) \/ UpdateRequestStatus(p)
  PROVE  CultivationTypeInv'
<1> DEFINE i == work[p].i
<1>1. work[p] \in Work /\ Refers(work[p], request, task) /\ TablesOK
  BY CultivationWorkAt
<1>2. Idle \in Work /\ Idle.op = "idle"
  BY CultivationWork
<1>3. Refers(Idle, request', task')
  BY <1>2 DEF Refers
<1>4. CASE SaveRequest(p)
  <2>1. /\ work[p].op = "insertRequest"
        /\ UNCHANGED <<status, stages, quantity, stock, task, report, diary, phase,
                       visits, now, history, accidents, serial>>
    BY <1>4 DEF SaveRequest
  <2>2. i \in Item
    BY <1>1, <2>1, CultivationWorkFields DEF OnItem
  <2>3. CASE i \in stages
    <3> DEFINE w == [op |-> "insertTask", i |-> i]
    <3>1. /\ request' = [request EXCEPT ![i] = "assigned"]
          /\ work' = [work EXCEPT ![p] = w]
      BY <1>4, <2>3 DEF SaveRequest, Goto
    <3>2. w \in Work
      BY <2>2, CultivationWork
    <3>3. w.op = "insertTask" /\ w.i = i
      OBVIOUS
    <3> HIDE DEF w, i
    <3>4. /\ request' \in [Item -> RequestStatus \cup {"none"}]
          /\ request'[i] = "assigned"
          /\ \A j \in Item \ {i} : request'[j] = request[j]
      BY <1>1, <2>2, <3>1 DEF TablesOK, RequestStatus
    <3>5. TablesOK'
      BY <1>1, <2>1, <2>3, <3>4 DEF history, TablesOK
    <3>6. Refers(w, request', task')
      BY <3>3, <3>4 DEF Refers
    <3> QED BY <2>1, <3>1, <3>2, <3>4, <3>5, <3>6, TypeStep
  <2>4. CASE i \notin stages
    <3>1. UNCHANGED request /\ work' = [work EXCEPT ![p] = Idle]
      BY <1>4, <2>4 DEF SaveRequest, Goto
    <3>2. TablesOK'
      BY <1>1, <2>1, <3>1 DEF history, TablesOK
    <3> QED BY <2>1, <3>1, <3>2, TypeStays
  <2> QED BY <2>3, <2>4
<1>5. CASE CreateTaskAuto(p)
  <2>1. /\ work[p].op = "insertTask" /\ task' = task \cup {i}
        /\ work' = [work EXCEPT ![p] = Idle]
        /\ UNCHANGED <<status, stages, quantity, stock, request, report, diary, phase,
                       visits, now, history, accidents, serial>>
    BY <1>5 DEF CreateTaskAuto, Goto
  <2>2. i \in Item /\ request[i] # "none"
    BY <1>1, <2>1, CultivationWorkFields DEF OnItem, Refers
  <2> HIDE DEF i
  <2>3. TablesOK'
    BY <1>1, <2>1, <2>2 DEF history, TablesOK
  <2> QED BY <1>2, <1>3, <2>1, <2>3, TypeStep
<1>6. CASE UpdateRequestStatus(p)
  <2>1. /\ work[p].op = "setStatus" /\ request' = [request EXCEPT ![i] = work[p].to]
        /\ worked' = IF i \in Content /\ work[p].to = "in_progress"
                     THEN worked \cup {i} ELSE worked
        /\ work' = [work EXCEPT ![p] = Idle]
        /\ UNCHANGED <<status, stages, quantity, stock, task, report, diary, phase,
                       visits, now, begun, owed, accidents, serial>>
    BY <1>6 DEF UpdateRequestStatus, Goto
  <2>2. i \in Item /\ request[i] # "none" /\ work[p].to \in RequestStatus
    BY <1>1, <2>1, CultivationWorkFields DEF SetStatusTo, Refers
  <2> HIDE DEF i
  <2>3. /\ request' \in [Item -> RequestStatus \cup {"none"}]
        /\ request'[i] # "none"
        /\ \A j \in Item \ {i} : request'[j] = request[j]
    BY <1>1, <2>1, <2>2 DEF TablesOK, RequestStatus
  <2>4. worked' \in SUBSET Content
    BY <1>1, <2>1 DEF TablesOK
  <2>5. TablesOK'
    BY <1>1, <2>1, <2>2, <2>3, <2>4 DEF TablesOK
  <2> QED BY <1>2, <1>3, <2>1, <2>2, <2>3, <2>5, TypeStep
<1> QED BY <1>4, <1>5, <1>6

\* A report ends, or goes on to its request or to the loop over the store.
Reported(p, w) ==
  /\ work[p].op = "saveReport"
  /\ work' = [work EXCEPT ![p] = w]
  /\ report' \in SUBSET task
  /\ UNCHANGED <<status, stages, quantity, stock, request, task, diary, phase,
                 visits, now, begun, worked, accidents, serial>>
  /\ Refers(w, request, task)
  /\ w.op \in {"idle", "readStock", "setActive", "setStatus"}
  /\ owed' \in [Material -> Int]
  /\ serial /\ accidents = 0
     => \A m \in Material : owed'[m] = owed[m] - Pending(w, stock, m)

LEMMA ReportFacts ==
  ASSUME CultivationTypeInv, NEW p \in Process, SaveReport(p)
  PROVE  \E w \in Work : Reported(p, w)
<1> DEFINE i == work[p].i
<1> USE DEF CultivationTypeInv
<1>1. work[p] \in Work /\ Refers(work[p], request, task) /\ TablesOK
  BY CultivationWorkAt
<1>2. /\ work[p].op = "saveReport"
      /\ UNCHANGED <<status, stages, quantity, stock, request, task, diary, phase,
                     visits, now, begun, worked, accidents, serial>>
  BY DEF SaveReport
<1>3. i \in Item /\ i \in task /\ request[i] # "none"
  BY <1>1, <1>2, CultivationWorkFields DEF PutReport, Refers, TablesOK
<1>4. owed \in [Material -> Int] /\ \A m \in Material : owed[m] - 0 = owed[m]
  BY <1>1 DEF TablesOK
<1>5. ASSUME NEW w \in Work, w.op \in {"idle", "setStatus"}, Refers(w, request, task),
             Goto(p, w), UNCHANGED owed, report' \in SUBSET task
      PROVE  \E v \in Work : Reported(p, v)
  <2>1. \A m : Pending(w, stock, m) = 0
    BY <1>5 DEF Pending
  <2>2. \A m \in Material : owed'[m] = owed[m] - Pending(w, stock, m)
    BY <1>4, <1>5, <2>1
  <2>3. Reported(p, w)
    BY <1>2, <1>4, <1>5, <2>2 DEF Reported, Goto
  <2> QED BY <2>3
<1>6. CASE Goto(p, Idle) /\ UNCHANGED <<report, owed>>
  <2>1. Idle \in Work /\ Idle.op = "idle" /\ report' \in SUBSET task
    BY <1>1, <1>6, CultivationWork DEF TablesOK
  <2>2. Refers(Idle, request, task)
    BY <2>1 DEF Refers
  <2> QED BY <1>5, <1>6, <2>1, <2>2
<1>7. CASE /\ report' = report \cup {i}
           /\ i \in Content /\ Goto(p, SetStatusWork(i, "pending_approval"))
           /\ UNCHANGED owed
  <2> DEFINE w == SetStatusWork(i, "pending_approval")
  <2>1. "pending_approval" \in RequestStatus
    BY DEF RequestStatus
  <2>2. w \in Work /\ w.op = "setStatus" /\ w.i = i
    BY <1>3, <2>1, CultivationWork
  <2>3. Goto(p, w) /\ report' \in SUBSET task
    BY <1>1, <1>3, <1>7 DEF TablesOK
  <2> HIDE DEF w
  <2>4. Refers(w, request, task)
    BY <1>3, <2>2 DEF Refers
  <2> QED BY <1>5, <1>7, <2>2, <2>3, <2>4
<1>8. CASE /\ report' = report \cup {i}
           /\ i \notin Content /\ Goto(p, LoopWork(WithRow(i), 1, quantity, i))
           /\ Owe(WithRow(i), 1)
  <2> DEFINE w == LoopWork(WithRow(i), 1, quantity, i)
  <2>1. i \in Stage /\ WithRow(i) \in SUBSET Stage /\ quantity \in Lists
    BY <1>1, <1>3, <1>8 DEF Item, WithRow, TablesOK
  <2>2. /\ w \in Work /\ w.op \in {"readStock", "setActive", "setStatus"}
        /\ Refers(w, request, task)
    BY <1>3, <2>1, LoopFacts
  <2>3. /\ owed' \in [Material -> Int]
        /\ serial /\ accidents = 0
             => \A m \in Material : owed'[m] = owed[m] - Pending(w, stock, m)
    BY <1>8, <2>1, OwedFacts
  <2>4. work' = [work EXCEPT ![p] = w] /\ report' \in SUBSET task
    BY <1>1, <1>3, <1>8 DEF Goto, TablesOK
  <2> HIDE DEF w
  <2>5. Reported(p, w)
    BY <1>2, <2>2, <2>3, <2>4 DEF Reported
  <2> QED BY <2>2, <2>5
<1> QED BY <1>6, <1>7, <1>8 DEF SaveReport

LEMMA ReportKeepsTypes ==
  ASSUME CultivationTypeInv, NEW p \in Process, SaveReport(p)
  PROVE  CultivationTypeInv'
<1>1. PICK w \in Work : Reported(p, w)
  BY ReportFacts
<1>2. TablesOK
  BY CultivationWorkAt
<1>3. TablesOK'
  BY <1>1, <1>2 DEF TablesOK, Reported
<1> QED BY <1>1, <1>3, TypeStep DEF Reported

LEMMA DiaryKeepsTypes ==
  ASSUME CultivationTypeInv, NEW p \in Process, SaveDinary(p)
  PROVE  CultivationTypeInv'
<1> DEFINE k == work[p].k
           w == IF k \in diary THEN Idle ELSE SetStatusWork(k, "completed")
<1>1. work[p] \in Work /\ Refers(work[p], request, task) /\ TablesOK
  BY CultivationWorkAt
<1>2. /\ work[p].op = "insertDiary" /\ diary' = diary \cup {k}
      /\ work' = [work EXCEPT ![p] = w]
      /\ UNCHANGED <<status, stages, quantity, stock, request, task, report, phase,
                     visits, now, history, accidents, serial>>
  BY DEF SaveDinary, Goto
<1>3. k \in Content /\ k \in Item /\ request[k] # "none"
  BY <1>1, <1>2, CultivationWorkFields DEF PutDiary, Refers, Item
<1>4. "completed" \in RequestStatus
  BY DEF RequestStatus
<1>5. w \in Work /\ (w.op = "idle" \/ (w.op = "setStatus" /\ w.i = k))
  BY <1>3, <1>4, CultivationWork
<1> HIDE DEF w, k
<1>6. Refers(w, request, task)
  BY <1>3, <1>5 DEF Refers
<1>7. TablesOK'
  BY <1>1, <1>2, <1>3 DEF TablesOK, history
<1>8. UNCHANGED <<request, task>>
  BY <1>2
<1> QED BY <1>2, <1>5, <1>6, <1>7, <1>8, TypeStep

LEMMA ProcessRowKeepsTypes ==
  ASSUME CultivationTypeInv, NEW p \in Process, SaveProcessRow(p) \/ SetQuantity(p)
  PROVE  CultivationTypeInv'
<1> DEFINE u == work[p]
<1>1. u \in Work /\ Refers(u, request, task) /\ TablesOK
  BY CultivationWorkAt
<1>2. CASE SaveProcessRow(p)
  <2>1. /\ u.op = "saveProcess" /\ status' = u.status
        /\ work' = [work EXCEPT ![p] = u.edit]
        /\ UNCHANGED <<stages, quantity, stock, request, task, report, diary, phase,
                       visits, now, history, accidents, serial>>
    BY <1>2 DEF SaveProcessRow, Goto
  <2>2. u.status \in ProcessStatus /\ u.edit \in Edit
    BY <1>1, <2>1, CultivationWorkFields DEF SaveProcess
  <2>3. u.edit \in Work /\ u.edit.op \in {"idle", "setQuantity", "deleteContents"}
    BY <2>2, CultivationWork
  <2> HIDE DEF u
  <2>4. Refers(u.edit, request, task)
    BY <2>3 DEF Refers
  <2>5. TablesOK'
    BY <1>1, <2>1, <2>2 DEF TablesOK, history
  <2>6. UNCHANGED <<request, task>>
    BY <2>1
  <2> QED BY <2>1, <2>3, <2>4, <2>5, <2>6, TypeStep
<1>3. CASE SetQuantity(p)
  <2>1. /\ u.op = "setQuantity"
        /\ quantity' = IF u.g \in stages THEN [quantity EXCEPT ![u.g] = u.q] ELSE quantity
        /\ work' = [work EXCEPT ![p] = Idle]
        /\ UNCHANGED <<status, stages, stock, request, task, report, diary, phase,
                       visits, now, history, accidents, serial>>
    BY <1>3 DEF SetQuantity, Goto
  <2>2. u.g \in Stage /\ u.q \in Nat
    BY <1>1, <2>1, CultivationWorkFields, CultivationAssumption DEF SetOne
  <2> HIDE DEF u
  <2>3. quantity' \in Lists
    BY <1>1, <2>1, <2>2 DEF TablesOK, Lists
  <2>4. TablesOK'
    BY <1>1, <2>1, <2>3 DEF TablesOK, history
  <2> QED BY <2>1, <2>4, TypeStays
<1> QED BY <1>2, <1>3

\* What is deleted, nothing refers to.
LEMMA DeletionKeepsTypes ==
  ASSUME CultivationTypeInv, NEW p \in Process,
         DeleteContents(p) \/ DeleteMaterials(p) \/ DeleteStage(p)
  PROVE  CultivationTypeInv'
<1> DEFINE g == work[p].g
<1>1. work[p] \in Work /\ Refers(work[p], request, task) /\ TablesOK
  BY CultivationWorkAt
<1>2. /\ work[p].op \in {"deleteContents", "deleteMaterials", "deleteStage"}
      /\ UNCHANGED <<status, stock, request, task, report, diary, phase,
                     visits, now, history, accidents, serial>>
  BY DEF DeleteContents, DeleteMaterials, DeleteStage
<1>3. g \in Stage
  BY <1>1, <1>2, CultivationWorkFields DEF Delete
<1>4. g \notin Content
  BY <1>3, CultivationAssumption
<1>5. CASE DeleteContents(p)
  <2> DEFINE ks == {k \in Content : StageOf[k] = g}
             w == [op |-> "deleteMaterials", g |-> g]
  <2>1. UNCHANGED quantity
    BY <1>5 DEF DeleteContents
  <2>2. CASE \A k \in ks : request[k] = "none" /\ k \notin diary
    <3>1. stages' = stages \ ks /\ work' = [work EXCEPT ![p] = w]
      BY <1>5, <2>2 DEF DeleteContents, Goto
    <3>2. w \in Work /\ w.op = "deleteMaterials"
      BY <1>3, CultivationWork
    <3> HIDE DEF w, ks
    <3>3. Refers(w, request, task)
      BY <3>2 DEF Refers
    <3>4. TablesOK'
      BY <1>1, <1>2, <2>1, <2>2, <3>1 DEF TablesOK, history
    <3>5. UNCHANGED <<request, task>>
      BY <1>2
    <3> QED BY <3>1, <3>2, <3>3, <3>4, <3>5, TypeStep
  <2>3. CASE ~ \A k \in ks : request[k] = "none" /\ k \notin diary
    <3>1. UNCHANGED stages /\ work' = [work EXCEPT ![p] = Idle]
      BY <1>5, <2>3 DEF DeleteContents, Goto
    <3>2. TablesOK'
      BY <1>1, <1>2, <2>1, <3>1 DEF TablesOK, history
    <3> QED BY <1>2, <3>1, <3>2, TypeStays
  <2> QED BY <2>2, <2>3
<1>6. CASE DeleteMaterials(p)
  <2> DEFINE w == [op |-> "deleteStage", g |-> g]
  <2>1. /\ quantity' = [quantity EXCEPT ![g] = 0] /\ UNCHANGED stages
        /\ work' = [work EXCEPT ![p] = w]
    BY <1>6 DEF DeleteMaterials, Goto
  <2>2. w \in Work /\ w.op = "deleteStage"
    BY <1>3, CultivationWork
  <2> HIDE DEF w, g
  <2>3. Refers(w, request, task)
    BY <2>2 DEF Refers
  <2>4. quantity' \in Lists
    BY <1>1, <1>3, <2>1 DEF TablesOK, Lists
  <2>5. TablesOK'
    BY <1>1, <1>2, <2>1, <2>4 DEF TablesOK, history
  <2>6. UNCHANGED <<request, task>>
    BY <1>2
  <2> QED BY <2>1, <2>2, <2>3, <2>5, <2>6, TypeStep
<1>7. CASE DeleteStage(p)
  <2>1. /\ stages' = IF request[g] = "none" /\ ~HasRow(g) THEN stages \ {g} ELSE stages
        /\ UNCHANGED quantity /\ work' = [work EXCEPT ![p] = Idle]
    BY <1>7 DEF DeleteStage, Goto
  <2> HIDE DEF g
  <2>2. TablesOK'
    BY <1>1, <1>2, <1>4, <2>1 DEF TablesOK, history
  <2> QED BY <1>2, <2>1, <2>2, TypeStays
<1> QED BY <1>5, <1>6, <1>7

LEMMA CultivationFailKeepsTypes ==
  ASSUME CultivationTypeInv, NEW p \in Process, Fail(p)
  PROVE  CultivationTypeInv'
<1>1. TablesOK
  BY CultivationWorkAt
<1>2. /\ work' = [work EXCEPT ![p] = Idle] /\ visits' \in {visits, {}}
      /\ accidents' = accidents + 1
      /\ UNCHANGED <<tables, phase, now, history, serial>>
  BY DEF Fail, Goto
<1>3. TablesOK'
  BY <1>1, <1>2 DEF TablesOK, tables, history
<1>4. UNCHANGED <<request, task>>
  BY <1>2 DEF tables
<1> QED BY <1>2, <1>3, <1>4, TypeStays

JobStep == \/ CheckAndCreateTaskProcessContentForExpert
           \/ CheckNewStageProcessSpecific \/ CreateRequest \/ EndOfJob

LEMMA JobKeepsTypes ==
  ASSUME CultivationTypeInv, JobStep
  PROVE  CultivationTypeInv'
<1>1. TablesOK /\ Job \in Process
  BY CultivationWorkAt DEF Process
<1>2. CASE CheckAndCreateTaskProcessContentForExpert
  <2>1. /\ now' = now + 1 /\ phase' = "contents" /\ visits' \subseteq Content
        /\ UNCHANGED <<tables, work, history, accidents, serial>>
    BY <1>2 DEF CheckAndCreateTaskProcessContentForExpert
  <2>2. visits' \subseteq Item
    BY <2>1 DEF Item
  <2>3. TablesOK'
    BY <1>1, <2>1, <2>2 DEF TablesOK, tables, history
  <2>4. UNCHANGED <<request, task>>
    BY <2>1 DEF tables
  <2> QED BY <2>1, <2>3, <2>4, TypeStays
<1>3. CASE CheckNewStageProcessSpecific
  <2>1. /\ phase' = "stages" /\ visits' \subseteq Stage
        /\ UNCHANGED <<tables, work, now, history, accidents, serial>>
    BY <1>3 DEF CheckNewStageProcessSpecific
  <2>2. visits' \subseteq Item
    BY <2>1 DEF Item
  <2>3. TablesOK'
    BY <1>1, <2>1, <2>2 DEF TablesOK, tables, history
  <2>4. UNCHANGED <<request, task>>
    BY <2>1 DEF tables
  <2> QED BY <2>1, <2>3, <2>4, TypeStays
<1>4. CASE EndOfJob
  <2>1. /\ phase' = "idle"
        /\ UNCHANGED <<tables, work, visits, now, history, accidents, serial>>
    BY <1>4 DEF EndOfJob
  <2>2. TablesOK'
    BY <1>1, <2>1 DEF TablesOK, tables, history
  <2>3. UNCHANGED <<request, task>>
    BY <2>1 DEF tables
  <2> QED BY <2>1, <2>2, <2>3, TypeStays
<1>5. CASE CreateRequest
  <2>1. PICK i \in visits :
          /\ visits' = visits \ {i}
          /\ IF request[i] = "none"
             THEN Goto(Job, [op |-> "insertRequest", i |-> i])
             ELSE UNCHANGED work
    BY <1>5 DEF CreateRequest
  <2>2. UNCHANGED <<tables, phase, now, history, accidents, serial>>
    BY <1>5 DEF CreateRequest
  <2>3. TablesOK'
    BY <1>1, <2>1, <2>2 DEF TablesOK, tables, history
  <2>4. UNCHANGED <<request, task>>
    BY <2>2 DEF tables
  <2>5. CASE request[i] = "none"
    <3> DEFINE w == [op |-> "insertRequest", i |-> i]
    <3>1. w \in Work /\ w.op = "insertRequest" /\ i \in Item
      BY <1>1, CultivationWork DEF TablesOK
    <3>2. work' = [work EXCEPT ![Job] = w]
      BY <2>1, <2>5 DEF Goto
    <3> HIDE DEF w
    <3>3. Refers(w, request, task)
      BY <3>1 DEF Refers
    <3> QED BY <1>1, <2>3, <2>4, <3>1, <3>2, <3>3, TypeStep
  <2>6. CASE request[i] # "none"
    BY <2>1, <2>3, <2>4, <2>6, TypeStays
  <2> QED BY <2>5, <2>6
<1> QED BY <1>2, <1>3, <1>4, <1>5 DEF JobStep

LEMMA CultivationInitTypes ==
  ASSUME Init
  PROVE  CultivationTypeInv
<1>1. Idle \in Work /\ Idle.op = "idle" /\ \A rq, tk : Refers(Idle, rq, tk)
  BY CultivationWork DEF Refers
<1>2. stock \in [Material -> StockRow]
  BY CultivationAssumption DEF Init, StockRow
<1>3. TypeOK
  BY <1>1, <1>2, CultivationBoundAssumption DEF Init, TypeOK, Lists, ProcessStatus
<1> QED BY <1>1, <1>3 DEF CultivationTypeInv, ReferInv, Init

LEMMA CultivationStepKeepsTypes ==
  ASSUME CultivationTypeInv, Next
  PROVE  CultivationTypeInv'
<1>1. ASSUME NEW p \in Process, Continue(p)
      PROVE  CultivationTypeInv'
  BY <1>1, LoopKeepsTypes, ActivateKeepsTypes, RequestKeepsTypes, ReportKeepsTypes,
     DiaryKeepsTypes, ProcessRowKeepsTypes, DeletionKeepsTypes DEF Continue
<1> QED BY <1>1, ArriveKeepsTypes, CultivationFailKeepsTypes, JobKeepsTypes DEF Next, JobStep

LEMMA CultivationStutterKeepsTypes ==
  ASSUME CultivationTypeInv, UNCHANGED vars
  PROVE  CultivationTypeInv'
<1>1. TablesOK
  BY TypeIsTables DEF CultivationTypeInv
<1>2. TablesOK'
  BY <1>1 DEF TablesOK, vars, tables, history
<1> QED BY <1>2, TypeStays DEF vars, tables

\* Type correctness, with what every call in flight refers to: each handler writes
\* only rows whose referents are still there.
THEOREM CultivationTypeCorrect == Spec => []CultivationTypeInv
<1>1. CultivationTypeInv /\ [Next]_vars => CultivationTypeInv'
  BY CultivationStepKeepsTypes, CultivationStutterKeepsTypes
<1> QED BY CultivationInitTypes, <1>1, PTL DEF Spec

\* TypeOK of the runs.
THEOREM CultivationTypeHolds == Spec => []TypeOK
BY CultivationTypeCorrect, PTL DEF CultivationTypeInv

-----------------------------------------------------------------------------
\* ActivationInv, but for the work in flight.
ActivationTables ==
  /\ status = "active" \/ visits # {} => begun # Never
  /\ \A i \in Item : request[i] # "none" => begun # Never
  /\ \A k \in Content : request[k] = "in_progress" => k \in worked
  /\ diary \subseteq worked

\* A step of p that leaves it w.
LEMMA ActivationStep ==
  ASSUME CultivationTypeInv, ActivationInv, NEW p \in Process, NEW w,
         work' = work \/ work' = [work EXCEPT ![p] = w],
         Follows(w, begun', worked'), ActivationTables',
         begun # Never => begun' # Never, worked \subseteq worked'
  PROVE  ActivationInv'
<1>1. work \in [Process -> Work]
  BY TypeIsTables DEF CultivationTypeInv
<1>2. ASSUME NEW q \in Process
      PROVE  Follows(work'[q], begun', worked')
  <2>1. Follows(work[q], begun', worked')
    BY DEF ActivationInv, Follows
  <2>2. work'[q] = w \/ work'[q] = work[q]
    BY <1>1
  <2> QED BY <2>1, <2>2
<1> QED BY <1>2 DEF ActivationInv, ActivationTables

\* Most steps leave to a call what follows nothing.
LEMMA ActivationStays ==
  ASSUME CultivationTypeInv, ActivationInv, NEW p \in Process, NEW w,
         work' = work \/ work' = [work EXCEPT ![p] = w],
         w.op \notin {"saveProcess", "insertRequest", "insertDiary"},
         UNCHANGED <<status, request, diary, begun, worked>>, visits' \subseteq visits
  PROVE  ActivationInv'
<1>1. Follows(w, begun', worked')
  BY DEF Follows
<1>2. ActivationTables'
  BY DEF ActivationInv, ActivationTables
<1> QED BY <1>1, <1>2, ActivationStep

LEMMA ArriveKeepsActivation ==
  ASSUME CultivationTypeInv, ActivationInv, NEW c \in Call, Arrive(c)
  PROVE  ActivationInv'
<1>1. PICK w \in Work : Arrived(c, w)
  BY ArriveIsArrival
<1>2. c \in Process
  BY DEF Process
<1>3. /\ work' = [work EXCEPT ![c] = w]
      /\ UNCHANGED <<tables, phase, visits, begun, worked>>
      /\ w.op # "insertRequest"
      /\ w.op = "saveProcess" => w.status = status
      /\ w.op = "insertDiary" => w.k \in Content /\ request[w.k] = "in_progress"
  BY <1>1 DEF Arrived
<1>4. Follows(w, begun', worked')
  BY <1>3 DEF Follows, ActivationInv
<1>5. ActivationTables'
  BY <1>3 DEF ActivationInv, ActivationTables, tables
<1> QED BY <1>2, <1>3, <1>4, <1>5, ActivationStep

LEMMA LoopKeepsActivation ==
  ASSUME CultivationTypeInv, ActivationInv, NEW p \in Process, ReadStock(p) \/ SaveStock(p)
  PROVE  ActivationInv'
<1> DEFINE u == work[p]
<1>1. u \in Work
  BY CultivationWorkAt
<1>2. CASE ReadStock(p)
  <2>1. PICK g \in u.left :
          Goto(p, [op |-> "saveStock", left |-> u.left \ {g}, sign |-> u.sign,
                   list |-> u.list, next |-> u.next, m |-> MaterialOf[g],
                   row |-> Adjusted(stock[MaterialOf[g]], MaterialOf[g],
                                    u.sign * u.list[g])])
    BY <1>2 DEF ReadStock
  <2> DEFINE w == [op |-> "saveStock", left |-> u.left \ {g}, sign |-> u.sign,
                   list |-> u.list, next |-> u.next, m |-> MaterialOf[g],
                   row |-> Adjusted(stock[MaterialOf[g]], MaterialOf[g],
                                    u.sign * u.list[g])]
  <2>2. w.op = "saveStock" /\ work' = [work EXCEPT ![p] = w]
    BY <2>1 DEF Goto
  <2> HIDE DEF w
  <2>3. UNCHANGED <<status, request, diary, begun, worked, visits>>
    BY <1>2 DEF ReadStock, tables, history
  <2> QED BY <2>2, <2>3, ActivationStays
<1>3. CASE SaveStock(p)
  <2> DEFINE w == LoopWork(u.left, u.sign, u.list, u.next)
  <2>1. u \in SaveRow
    BY <1>1, <1>3, CultivationWorkFields DEF SaveStock
  <2>2. /\ u.left \in SUBSET Stage /\ u.sign \in {-1, 1} /\ u.list \in Lists
        /\ u.next \in Stage \cup {"active"}
    BY <2>1 DEF SaveRow
  <2>3. /\ work' = [work EXCEPT ![p] = w]
        /\ UNCHANGED <<status, request, diary, begun, worked, visits>>
    BY <1>3 DEF SaveStock, Goto, history
  <2> HIDE DEF u
  <2>4. w.op \in {"readStock", "setActive", "setStatus"}
    BY <2>2, LoopFacts
  <2> HIDE DEF w
  <2> QED BY <2>3, <2>4, ActivationStays
<1> QED BY <1>2, <1>3

LEMMA ActivateKeepsActivation ==
  ASSUME CultivationTypeInv, ActivationInv, NEW p \in Process, SetStatusActive(p)
  PROVE  ActivationInv'
<1>1. now \in Nat /\ begun \in Nat \cup {Never}
  BY CultivationWorkAt DEF TablesOK
<1>2. /\ work' = [work EXCEPT ![p] = Idle]
      /\ begun' = IF begun = Never THEN now ELSE begun
      /\ UNCHANGED <<request, diary, visits, worked>>
  BY DEF SetStatusActive, Goto
<1>3. begun' # Never
  BY <1>1, <1>2 DEF Never
<1>4. Follows(Idle, begun', worked')
  BY CultivationWork DEF Follows
<1>5. ActivationTables'
  BY <1>2, <1>3 DEF ActivationTables, ActivationInv
<1> QED BY <1>2, <1>3, <1>4, <1>5, ActivationStep

LEMMA RequestKeepsActivation ==
  ASSUME CultivationTypeInv, ActivationInv, NEW p \in Process,
         SaveRequest(p) \/ CreateTaskAuto(p) \/ UpdateRequestStatus(p)
  PROVE  ActivationInv'
<1> DEFINE i == work[p].i
<1>1. work[p] \in Work /\ Refers(work[p], request, task) /\ TablesOK
  BY CultivationWorkAt
<1>2. Idle.op = "idle"
  BY CultivationWork
<1>3. CASE SaveRequest(p)
  <2>1. /\ work[p].op = "insertRequest"
        /\ UNCHANGED <<status, diary, begun, worked, visits>>
    BY <1>3 DEF SaveRequest, history
  <2>2. i \in Item /\ begun # Never
    BY <1>1, <2>1, CultivationWorkFields DEF OnItem, ActivationInv, Follows
  <2>3. CASE i \in stages
    <3> DEFINE w == [op |-> "insertTask", i |-> i]
    <3>1. /\ request' = [request EXCEPT ![i] = "assigned"]
          /\ work' = [work EXCEPT ![p] = w] /\ w.op = "insertTask"
      BY <1>3, <2>3 DEF SaveRequest, Goto
    <3> HIDE DEF w, i
    <3>2. /\ request'[i] = "assigned"
          /\ \A j \in Item \ {i} : request'[j] = request[j]
      BY <1>1, <2>2, <3>1 DEF TablesOK
    <3>3. Content \subseteq Item
      BY DEF Item
    <3>4. ActivationTables'
      BY <2>1, <2>2, <3>2, <3>3 DEF ActivationTables, ActivationInv
    <3>5. Follows(w, begun', worked')
      BY <3>1 DEF Follows
    <3> QED BY <2>1, <3>1, <3>4, <3>5, ActivationStep
  <2>4. CASE i \notin stages
    <3>1. UNCHANGED request /\ work' = [work EXCEPT ![p] = Idle]
      BY <1>3, <2>4 DEF SaveRequest, Goto
    <3> QED BY <1>2, <2>1, <3>1, ActivationStays
  <2> QED BY <2>3, <2>4
<1>4. CASE CreateTaskAuto(p)
  <2>1. /\ work' = [work EXCEPT ![p] = Idle]
        /\ UNCHANGED <<status, request, diary, begun, worked, visits>>
    BY <1>4 DEF CreateTaskAuto, Goto, history
  <2> QED BY <1>2, <2>1, ActivationStays
<1>5. CASE UpdateRequestStatus(p)
  <2>1. /\ work[p].op = "setStatus" /\ request' = [request EXCEPT ![i] = work[p].to]
        /\ worked' = IF i \in Content /\ work[p].to = "in_progress"
                     THEN worked \cup {i} ELSE worked
        /\ work' = [work EXCEPT ![p] = Idle]
        /\ UNCHANGED <<status, diary, begun, visits>>
    BY <1>5 DEF UpdateRequestStatus, Goto
  <2>2. i \in Item /\ request[i] # "none"
    BY <1>1, <2>1, CultivationWorkFields DEF SetStatusTo, Refers
  <2> HIDE DEF i
  <2>3. /\ request'[i] = work[p].to
        /\ \A j \in Item \ {i} : request'[j] = request[j]
    BY <1>1, <2>1, <2>2 DEF TablesOK
  <2>4. Content \subseteq Item /\ worked \subseteq worked'
    BY <2>1 DEF Item
  <2>5. begun # Never
    BY <2>2 DEF ActivationInv
  <2>6. \A k \in Content : request'[k] = "in_progress" => k \in worked'
    BY <2>1, <2>2, <2>3, <2>4 DEF ActivationInv
  <2>7. ActivationTables'
    BY <2>1, <2>4, <2>5, <2>6 DEF ActivationTables, ActivationInv
  <2>8. Follows(Idle, begun', worked')
    BY <1>2 DEF Follows
  <2> QED BY <2>1, <2>4, <2>7, <2>8, ActivationStep
<1> QED BY <1>3, <1>4, <1>5

LEMMA ReportKeepsActivation ==
  ASSUME CultivationTypeInv, ActivationInv, NEW p \in Process, SaveReport(p)
  PROVE  ActivationInv'
<1>1. PICK w \in Work : Reported(p, w)
  BY ReportFacts
<1> QED BY <1>1, ActivationStays DEF Reported

LEMMA DiaryKeepsActivation ==
  ASSUME CultivationTypeInv, ActivationInv, NEW p \in Process, SaveDinary(p)
  PROVE  ActivationInv'
<1> DEFINE k == work[p].k
           w == IF k \in diary THEN Idle ELSE SetStatusWork(k, "completed")
<1>1. work[p] \in Work
  BY CultivationWorkAt
<1>2. /\ work[p].op = "insertDiary" /\ diary' = diary \cup {k}
      /\ work' = [work EXCEPT ![p] = w]
      /\ UNCHANGED <<status, request, begun, worked, visits>>
  BY DEF SaveDinary, Goto, history
<1>3. k \in worked
  BY <1>2 DEF ActivationInv, Follows
<1>4. w.op \in {"idle", "setStatus"}
  BY CultivationWork DEF SetStatusWork
<1> HIDE DEF w, k
<1>5. ActivationTables'
  BY <1>2, <1>3 DEF ActivationTables, ActivationInv
<1>6. Follows(w, begun', worked')
  BY <1>4 DEF Follows
<1> QED BY <1>2, <1>5, <1>6, ActivationStep

LEMMA EditKeepsActivation ==
  ASSUME CultivationTypeInv, ActivationInv, NEW p \in Process,
         \/ SaveProcessRow(p) \/ SetQuantity(p)
         \/ DeleteContents(p) \/ DeleteMaterials(p) \/ DeleteStage(p)
  PROVE  ActivationInv'
<1>1. work[p] \in Work
  BY CultivationWorkAt
<1>2. Idle.op = "idle"
  BY CultivationWork
<1>3. CASE SaveProcessRow(p)
  <2> DEFINE w == work[p].edit
  <2>1. /\ work[p].op = "saveProcess" /\ status' = work[p].status
        /\ work' = [work EXCEPT ![p] = w]
        /\ UNCHANGED <<request, diary, begun, worked, visits>>
    BY <1>3 DEF SaveProcessRow, Goto, history
  <2>2. w \in Edit
    BY <1>1, <2>1, CultivationWorkFields DEF SaveProcess
  <2>3. w.op \in {"idle", "setQuantity", "deleteContents"}
    BY <2>2, CultivationWork
  <2> HIDE DEF w
  <2>4. ActivationTables'
    BY <2>1 DEF ActivationTables, ActivationInv, Follows
  <2>5. Follows(w, begun', worked')
    BY <2>3 DEF Follows
  <2> QED BY <2>1, <2>4, <2>5, ActivationStep
<1>4. CASE SetQuantity(p) \/ DeleteStage(p)
  <2>1. /\ work' = [work EXCEPT ![p] = Idle]
        /\ UNCHANGED <<status, request, diary, begun, worked, visits>>
    BY <1>4 DEF SetQuantity, DeleteStage, Goto, history
  <2> QED BY <1>2, <2>1, ActivationStays
<1>5. CASE DeleteContents(p) \/ DeleteMaterials(p)
  <2>1. /\ \E w : /\ work' = [work EXCEPT ![p] = w]
                  /\ w.op \in {"idle", "deleteMaterials", "deleteStage"}
        /\ UNCHANGED <<status, request, diary, begun, worked, visits>>
    BY <1>2, <1>5 DEF DeleteContents, DeleteMaterials, Goto, history
  <2> QED BY <2>1, ActivationStays
<1> QED BY <1>3, <1>4, <1>5

LEMMA FailKeepsActivation ==
  ASSUME CultivationTypeInv, ActivationInv, NEW p \in Process, Fail(p)
  PROVE  ActivationInv'
<1>1. /\ work' = [work EXCEPT ![p] = Idle] /\ visits' \subseteq visits
      /\ UNCHANGED <<status, request, diary, begun, worked>>
  BY DEF Fail, Goto, tables, history
<1>2. Idle.op = "idle"
  BY CultivationWork
<1> QED BY <1>1, <1>2, ActivationStays

\* The job lists nothing of a process that is not active.
LEMMA JobKeepsActivation ==
  ASSUME CultivationTypeInv, ActivationInv, JobStep
  PROVE  ActivationInv'
<1>1. Job \in Process /\ Idle.op = "idle"
  BY CultivationWork DEF Process
<1>2. UNCHANGED <<status, request, diary, begun, worked>>
  BY DEF JobStep, CheckAndCreateTaskProcessContentForExpert, CheckNewStageProcessSpecific,
         CreateRequest, EndOfJob, tables, history
<1>3. CASE CheckAndCreateTaskProcessContentForExpert \/ CheckNewStageProcessSpecific
  <2>1. UNCHANGED work
    BY <1>3 DEF CheckAndCreateTaskProcessContentForExpert, CheckNewStageProcessSpecific
  <2>2. visits' # {} => status = "active"
    BY <1>3 DEF CheckAndCreateTaskProcessContentForExpert, CheckNewStageProcessSpecific
  <2>3. ActivationTables'
    BY <1>2, <2>2 DEF ActivationTables, ActivationInv
  <2>4. Follows(Idle, begun', worked')
    BY <1>1 DEF Follows
  <2> QED BY <1>1, <1>2, <2>1, <2>3, <2>4, ActivationStep
<1>4. CASE EndOfJob
  <2>1. UNCHANGED <<work, visits>>
    BY <1>4 DEF EndOfJob
  <2> QED BY <1>1, <1>2, <2>1, ActivationStays
<1>5. CASE CreateRequest
  <2>1. PICK i \in visits :
          /\ visits' = visits \ {i}
          /\ IF request[i] = "none"
             THEN Goto(Job, [op |-> "insertRequest", i |-> i])
             ELSE UNCHANGED work
    BY <1>5 DEF CreateRequest
  <2>2. begun # Never
    BY <2>1 DEF ActivationInv
  <2> DEFINE w == [op |-> "insertRequest", i |-> i]
  <2>3. work' = work \/ work' = [work EXCEPT ![Job] = w]
    BY <2>1 DEF Goto
  <2>4. w.op = "insertRequest"
    OBVIOUS
  <2> HIDE DEF w
  <2>5. ActivationTables'
    BY <1>2, <2>1, <2>2 DEF ActivationTables, ActivationInv
  <2>6. Follows(w, begun', worked')
    BY <1>2, <2>2, <2>4 DEF Follows
  <2> QED BY <1>1, <1>2, <2>3, <2>5, <2>6, ActivationStep
<1> QED BY <1>3, <1>4, <1>5 DEF JobStep

LEMMA NextKeepsActivation ==
  ASSUME CultivationTypeInv, ActivationInv, [Next]_vars
  PROVE  ActivationInv'
<1>1. ASSUME NEW p \in Process, Continue(p)
      PROVE  ActivationInv'
  BY <1>1, LoopKeepsActivation, ActivateKeepsActivation, RequestKeepsActivation,
     ReportKeepsActivation, DiaryKeepsActivation, EditKeepsActivation DEF Continue
<1>2. CASE UNCHANGED vars
  BY <1>2 DEF vars, tables, history, ActivationInv
<1> QED
  BY <1>1, <1>2, ArriveKeepsActivation, FailKeepsActivation, JobKeepsActivation
     DEF Next, JobStep

\* WorkFollowsActivation: no request is made for a process that never was active, and
\* no diary of work that never was in progress, however the job, the calls and the
\* edits that save the row they read interleave.
THEOREM WorkFollowsActivationHolds == Spec => []WorkFollowsActivation
<1>1. Init => ActivationInv
  <2>1. Idle.op = "idle"
    BY CultivationWork
  <2>2. Content \subseteq Item
    BY DEF Item
  <2>3. Init => \A p \in Process : Follows(work[p], begun, worked)
    BY <2>1 DEF Init, Follows
  <2>4. Init => ActivationTables
    BY <2>2 DEF Init, ActivationTables
  <2> QED BY <2>3, <2>4 DEF ActivationInv, ActivationTables
<1>2. CultivationTypeInv /\ ActivationInv /\ [Next]_vars => ActivationInv'
  BY NextKeepsActivation
<1>3. ActivationInv => WorkFollowsActivation
  BY DEF ActivationInv, WorkFollowsActivation
<1> QED BY <1>1, <1>2, <1>3, CultivationTypeCorrect, PTL DEF Spec

-----------------------------------------------------------------------------
\* Only the loop writes the store, and only a report begins one.
LEMMA OthersKeepStock ==
  ASSUME CultivationTypeInv, NEW p \in Process, Continue(p) \/ Fail(p),
         ~ReadStock(p), ~SaveStock(p)
  PROVE  /\ UNCHANGED stock
         /\ \E w : /\ work' = [work EXCEPT ![p] = w]
                   /\ w.op \notin {"saveStock", "saveProcess", "insertRequest"}
                   /\ w.op = "insertTask" => work[p].op = "insertRequest"
                   /\ SaveReport(p) \/ w.op # "readStock"
<1>1. work[p] \in Work /\ Idle.op = "idle"
  BY CultivationWork, CultivationWorkAt
<1>2. CASE \/ SetStatusActive(p) \/ CreateTaskAuto(p) \/ UpdateRequestStatus(p)
           \/ SetQuantity(p) \/ DeleteStage(p) \/ Fail(p)
  <2>1. work' = [work EXCEPT ![p] = Idle] /\ UNCHANGED stock
    BY <1>2 DEF SetStatusActive, CreateTaskAuto, UpdateRequestStatus, SetQuantity,
                DeleteStage, Fail, Goto, tables
  <2> QED BY <1>1, <2>1
<1>3. CASE DeleteContents(p) \/ DeleteMaterials(p)
  <2>1. /\ UNCHANGED stock
        /\ \E w : /\ work' = [work EXCEPT ![p] = w]
                  /\ w.op \in {"idle", "deleteMaterials", "deleteStage"}
    BY <1>1, <1>3 DEF DeleteContents, DeleteMaterials, Goto
  <2> QED BY <2>1
<1>4. CASE SaveRequest(p)
  <2>1. /\ UNCHANGED stock /\ work[p].op = "insertRequest"
        /\ \E w : work' = [work EXCEPT ![p] = w] /\ w.op \in {"idle", "insertTask"}
    BY <1>1, <1>4 DEF SaveRequest, Goto
  <2> QED BY <2>1
<1>5. CASE SaveReport(p)
  BY <1>5, ReportFacts DEF Reported
<1>6. CASE SaveDinary(p)
  <2> DEFINE k == work[p].k
             w == IF k \in diary THEN Idle ELSE SetStatusWork(k, "completed")
  <2>1. work' = [work EXCEPT ![p] = w] /\ UNCHANGED stock
    BY <1>6 DEF SaveDinary, Goto
  <2>2. w.op \in {"idle", "setStatus"}
    BY <1>1 DEF SetStatusWork
  <2> HIDE DEF w
  <2> QED BY <2>1, <2>2
<1>7. CASE SaveProcessRow(p)
  <2>1. work[p].edit \in Edit
    BY <1>1, <1>7, CultivationWorkFields DEF SaveProcessRow, SaveProcess
  <2>2. work[p].edit.op \in {"idle", "setQuantity", "deleteContents"}
    BY <2>1, CultivationWork
  <2>3. work' = [work EXCEPT ![p] = work[p].edit] /\ UNCHANGED stock
    BY <1>7 DEF SaveProcessRow, Goto
  <2> QED BY <2>2, <2>3
<1> QED BY <1>2, <1>3, <1>4, <1>5, <1>6, <1>7 DEF Continue

\* What a read of the loop leaves to p: the row of one stage, adjusted.
LEMMA ReadFacts ==
  ASSUME CultivationTypeInv, NEW p \in Process, ReadStock(p)
  PROVE  \E g \in work[p].left, w \in SaveRow :
           /\ work' = [work EXCEPT ![p] = w]
           /\ work[p] \in Adjust
           /\ w.left = work[p].left \ {g} /\ w.sign = work[p].sign
           /\ w.list = work[p].list /\ w.m = MaterialOf[g]
           /\ w.row = Adjusted(stock[w.m], w.m, w.sign * w.list[g])
           /\ w.sign * w.list[g] \in Int
<1> DEFINE u == work[p]
<1>1. u.op = "readStock" /\ u \in Adjust /\ TablesOK
  BY CultivationWorkAt, CultivationWorkFields DEF ReadStock
<1>2. /\ u.left \in SUBSET Stage /\ u.sign \in {-1, 1} /\ u.list \in Lists
      /\ u.next \in Stage \cup {"active"}
  BY <1>1 DEF Adjust
<1>3. PICK g \in u.left :
        Goto(p, [op |-> "saveStock", left |-> u.left \ {g}, sign |-> u.sign,
                 list |-> u.list, next |-> u.next, m |-> MaterialOf[g],
                 row |-> Adjusted(stock[MaterialOf[g]], MaterialOf[g],
                                  u.sign * u.list[g])])
  BY DEF ReadStock
<1> HIDE DEF u
<1> DEFINE m == MaterialOf[g]
           n == u.sign * u.list[g]
           row == Adjusted(stock[m], m, n)
           w == [op |-> "saveStock", left |-> u.left \ {g}, sign |-> u.sign,
                 list |-> u.list, next |-> u.next, m |-> m, row |-> row]
<1>4. g \in Stage /\ m \in Material /\ u.list[g] \in Int
  BY <1>2, CultivationAssumption DEF Lists
<1>5. n \in Int
  BY <1>2, <1>4, Signs
<1>6. stock[m] \in StockRow
  BY <1>1, <1>4 DEF TablesOK
<1> HIDE DEF m, n
<1>7. row \in StockRow
  BY <1>5, <1>6 DEF Adjusted, StockRow
<1> HIDE DEF row
<1>8. w \in SaveRow
  BY <1>2, <1>4, <1>7 DEF SaveRow
<1>9. work' = [work EXCEPT ![p] = w]
  BY <1>3 DEF Goto, row, n, m
<1>10. /\ w.left = u.left \ {g} /\ w.sign = u.sign /\ w.list = u.list /\ w.m = m
       /\ w.row = row
  OBVIOUS
<1> HIDE DEF w
<1> QED BY <1>1, <1>5, <1>8, <1>9, <1>10 DEF u, m, n, row

\* What a save of the loop writes, and leaves to p.
LEMMA SaveFacts ==
  ASSUME CultivationTypeInv, NEW p \in Process, SaveStock(p)
  PROVE  \E w \in Work :
           /\ work' = [work EXCEPT ![p] = w]
           /\ work[p] \in SaveRow
           /\ w.op \in {"readStock", "setActive", "setStatus"}
           /\ \A st, m : Pending(w, st, m)
                           = work[p].sign * Sum(work[p].list, work[p].left, m)
           /\ stock' = [stock EXCEPT ![work[p].m] = work[p].row]
<1> DEFINE u == work[p]
           w == LoopWork(u.left, u.sign, u.list, u.next)
<1>1. u \in SaveRow
  BY CultivationWorkAt, CultivationWorkFields DEF SaveStock
<1>2. /\ u.left \in SUBSET Stage /\ u.sign \in {-1, 1} /\ u.list \in Lists
      /\ u.next \in Stage \cup {"active"}
  BY <1>1 DEF SaveRow
<1>3. work' = [work EXCEPT ![p] = w] /\ stock' = [stock EXCEPT ![u.m] = u.row]
  BY DEF SaveStock, Goto
<1> HIDE DEF u
<1>4. /\ w \in Work /\ w.op \in {"readStock", "setActive", "setStatus"}
      /\ \A st, m : Pending(w, st, m) = u.sign * Sum(u.list, u.left, m)
  BY <1>2, LoopFacts
<1> HIDE DEF w
<1> QED BY <1>1, <1>3, <1>4 DEF u

LEMMA AdjustedIsOfAPiece ==
  ASSUME NEW m \in Material, NEW row \in StockRow, NEW n \in Int, OfAPiece(row, m)
  PROVE  OfAPiece(Adjusted(row, m, n), m)
<1>1. row.total \in Int /\ row.rented \in Int /\ Stock[m] \in Int
  BY CultivationAssumption DEF StockRow
<1> DEFINE new == Adjusted(row, m, n)
<1>2. /\ new.total = row.total + n
      /\ new.rented = IF m \in Rented THEN row.rented + n ELSE row.rented
      /\ new.status = IF row.total + n <= 0 THEN "out_of_stock" ELSE "available"
  BY DEF Adjusted
<1> HIDE DEF new
<1>3. new.status = "out_of_stock" <=> new.total <= 0
  BY <1>2
<1>4. CASE m \in Rented
  BY <1>1, <1>2, <1>3, <1>4 DEF OfAPiece, new
<1>5. CASE m \notin Rented
  BY <1>2, <1>3, <1>5 DEF OfAPiece, new
<1> QED BY <1>4, <1>5

LEMMA PieceStays ==
  ASSUME CultivationTypeInv, PieceInv, NEW p \in Process, NEW w,
         work' = work \/ work' = [work EXCEPT ![p] = w],
         w.op # "saveStock", UNCHANGED stock
  PROVE  PieceInv'
<1>1. work \in [Process -> Work]
  BY TypeIsTables DEF CultivationTypeInv
<1> QED BY <1>1 DEF PieceInv

LEMMA NextKeepsPieces ==
  ASSUME CultivationTypeInv, PieceInv, [Next]_vars
  PROVE  PieceInv'
<1>1. work \in [Process -> Work] /\ TablesOK
  BY TypeIsTables DEF CultivationTypeInv
<1>2. ASSUME NEW c \in Call, Arrive(c)
      PROVE  PieceInv'
  <2>1. PICK w \in Work : Arrived(c, w)
    BY <1>2, ArriveIsArrival
  <2>2. c \in Process
    BY DEF Process
  <2> QED BY <2>1, <2>2, PieceStays DEF Arrived, tables
<1>3. ASSUME NEW p \in Process, ReadStock(p)
      PROVE  PieceInv'
  <2>1. PICK g \in work[p].left, w \in SaveRow :
          /\ work' = [work EXCEPT ![p] = w]
          /\ w.row = Adjusted(stock[w.m], w.m, w.sign * w.list[g])
          /\ w.sign * w.list[g] \in Int
    BY <1>3, ReadFacts
  <2>2. w.m \in Material
    BY DEF SaveRow
  <2>3. stock[w.m] \in StockRow /\ OfAPiece(stock[w.m], w.m)
    BY <1>1, <2>2 DEF TablesOK, PieceInv
  <2>4. OfAPiece(w.row, w.m)
    BY <2>1, <2>2, <2>3, AdjustedIsOfAPiece
  <2>5. UNCHANGED stock
    BY <1>3 DEF ReadStock, tables
  <2> QED BY <1>1, <2>1, <2>4, <2>5 DEF PieceInv
<1>4. ASSUME NEW p \in Process, SaveStock(p)
      PROVE  PieceInv'
  <2>1. PICK w \in Work :
          /\ work' = [work EXCEPT ![p] = w]
          /\ w.op \in {"readStock", "setActive", "setStatus"}
          /\ stock' = [stock EXCEPT ![work[p].m] = work[p].row]
    BY <1>4, SaveFacts
  <2>2. OfAPiece(work[p].row, work[p].m)
    BY <1>4 DEF SaveStock, PieceInv
  <2>3. stock \in [Material -> StockRow]
    BY <1>1 DEF TablesOK
  <2>4. \A m \in Material : OfAPiece(stock'[m], m)
    BY <2>1, <2>2, <2>3 DEF PieceInv
  <2>5. \A q \in Process : work'[q].op = "saveStock" => OfAPiece(work'[q].row, work'[q].m)
    BY <1>1, <2>1 DEF PieceInv
  <2> QED BY <2>4, <2>5 DEF PieceInv
<1>5. ASSUME NEW p \in Process, Continue(p) \/ Fail(p)
      PROVE  PieceInv'
  BY <1>3, <1>4, <1>5, OthersKeepStock, PieceStays
<1>6. CASE JobStep
  <2>1. /\ UNCHANGED stock
        /\ \E w : /\ work' = work \/ work' = [work EXCEPT ![Job] = w]
                  /\ w.op \in {"idle", "insertRequest"}
    BY <1>6, CultivationWork
       DEF JobStep, CheckAndCreateTaskProcessContentForExpert,
           CheckNewStageProcessSpecific, CreateRequest, EndOfJob, tables, Goto
  <2>2. Job \in Process
    BY DEF Process
  <2> QED BY <2>1, <2>2, PieceStays
<1>7. CASE UNCHANGED vars
  BY <1>7 DEF vars, tables, PieceInv
<1> QED BY <1>2, <1>5, <1>6, <1>7 DEF Next, JobStep

-----------------------------------------------------------------------------
\* Who moves, when calls do not overlap.
Mover(p) ==
  /\ \A q \in Process \ {p} : work[q] = Idle
  /\ p = Job \/ phase = "idle"

LEMMA InFlightIsMover ==
  ASSUME OneAtATime, NEW p \in Process, work[p].op # "idle"
  PROVE  Mover(p)
<1>1. work[p] # Idle
  BY CultivationWork
<1>2. \A q \in Process \ {p} : work[q] = Idle
  BY <1>1 DEF OneAtATime
<1>3. p = Job \/ phase = "idle"
  BY <1>1 DEF OneAtATime, Process
<1> QED BY <1>2, <1>3 DEF Mover

LEMMA ArrivalIsMover ==
  ASSUME serial, NEW c \in Call, NEW w, Arrived(c, w)
  PROVE  c \in Process /\ c # Job /\ Mover(c) /\ Quiet
BY CultivationJobAssumption DEF Arrived, MayStart, Mover, Quiet, Process

LEMMA JobIsMover ==
  ASSUME serial, OneAtATime, JobStep
  PROVE  Job \in Process /\ work[Job] = Idle /\ Mover(Job)
<1>1. Job \in Process
  BY DEF Process
<1>2. work[Job] = Idle
  BY DEF JobStep, CheckAndCreateTaskProcessContentForExpert, CheckNewStageProcessSpecific,
         CreateRequest, EndOfJob
<1>3. \A c \in Call : work[c] = Idle
  BY DEF OneAtATime, JobStep, CheckAndCreateTaskProcessContentForExpert, Process,
         CheckNewStageProcessSpecific, CreateRequest, EndOfJob, MayStart, Quiet
<1> QED BY <1>1, <1>2, <1>3 DEF Mover, Process

\* A step of p that leaves it w.
LEMMA MoverIsAlone ==
  ASSUME CultivationTypeInv, OneAtATime, NEW p \in Process, Mover(p), NEW w,
         work' = work \/ work' = [work EXCEPT ![p] = w],
         w.op \in {"insertRequest", "insertTask"} => p = Job,
         p = Job \/ phase' = "idle", phase' = "idle" => visits' = {}
  PROVE  OneAtATime'
<1>1. work \in [Process -> Work] /\ Job \notin Call
  BY TypeIsTables, CultivationJobAssumption DEF CultivationTypeInv
<1>2. \A q \in Process \ {p} : work'[q] = Idle
  BY <1>1 DEF Mover
<1>3. work'[p] = w \/ work'[p] = work[p]
  BY <1>1
<1>4. \A c \in Call : c \in Process
  BY DEF Process
<1>5. \A c \in Call : work'[c].op \notin {"insertRequest", "insertTask"}
  <2>1. \A c \in Call \ {p} : work'[c].op = "idle"
    BY <1>2, <1>4, CultivationWork
  <2> QED BY <1>1, <1>3, <2>1 DEF OneAtATime
<1> QED BY <1>1, <1>2, <1>4, <1>5 DEF OneAtATime

\* The mover keeps the status, and saves a row as it is.
LEMMA MoverKeepsStatus ==
  ASSUME CultivationTypeInv, ActiveSince, NEW p \in Process, NEW w,
         work' = work \/ work' = [work EXCEPT ![p] = w],
         w.op = "saveProcess" => w.status = status,
         UNCHANGED <<status, begun>>, now' = now \/ now' = now + 1
  PROVE  ActiveSince'
<1>1. work \in [Process -> Work] /\ now \in Nat /\ begun \in Nat \cup {Never}
  BY TypeIsTables DEF CultivationTypeInv, TablesOK
<1>2. begun # Never => status = "active" /\ begun <= now'
  BY <1>1 DEF ActiveSince, Never
<1>3. \A q \in Process : work'[q] = work[q] \/ (q = p /\ work'[q] = w)
  BY <1>1
<1> QED BY <1>2, <1>3 DEF ActiveSince

\* The store is even, when it is for the mover.
LEMMA MoverIsEven ==
  ASSUME CultivationTypeInv, NEW p \in Process, Mover(p), NEW w,
         work' = [work EXCEPT ![p] = w], Even(w, stock', owed')
  PROVE  StoreEven'
<1>1. work \in [Process -> Work]
  BY TypeIsTables DEF CultivationTypeInv
<1>2. work'[p] = w /\ \A q \in Process \ {p} : work'[q] = Idle
  BY <1>1 DEF Mover
<1> QED BY <1>2 DEF StoreEven

\* Most steps leave nothing pending, and the store as it was.
LEMMA MoverStaysEven ==
  ASSUME CultivationTypeInv, StoreEven, NEW p \in Process, Mover(p), NEW w,
         work' = work \/ work' = [work EXCEPT ![p] = w],
         work[p].op \notin {"readStock", "saveStock"},
         w.op \notin {"readStock", "saveStock"},
         UNCHANGED <<stock, owed>>
  PROVE  StoreEven'
<1>1. Even(work[p], stock, owed)
  BY DEF StoreEven, Mover
<1>2. \A m : Pending(w, stock, m) = 0 /\ Pending(work[p], stock, m) = 0
  BY DEF Pending
<1>3. Even(w, stock', owed')
  BY <1>1, <1>2 DEF Even
<1>4. CASE work' = work
  BY <1>4 DEF StoreEven
<1> QED BY <1>3, <1>4, MoverIsEven

\* What w is begun with is owed.
LEMMA BegunIsEven ==
  ASSUME CultivationTypeInv, NEW w \in Work,
         \A m \in Material : stock[m].total = Stock[m] - owed[m],
         \A m \in Material : owed'[m] = owed[m] - Pending(w, stock, m),
         owed' \in [Material -> Int], UNCHANGED stock,
         w.op \in {"readStock", "saveStock"} => w \in Adjust
  PROVE  Even(w, stock', owed')
<1>1. owed \in [Material -> Int] /\ Stock \in [Material -> Int]
  BY TypeIsTables, CultivationAssumption DEF CultivationTypeInv, TablesOK
<1>2. \A m \in Material : Pending(w, stock, m) \in Int
  <2>1. CASE w \in Adjust
    <3>1. /\ w.op = "readStock" /\ w.sign \in {-1, 1} /\ w.list \in Lists
          /\ w.left \in SUBSET Stage
      BY <2>1 DEF Adjust
    <3>2. \A m : w.sign * Sum(w.list, w.left, m) \in Int
      BY <3>1, SumOfStages, Signs
    <3> QED BY <3>1, <3>2 DEF Pending
  <2>2. CASE w.op \notin {"readStock", "saveStock"}
    BY <2>2 DEF Pending
  <2> QED BY <2>1, <2>2
<1>3. ASSUME NEW m \in Material
      PROVE  stock[m].total + Pending(w, stock, m) = Stock[m] - owed'[m]
  <2>1. Pending(w, stock, m) \in Int /\ owed[m] \in Int /\ Stock[m] \in Int
    BY <1>1, <1>2
  <2>2. stock[m].total = Stock[m] - owed[m] /\ owed'[m] = owed[m] - Pending(w, stock, m)
    OBVIOUS
  <2> QED BY <2>1, <2>2
<1> QED BY <1>3 DEF Even

\* A read moves the number of one stage from what is left to the row.
LEMMA ReadIsEven ==
  ASSUME CultivationTypeInv, NEW p \in Process, ReadStock(p), Mover(p), StoreEven
  PROVE  StoreEven'
<1> DEFINE u == work[p]
<1>1. PICK g \in u.left, w \in SaveRow :
        /\ work' = [work EXCEPT ![p] = w]
        /\ u \in Adjust
        /\ w.left = u.left \ {g} /\ w.sign = u.sign
        /\ w.list = u.list /\ w.m = MaterialOf[g]
        /\ w.row = Adjusted(stock[w.m], w.m, w.sign * w.list[g])
        /\ w.sign * w.list[g] \in Int
  BY ReadFacts
<1>2. UNCHANGED <<stock, owed>> /\ stock \in [Material -> StockRow]
  BY CultivationWorkAt DEF ReadStock, tables, history, TablesOK
<1>3. Even(u, stock, owed)
  BY DEF StoreEven, Mover
<1> HIDE DEF u
<1>4. /\ u.left \in SUBSET Stage /\ u.sign \in {-1, 1} /\ u.list \in Lists
      /\ u.op = "readStock" /\ w.op = "saveStock"
  BY <1>1 DEF Adjust, SaveRow
<1>5. ASSUME NEW m \in Material
      PROVE  Pending(w, stock, m) = Pending(u, stock, m)
  <2> DEFINE n == IF MaterialOf[g] = m THEN u.list[g] ELSE 0
             rest == Sum(u.list, u.left \ {g}, m)
  <2>1. n \in Int /\ rest \in Int /\ Sum(u.list, u.left, m) = n + rest
    <3>1. u.left \ {g} \in SUBSET Stage /\ g \in Stage
      BY <1>1, <1>4
    <3>2. rest \in Int
      BY <1>4, <3>1, SumOfStages
    <3>3. \A list \in Lists, gs \in SUBSET Stage : \A h \in gs :
            Sum(list, gs, m) = (IF MaterialOf[h] = m THEN list[h] ELSE 0) + Sum(list, gs \ {h}, m)
      BY SumOfStages
    <3>4. n \in Int
      BY <1>4, <3>1 DEF Lists
    <3>5. Sum(u.list, u.left, m) = n + rest
      BY <1>1, <1>4, <3>3
    <3> QED BY <3>2, <3>4, <3>5
  <2>2. Pending(u, stock, m) = u.sign * Sum(u.list, u.left, m)
    BY <1>4 DEF Pending
  <2>3. Pending(w, stock, m)
          = (IF w.m = m THEN w.row.total - stock[m].total ELSE 0) + u.sign * rest
    BY <1>1, <1>4 DEF Pending
  <2>4. (IF w.m = m THEN w.row.total - stock[m].total ELSE 0) = u.sign * n
    <3>1. CASE MaterialOf[g] = m
      <4>1. w.row.total = stock[m].total + u.sign * n
        BY <1>1, <3>1 DEF Adjusted
      <4>2. u.sign * n \in Int
        BY <1>4, <2>1, Signs
      <4>3. stock[m].total \in Int
        BY <1>2 DEF StockRow
      <4> QED BY <1>1, <3>1, <4>1, <4>2, <4>3
    <3>2. CASE MaterialOf[g] # m
      <4>1. u.sign * 0 = 0
        BY <1>4, Signs
      <4> QED BY <1>1, <3>2, <4>1
    <3> QED BY <3>1, <3>2
  <2> HIDE DEF n, rest
  <2>5. u.sign * (n + rest) = u.sign * n + u.sign * rest
    BY <1>4, <2>1, Signs
  <2> QED BY <2>1, <2>2, <2>3, <2>4, <2>5
<1>6. Even(w, stock', owed')
  BY <1>2, <1>3, <1>5 DEF Even
<1> QED BY <1>1, <1>6, MoverIsEven

\* A save moves it from the row to the store.
LEMMA SaveIsEven ==
  ASSUME CultivationTypeInv, NEW p \in Process, SaveStock(p), Mover(p), StoreEven
  PROVE  StoreEven'
<1> DEFINE u == work[p]
<1>1. PICK w \in Work :
        /\ work' = [work EXCEPT ![p] = w]
        /\ u \in SaveRow
        /\ w.op \in {"readStock", "setActive", "setStatus"}
        /\ \A st, m : Pending(w, st, m) = u.sign * Sum(u.list, u.left, m)
        /\ stock' = [stock EXCEPT ![u.m] = u.row]
  BY SaveFacts
<1>2. /\ UNCHANGED owed /\ stock \in [Material -> StockRow]
      /\ owed \in [Material -> Int] /\ Stock \in [Material -> Int]
  BY CultivationWorkAt, CultivationAssumption DEF SaveStock, history, TablesOK
<1>3. Even(u, stock, owed)
  BY DEF StoreEven, Mover
<1> HIDE DEF u
<1>4. /\ u.left \in SUBSET Stage /\ u.sign \in {-1, 1} /\ u.list \in Lists
      /\ u.m \in Material /\ u.row \in StockRow /\ u.op = "saveStock"
  BY <1>1 DEF SaveRow
<1>5. ASSUME NEW m \in Material
      PROVE  stock'[m].total + Pending(w, stock', m) = Stock[m] - owed'[m]
  <2> DEFINE rest == u.sign * Sum(u.list, u.left, m)
  <2>1. rest \in Int
    BY <1>4, SumOfStages, Signs
  <2>2. Pending(w, stock', m) = rest
    BY <1>1
  <2>3. Pending(u, stock, m)
          = (IF u.m = m THEN u.row.total - stock[m].total ELSE 0) + rest
    BY <1>4 DEF Pending
  <2>4. stock'[m] = IF u.m = m THEN u.row ELSE stock[m]
    BY <1>1, <1>2
  <2>5. stock[m].total \in Int /\ u.row.total \in Int
    BY <1>2, <1>4 DEF StockRow
  <2>6. stock[m].total + Pending(u, stock, m) = Stock[m] - owed[m]
    BY <1>3 DEF Even
  <2> HIDE DEF rest
  <2> QED BY <1>2, <2>1, <2>2, <2>3, <2>4, <2>5, <2>6
<1>6. Even(w, stock', owed')
  BY <1>5 DEF Even
<1> QED BY <1>1, <1>6, MoverIsEven

LEMMA ReportIsEven ==
  ASSUME CultivationTypeInv, NEW p \in Process, SaveReport(p), Mover(p), StoreEven,
         serial, accidents = 0
  PROVE  StoreEven'
<1>1. PICK w \in Work : Reported(p, w)
  BY ReportFacts
<1>2. Even(work[p], stock, owed) /\ work[p].op = "saveReport"
  BY <1>1 DEF StoreEven, Mover, Reported
<1>3. /\ stock \in [Material -> StockRow] /\ owed \in [Material -> Int]
      /\ Stock \in [Material -> Int]
  BY CultivationWorkAt, CultivationAssumption DEF TablesOK
<1>4. ASSUME NEW m \in Material
      PROVE  stock[m].total = Stock[m] - owed[m]
  <2>1. stock[m].total + 0 = Stock[m] - owed[m]
    BY <1>2 DEF Even, Pending
  <2>2. stock[m].total \in Int
    BY <1>3 DEF StockRow
  <2> QED BY <2>1, <2>2
<1>5. w.op \in {"readStock", "saveStock"} => w \in Adjust
  BY <1>1, CultivationWorkFields DEF Reported
<1>6. /\ UNCHANGED stock /\ owed' \in [Material -> Int]
      /\ \A m \in Material : owed'[m] = owed[m] - Pending(w, stock, m)
  BY <1>1 DEF Reported
<1>7. Even(w, stock', owed')
  BY <1>4, <1>5, <1>6, BegunIsEven
<1> QED BY <1>1, <1>7, MoverIsEven DEF Reported

LEMMA ArrivalIsEven ==
  ASSUME CultivationTypeInv, NEW c \in Call, Arrive(c), StoreEven, serial, accidents = 0
  PROVE  StoreEven'
<1>1. PICK w \in Work : Arrived(c, w)
  BY ArriveIsArrival
<1>2. c \in Process /\ Mover(c) /\ work[c] = Idle
  BY <1>1, ArrivalIsMover DEF Arrived
<1>3. Even(Idle, stock, owed)
  BY <1>2 DEF StoreEven, Mover
<1>4. /\ stock \in [Material -> StockRow] /\ owed \in [Material -> Int]
      /\ Stock \in [Material -> Int]
  BY <1>2, CultivationWorkAt, CultivationAssumption DEF TablesOK
<1>5. ASSUME NEW m \in Material
      PROVE  stock[m].total = Stock[m] - owed[m]
  <2>1. stock[m].total + 0 = Stock[m] - owed[m]
    BY <1>3, CultivationWork DEF Even, Pending
  <2>2. stock[m].total \in Int
    BY <1>4 DEF StockRow
  <2> QED BY <2>1, <2>2
<1>6. w.op \in {"readStock", "saveStock"} => w \in Adjust
  BY <1>1, CultivationWorkFields DEF Arrived
<1>7. /\ UNCHANGED stock /\ owed' \in [Material -> Int]
      /\ \A m \in Material : owed'[m] = owed[m] - Pending(w, stock, m)
      /\ work' = [work EXCEPT ![c] = w]
  BY <1>1 DEF Arrived, tables
<1>8. Even(w, stock', owed')
  BY <1>5, <1>6, <1>7, BegunIsEven
<1> QED BY <1>2, <1>7, <1>8, MoverIsEven

\* What every step of a call in flight has in common.
LEMMA ContinueFacts ==
  ASSUME CultivationTypeInv, NEW p \in Process, Continue(p)
  PROVE  /\ work[p].op # "idle"
         /\ UNCHANGED <<phase, visits, now, accidents, serial>>
         /\ \E w : /\ work' = [work EXCEPT ![p] = w]
                   /\ w.op \notin {"saveProcess", "insertRequest"}
                   /\ w.op = "insertTask" => work[p].op = "insertRequest"
<1>1. work[p].op # "idle"
  BY DEF Continue, ReadStock, SaveStock, SetStatusActive, SaveRequest, CreateTaskAuto,
         SaveReport, UpdateRequestStatus, SaveDinary, SaveProcessRow, SetQuantity,
         DeleteContents, DeleteMaterials, DeleteStage
<1>2. UNCHANGED <<phase, visits, now, accidents, serial>>
  BY DEF Continue, ReadStock, SaveStock, SetStatusActive, SaveRequest, CreateTaskAuto,
         SaveReport, UpdateRequestStatus, SaveDinary, SaveProcessRow, SetQuantity,
         DeleteContents, DeleteMaterials, DeleteStage
<1>3. CASE ReadStock(p)
  <2>1. PICK w \in SaveRow : work' = [work EXCEPT ![p] = w]
    BY <1>3, ReadFacts
  <2>2. w.op = "saveStock"
    BY DEF SaveRow
  <2> QED BY <1>1, <1>2, <2>1, <2>2
<1>4. CASE SaveStock(p)
  <2>1. PICK w \in Work : /\ work' = [work EXCEPT ![p] = w]
                          /\ w.op \in {"readStock", "setActive", "setStatus"}
    BY <1>4, SaveFacts
  <2> QED BY <1>1, <1>2, <2>1
<1>5. CASE ~ReadStock(p) /\ ~SaveStock(p)
  BY <1>1, <1>2, <1>5, OthersKeepStock
<1> QED BY <1>3, <1>4, <1>5

LEMMA ContinueIsAlone ==
  ASSUME CultivationTypeInv, OneAtATime, NEW p \in Process, Continue(p)
  PROVE  OneAtATime'
<1>1. PICK w : /\ work' = [work EXCEPT ![p] = w]
               /\ w.op \notin {"saveProcess", "insertRequest"}
               /\ w.op = "insertTask" => work[p].op = "insertRequest"
  BY ContinueFacts
<1>2. work[p].op # "idle" /\ UNCHANGED <<phase, visits>>
  BY ContinueFacts
<1>3. Mover(p)
  BY <1>2, InFlightIsMover
<1>4. w.op \in {"insertRequest", "insertTask"} => p = Job
  BY <1>1 DEF OneAtATime, Process
<1>5. (p = Job \/ phase' = "idle") /\ (phase' = "idle" => visits' = {})
  BY <1>2, <1>3 DEF Mover, OneAtATime
<1> QED BY <1>1, <1>3, <1>4, <1>5, MoverIsAlone

LEMMA ContinueKeepsStatus ==
  ASSUME CultivationTypeInv, OneAtATime, ActiveSince, NEW p \in Process, Continue(p)
  PROVE  ActiveSince'
<1>1. PICK w : /\ work' = [work EXCEPT ![p] = w]
               /\ w.op \notin {"saveProcess", "insertRequest"}
  BY ContinueFacts
<1>2. work[p].op # "idle" /\ UNCHANGED now
  BY ContinueFacts
<1>3. Mover(p)
  BY <1>2, InFlightIsMover
<1>4. CASE SetStatusActive(p)
  <2>1. /\ status' = "active" /\ begun' = IF begun = Never THEN now ELSE begun
        /\ work' = [work EXCEPT ![p] = Idle]
    BY <1>4 DEF SetStatusActive, Goto
  <2>2. now \in Nat /\ begun \in Nat \cup {Never} /\ work \in [Process -> Work]
    BY TypeIsTables DEF CultivationTypeInv, TablesOK
  <2>3. begun' <= now'
    BY <1>2, <2>1, <2>2 DEF ActiveSince, Never
  <2>4. \A q \in Process : work'[q].op = "idle"
    BY <1>3, <2>1, <2>2, CultivationWork DEF Mover
  <2> QED BY <2>1, <2>3, <2>4 DEF ActiveSince
<1>5. CASE ~SetStatusActive(p)
  <2>1. UNCHANGED begun
    BY <1>5 DEF Continue, ReadStock, SaveStock, SaveRequest, CreateTaskAuto, SaveReport,
                UpdateRequestStatus, SaveDinary, SaveProcessRow, SetQuantity,
                DeleteContents, DeleteMaterials, DeleteStage, history, tables
  <2>2. UNCHANGED status
    BY <1>5 DEF Continue, ReadStock, SaveStock, SaveRequest, CreateTaskAuto, SaveReport,
                UpdateRequestStatus, SaveDinary, SaveProcessRow, SetQuantity, tables,
                DeleteContents, DeleteMaterials, DeleteStage, ActiveSince
  <2> QED BY <1>1, <1>2, <2>1, <2>2, MoverKeepsStatus
<1> QED BY <1>4, <1>5

LEMMA ContinueKeepsEven ==
  ASSUME CultivationTypeInv, OneAtATime, StoreEven, serial, accidents = 0,
         NEW p \in Process, Continue(p)
  PROVE  StoreEven'
<1>1. Mover(p)
  BY ContinueFacts, InFlightIsMover
<1>2. CASE ~ReadStock(p) /\ ~SaveStock(p) /\ ~SaveReport(p)
  <2>1. PICK w : /\ work' = [work EXCEPT ![p] = w]
                 /\ w.op \notin {"readStock", "saveStock"}
    BY <1>2, OthersKeepStock
  <2>2. UNCHANGED owed
    BY <1>2 DEF Continue, SetStatusActive, SaveRequest, CreateTaskAuto,
                UpdateRequestStatus, SaveDinary, SaveProcessRow, SetQuantity,
                DeleteContents, DeleteMaterials, DeleteStage, history
  <2>3. work[p].op \notin {"readStock", "saveStock"}
    BY <1>2 DEF Continue, SetStatusActive, SaveRequest, CreateTaskAuto,
                UpdateRequestStatus, SaveDinary, SaveProcessRow, SetQuantity,
                DeleteContents, DeleteMaterials, DeleteStage
  <2>4. UNCHANGED stock
    BY <1>2, OthersKeepStock
  <2> QED BY <1>1, <2>1, <2>2, <2>3, <2>4, MoverStaysEven
<1> QED BY <1>1, <1>2, ReadIsEven, SaveIsEven, ReportIsEven

\* A step of one that makes no request, and asks for no work.
LEMMA RequestsStay ==
  ASSUME CultivationTypeInv, TasksMade, DueAsked, NEW p \in Process, NEW w,
         work[p].op \notin {"insertRequest", "insertTask"},
         work' = [work EXCEPT ![p] = w], UNCHANGED <<task, phase, visits>>,
         \A i \in Item : request'[i] # "none" => request[i] # "none",
         \A k \in Content : Due(k, begun', now') => Due(k, begun, now),
         stages' \subseteq stages
  PROVE  TasksMade' /\ DueAsked'
<1>1. work \in [Process -> Work] /\ Job \in Process
  BY TypeIsTables DEF CultivationTypeInv, Process
<1>2. work[Job].op \in {"insertRequest", "insertTask"} => work'[Job] = work[Job]
  BY <1>1
<1>3. TasksMade'
  BY <1>2 DEF TasksMade
<1>4. DueAsked'
  <2> SUFFICES ASSUME NEW k \in Content \cap stages', Due(k, begun', now')
               PROVE  k \in task' \/ (phase' = "contents" /\ k \in visits')
                        \/ AtWork(work'[Job], k)
    BY DEF DueAsked
  <2>1. k \in Content \cap stages /\ Due(k, begun, now)
    OBVIOUS
  <2>2. k \in task \/ (phase = "contents" /\ k \in visits) \/ AtWork(work[Job], k)
    BY <2>1 DEF DueAsked
  <2> QED BY <1>2, <2>2 DEF AtWork
<1> QED BY <1>3, <1>4

LEMMA ContinueKeepsTasks ==
  ASSUME CultivationTypeInv, OneAtATime, TasksMade, DueAsked, NEW p \in Process, Continue(p)
  PROVE  TasksMade' /\ DueAsked'
<1> DEFINE i == work[p].i
<1>1. PICK w : work' = [work EXCEPT ![p] = w]
  BY ContinueFacts
<1>2. work \in [Process -> Work] /\ TablesOK /\ Job \in Process
  BY TypeIsTables DEF CultivationTypeInv, Process
<1>3. work[p] \in Work /\ Refers(work[p], request, task)
  BY CultivationWorkAt
<1>4. UNCHANGED <<phase, visits, now>>
  BY ContinueFacts
<1>5. ASSUME work[p].op \in {"insertRequest", "insertTask"}
      PROVE  p = Job /\ i \in Item
  BY <1>3, <1>5, CultivationWorkFields DEF OneAtATime, Process, OnItem
<1>6. CASE SaveRequest(p)
  <2>1. work[p].op = "insertRequest" /\ UNCHANGED <<stages, task, begun>>
    BY <1>6 DEF SaveRequest, history
  <2>2. p = Job /\ i \in Item
    BY <1>5, <2>1
  <2>3. \A j \in Item : request[j] # "none" => j \in task
    BY <2>1, <2>2 DEF TasksMade
  <2>4. CASE i \in stages
    <3> DEFINE v == [op |-> "insertTask", i |-> i]
    <3>1. request' = [request EXCEPT ![i] = "assigned"] /\ work' = [work EXCEPT ![p] = v]
      BY <1>6, <2>4 DEF SaveRequest, Goto
    <3>2. v.op = "insertTask" /\ v.i = i
      OBVIOUS
    <3> HIDE DEF v, i
    <3>3. work'[Job] = v
      BY <1>2, <2>2, <3>1
    <3>4. \A j \in Item \ {i} : request'[j] = request[j]
      BY <1>2, <2>2, <3>1 DEF TablesOK
    <3>5. TasksMade'
      BY <2>1, <2>3, <3>2, <3>3, <3>4 DEF TasksMade
    <3>6. \A k : AtWork(work[Job], k) => AtWork(work'[Job], k)
      BY <2>2, <3>2, <3>3 DEF AtWork, i
    <3>7. DueAsked'
      BY <1>4, <2>1, <3>6 DEF DueAsked
    <3> QED BY <3>5, <3>7
  <2>5. CASE i \notin stages
    <3>1. UNCHANGED request
      BY <1>6, <2>5 DEF SaveRequest
    <3>2. TasksMade'
      BY <2>1, <2>3, <3>1 DEF TasksMade
    <3>3. \A k \in stages : ~AtWork(work[Job], k)
      BY <2>2, <2>5 DEF AtWork
    <3>4. DueAsked'
      BY <1>4, <2>1, <3>3 DEF DueAsked
    <3> QED BY <3>2, <3>4
  <2> QED BY <2>4, <2>5
<1>7. CASE CreateTaskAuto(p)
  <2>1. /\ work[p].op = "insertTask" /\ task' = task \cup {i}
        /\ UNCHANGED <<stages, request, begun>>
    BY <1>7 DEF CreateTaskAuto, history
  <2>2. p = Job
    BY <1>5, <2>1
  <2>3. TasksMade'
    BY <2>1, <2>2 DEF TasksMade
  <2>4. DueAsked'
    BY <1>4, <2>1, <2>2 DEF DueAsked, AtWork
  <2> QED BY <2>3, <2>4
<1>8. CASE SetStatusActive(p)
  <2>1. /\ work[p].op = "setActive" /\ begun' = IF begun = Never THEN now ELSE begun
        /\ UNCHANGED <<stages, request, task>>
    BY <1>8 DEF SetStatusActive
  <2>2. \A k \in Content : Begin[k] \in Nat
    BY CultivationAssumption DEF Item
  <2>3. \A k \in Content : Due(k, begun', now') => Due(k, begun, now)
    BY <1>2, <1>4, <2>1, <2>2 DEF Due, TablesOK
  <2> QED BY <1>1, <1>4, <2>1, <2>3, RequestsStay
<1>9. CASE UpdateRequestStatus(p)
  <2>1. /\ work[p].op = "setStatus" /\ request' = [request EXCEPT ![i] = work[p].to]
        /\ UNCHANGED <<stages, task, begun>>
    BY <1>9 DEF UpdateRequestStatus
  <2>2. i \in Item /\ request[i] # "none"
    BY <1>3, <2>1, CultivationWorkFields DEF SetStatusTo, Refers
  <2> HIDE DEF i
  <2>3. \A j \in Item : request'[j] # "none" => request[j] # "none"
    BY <1>2, <2>1, <2>2 DEF TablesOK
  <2> QED BY <1>1, <1>4, <2>1, <2>3, RequestsStay
<1>10. CASE \/ ReadStock(p) \/ SaveStock(p) \/ SaveReport(p) \/ SaveDinary(p)
            \/ SaveProcessRow(p) \/ SetQuantity(p)
            \/ DeleteContents(p) \/ DeleteMaterials(p) \/ DeleteStage(p)
  <2>1. /\ work[p].op \notin {"insertRequest", "insertTask"}
        /\ UNCHANGED <<request, task, begun>> /\ stages' \subseteq stages
    BY <1>10 DEF ReadStock, SaveStock, SaveReport, SaveDinary, SaveProcessRow, SetQuantity,
                 DeleteContents, DeleteMaterials, DeleteStage, tables, history
  <2> QED BY <1>1, <1>4, <2>1, RequestsStay
<1> QED BY <1>6, <1>7, <1>8, <1>9, <1>10 DEF Continue

\* At five the contents that are due tomorrow are listed, and the list is gone through
\* before the stages are.
LEMMA JobKeepsTasks ==
  ASSUME CultivationTypeInv, OneAtATime, ActiveSince, TasksMade, DueAsked, serial, JobStep
  PROVE  TasksMade' /\ DueAsked'
<1>1. Job \in Process /\ work[Job] = Idle /\ Idle.op = "idle"
  BY JobIsMover, CultivationWork
<1>2. /\ work \in [Process -> Work] /\ now \in Nat
      /\ \A k \in Content : Begin[k] \in Nat /\ k \in Item
  BY TypeIsTables, CultivationAssumption DEF CultivationTypeInv, TablesOK, Item
<1>3. UNCHANGED <<stages, request, task, begun>>
  BY DEF JobStep, CheckAndCreateTaskProcessContentForExpert, CheckNewStageProcessSpecific,
         CreateRequest, EndOfJob, tables, history
<1>4. \A j \in Item : request[j] # "none" => j \in task
  BY <1>1 DEF TasksMade
<1>5. TasksMade'
  BY <1>3, <1>4 DEF TasksMade
<1>6. ASSUME NEW k \in Content \cap stages, Due(k, begun, now)
      PROVE  k \in task \/ (phase = "contents" /\ k \in visits)
  BY <1>1, <1>6 DEF DueAsked, AtWork
<1>7. ASSUME NEW k \in Content \cap stages, Due(k, begun, now')
      PROVE  k \in task \/ (phase' = "contents" /\ k \in visits') \/ AtWork(work'[Job], k)
  <2>1. CASE CheckAndCreateTaskProcessContentForExpert
    <3>1. /\ phase = "idle" /\ phase' = "contents" /\ now' = now + 1
          /\ visits' = {j \in Content \cap stages : Begin[j] = now' + 1 /\ status = "active"}
      BY <2>1 DEF CheckAndCreateTaskProcessContentForExpert
    <3>2. CASE Due(k, begun, now)
      BY <1>6, <3>1, <3>2
    <3>3. CASE ~Due(k, begun, now)
      <4>1. Begin[k] = now' + 1 /\ begun # Never
        BY <1>2, <1>7, <3>1, <3>3 DEF Due
      <4>2. status = "active"
        BY <4>1 DEF ActiveSince
      <4> QED BY <3>1, <4>1, <4>2
    <3> QED BY <3>2, <3>3
  <2>2. CASE CheckNewStageProcessSpecific \/ EndOfJob
    <3>1. now' = now /\ (phase = "contents" => visits = {})
      BY <2>2 DEF CheckNewStageProcessSpecific, EndOfJob
    <3> QED BY <1>6, <1>7, <3>1
  <2>3. CASE CreateRequest
    <3>1. PICK i \in visits :
            /\ visits' = visits \ {i}
            /\ IF request[i] = "none"
               THEN Goto(Job, [op |-> "insertRequest", i |-> i])
               ELSE UNCHANGED work
      BY <2>3 DEF CreateRequest
    <3>2. UNCHANGED <<phase, now>>
      BY <2>3 DEF CreateRequest
    <3>3. CASE k = i /\ request[i] = "none"
      <4> DEFINE w == [op |-> "insertRequest", i |-> i]
      <4>1. work'[Job] = w
        BY <1>1, <1>2, <3>1, <3>3 DEF Goto
      <4>2. w.op = "insertRequest" /\ w.i = k
        BY <3>3
      <4> HIDE DEF w
      <4> QED BY <4>1, <4>2 DEF AtWork
    <3>4. CASE k = i /\ request[i] # "none"
      BY <1>2, <1>4, <3>4
    <3>5. CASE k # i
      BY <1>6, <1>7, <3>1, <3>2, <3>5
    <3> QED BY <3>3, <3>4, <3>5
  <2> QED BY <2>1, <2>2, <2>3 DEF JobStep
<1>8. DueAsked'
  BY <1>3, <1>7 DEF DueAsked
<1> QED BY <1>5, <1>8

LEMMA ArriveKeepsSerial ==
  ASSUME CultivationTypeInv, serial, OneAtATime, ActiveSince, NEW c \in Call, Arrive(c)
  PROVE  /\ OneAtATime' /\ ActiveSince' /\ UNCHANGED accidents
         /\ SmoothInv /\ accidents = 0 => SmoothInv'
<1>1. PICK w \in Work : Arrived(c, w)
  BY ArriveIsArrival
<1>2. c \in Process /\ c # Job /\ Mover(c) /\ Quiet
  BY <1>1, ArrivalIsMover
<1>3. /\ work' = [work EXCEPT ![c] = w] /\ work[c].op = "idle"
      /\ w.op \notin {"insertRequest", "insertTask"}
      /\ w.op = "saveProcess" => w.status = status
      /\ UNCHANGED <<status, stages, stock, request, task, phase, visits, now, begun,
                     accidents>>
  BY <1>1, CultivationWork DEF Arrived, tables
<1>4. phase' = "idle" /\ visits' = {}
  BY <1>2, <1>3 DEF Quiet, OneAtATime
<1>5. OneAtATime'
  BY <1>2, <1>3, <1>4, MoverIsAlone
<1>6. ActiveSince'
  BY <1>2, <1>3, MoverKeepsStatus
<1>7. ASSUME SmoothInv, accidents = 0
      PROVE  SmoothInv'
  <2>1. StoreEven'
    BY <1>7, ArrivalIsEven DEF SmoothInv
  <2>2. TasksMade' /\ DueAsked'
    BY <1>2, <1>3, <1>7, RequestsStay DEF SmoothInv
  <2> QED BY <2>1, <2>2 DEF SmoothInv
<1> QED BY <1>3, <1>5, <1>6, <1>7

LEMMA ContinueKeepsSerial ==
  ASSUME CultivationTypeInv, serial, OneAtATime, ActiveSince,
         NEW p \in Process, Continue(p)
  PROVE  /\ OneAtATime' /\ ActiveSince' /\ UNCHANGED accidents
         /\ SmoothInv /\ accidents = 0 => SmoothInv'
<1>1. OneAtATime' /\ ActiveSince'
  BY ContinueIsAlone, ContinueKeepsStatus
<1>2. UNCHANGED accidents
  BY ContinueFacts
<1>3. SmoothInv /\ accidents = 0 => SmoothInv'
  BY ContinueKeepsTasks, ContinueKeepsEven DEF SmoothInv
<1> QED BY <1>1, <1>2, <1>3

LEMMA CultivationFailKeepsSerial ==
  ASSUME CultivationTypeInv, serial, OneAtATime, ActiveSince, NEW p \in Process, Fail(p)
  PROVE  OneAtATime' /\ ActiveSince' /\ accidents' # 0
<1>1. /\ work[p] # Idle /\ work' = [work EXCEPT ![p] = Idle]
      /\ accidents' = accidents + 1 /\ visits' \in {visits, {}}
      /\ UNCHANGED <<status, phase, now, begun>>
  BY DEF Fail, Goto, tables, history
<1>2. Mover(p)
  BY <1>1 DEF OneAtATime, Mover, Process
<1>3. accidents \in Nat /\ Idle.op = "idle"
  BY CultivationWorkAt, CultivationWork DEF TablesOK
<1>4. OneAtATime'
  BY <1>1, <1>2, <1>3, MoverIsAlone DEF Mover, OneAtATime
<1>5. ActiveSince'
  BY <1>1, <1>2, <1>3, MoverKeepsStatus
<1> QED BY <1>1, <1>3, <1>4, <1>5

LEMMA JobKeepsSerial ==
  ASSUME CultivationTypeInv, serial, OneAtATime, ActiveSince, JobStep
  PROVE  /\ OneAtATime' /\ ActiveSince' /\ UNCHANGED accidents
         /\ SmoothInv /\ accidents = 0 => SmoothInv'
<1>1. Job \in Process /\ work[Job] = Idle /\ Mover(Job) /\ work[Job].op = "idle"
  BY JobIsMover, CultivationWork
<1>2. UNCHANGED <<status, begun, stock, owed, accidents>> /\ (now' = now \/ now' = now + 1)
  BY DEF JobStep, CheckAndCreateTaskProcessContentForExpert, CheckNewStageProcessSpecific,
         CreateRequest, EndOfJob, tables, history
<1>3. phase' = "idle" => visits' = {}
  BY DEF JobStep, CheckAndCreateTaskProcessContentForExpert, CheckNewStageProcessSpecific,
         CreateRequest, EndOfJob, OneAtATime
<1>4. PICK w : /\ work' = work \/ work' = [work EXCEPT ![Job] = w]
               /\ w.op \in {"idle", "insertRequest"}
  BY <1>1 DEF JobStep, CheckAndCreateTaskProcessContentForExpert, Goto,
         CheckNewStageProcessSpecific, CreateRequest, EndOfJob
<1>5. OneAtATime'
  BY <1>1, <1>3, <1>4, MoverIsAlone
<1>6. ActiveSince'
  BY <1>1, <1>2, <1>4, MoverKeepsStatus
<1>7. ASSUME SmoothInv
      PROVE  SmoothInv'
  <2>1. StoreEven'
    BY <1>1, <1>2, <1>4, <1>7, MoverStaysEven DEF SmoothInv
  <2> QED BY <1>7, <2>1, JobKeepsTasks DEF SmoothInv
<1> QED BY <1>2, <1>5, <1>6, <1>7

LEMMA NextKeepsSerial ==
  ASSUME CultivationTypeInv, CultivationSerialInv, [Next]_vars
  PROVE  CultivationSerialInv'
<1> SUFFICES ASSUME serial'
             PROVE  OneAtATime' /\ ActiveSince' /\ (accidents' = 0 => SmoothInv')
  BY DEF CultivationSerialInv
<1>1. CASE UNCHANGED vars
  <2>1. OneAtATime' /\ ActiveSince'
    BY <1>1 DEF vars, tables, history, CultivationSerialInv, OneAtATime, ActiveSince
  <2>2. accidents' = 0 => SmoothInv'
    BY <1>1 DEF vars, tables, history, CultivationSerialInv, SmoothInv, TasksMade,
                DueAsked, StoreEven
  <2> QED BY <2>1, <2>2
<1>2. CASE Next
  <2>1. serial
    <3>1. ASSUME NEW c \in Call, Arrive(c)
          PROVE  UNCHANGED serial
      BY <3>1, ArriveIsArrival DEF Arrived
    <3>2. ASSUME NEW p \in Process, Continue(p) \/ Fail(p)
          PROVE  UNCHANGED serial
      BY <3>2, ContinueFacts DEF Fail
    <3>3. CASE JobStep
      BY <3>3 DEF JobStep, CheckAndCreateTaskProcessContentForExpert,
                  CheckNewStageProcessSpecific, CreateRequest, EndOfJob
    <3> QED BY <1>2, <3>1, <3>2, <3>3 DEF Next, JobStep
  <2>2. OneAtATime /\ ActiveSince /\ (accidents = 0 => SmoothInv)
    BY <2>1 DEF CultivationSerialInv
  <2> QED
    BY <1>2, <2>1, <2>2, ArriveKeepsSerial, ContinueKeepsSerial,
       CultivationFailKeepsSerial, JobKeepsSerial DEF Next, JobStep
<1> QED BY <1>1, <1>2

LEMMA CultivationInitHolds ==
  ASSUME Init
  PROVE  PieceInv /\ CultivationSerialInv
<1>1. Idle.op = "idle"
  BY CultivationWork
<1>2. \A m \in Material :
        stock[m] = [total |-> Stock[m], rented |-> 0, status |-> "available"]
  BY DEF Init
<1>3. \A m \in Material : /\ stock[m].total = Stock[m] /\ stock[m].rented = 0
                          /\ stock[m].status = "available"
                          /\ Stock[m] \in Nat \ {0}
  <2>1. \A m \in Material : Stock[m] \in Nat \ {0}
    BY CultivationAssumption
  <2>2. ASSUME NEW m \in Material
        PROVE  /\ stock[m].total = Stock[m] /\ stock[m].rented = 0
               /\ stock[m].status = "available"
    <3> DEFINE row == [total |-> Stock[m], rented |-> 0, status |-> "available"]
    <3>1. row.total = Stock[m] /\ row.rented = 0 /\ row.status = "available"
      OBVIOUS
    <3>2. stock[m] = row
      BY <1>2
    <3> QED BY <3>1, <3>2, Zenon
  <2> QED BY <2>1, <2>2
<1>4. PieceInv
  <2>1. \A m \in Material : OfAPiece(stock[m], m)
    BY <1>3 DEF OfAPiece
  <2> QED BY <1>1, <2>1 DEF PieceInv, Init
<1>5. OneAtATime /\ ActiveSince
  BY <1>1 DEF Init, OneAtATime, ActiveSince, Process
<1>6. TasksMade /\ DueAsked
  BY DEF Init, TasksMade, DueAsked, Due
<1>7. StoreEven
  <2>1. \A m \in Material : stock[m].total + 0 = Stock[m] - owed[m]
    BY <1>3 DEF Init
  <2>2. \A p \in Process : Even(work[p], stock, owed)
    BY <1>1, <2>1 DEF Even, Pending, Init
  <2> QED BY <2>2 DEF StoreEven
<1> QED BY <1>4, <1>5, <1>6, <1>7 DEF CultivationSerialInv, SmoothInv

\* What no loop has still to put in the store is in it.
LEMMA QuietIsEven ==
  ASSUME CultivationTypeInv, CultivationSerialInv, serial, Quiet, accidents = 0
  PROVE  \A m \in Material : stock[m].total = Stock[m] - owed[m]
<1>1. Job \in Process /\ work[Job] = Idle /\ Mover(Job)
  BY DEF Quiet, Mover, Process
<1>2. Even(Idle, stock, owed)
  BY <1>1 DEF CultivationSerialInv, SmoothInv, StoreEven, Mover
<1>3. stock \in [Material -> StockRow]
  BY <1>1, CultivationWorkAt DEF TablesOK
<1>4. ASSUME NEW m \in Material
      PROVE  stock[m].total = Stock[m] - owed[m]
  <2>1. stock[m].total + 0 = Stock[m] - owed[m]
    BY <1>2, CultivationWork DEF Even, Pending
  <2>2. stock[m].total \in Int
    BY <1>3 DEF StockRow
  <2> QED BY <2>1, <2>2
<1> QED BY <1>4

\* Both hold of every state that is reached, with the types they rest on.
LEMMA CultivationHolds ==
  Spec => [](CultivationTypeInv /\ PieceInv /\ CultivationSerialInv)
<1>1. Init => PieceInv /\ CultivationSerialInv
  BY CultivationInitHolds
<1>2. CultivationTypeInv /\ PieceInv /\ CultivationSerialInv /\ [Next]_vars
        => PieceInv' /\ CultivationSerialInv'
  BY NextKeepsPieces, NextKeepsSerial
<1> QED BY <1>1, <1>2, CultivationTypeCorrect, PTL DEF Spec

\* StockIsRight: a row of the store is consistent however reads and saves interleave;
\* and when calls do not overlap and none fails, the loops over the stages, however
\* many stages there are, have moved exactly what was owed.
THEOREM StockIsRightHolds == Spec => []StockIsRight
<1>1. CultivationTypeInv /\ PieceInv => RowIsOfAPiece
  <2> SUFFICES ASSUME CultivationTypeInv, PieceInv, NEW m \in Material
               PROVE  LET row == stock[m]
                      IN  /\ row.status = "out_of_stock" <=> row.total <= 0
                          /\ \/ row.total - Stock[m] = row.rented
                             \/ m \notin Rented /\ row.rented = 0
    BY DEF RowIsOfAPiece
  <2> QED BY DEF PieceInv, OfAPiece
<1>2. CultivationTypeInv /\ CultivationSerialInv => StoreMatches
  BY QuietIsEven DEF StoreMatches
<1>3. CultivationTypeInv /\ PieceInv /\ CultivationSerialInv => StockIsRight
  BY <1>1, <1>2 DEF StockIsRight
<1> QED BY <1>3, CultivationHolds, PTL

\* ContentIsAskedFor: when calls do not overlap and nothing fails, the daily job has
\* made a task for each content of a process that was active in time, since it lists
\* each day those of the next, and goes through its list before the day is over.
THEOREM ContentIsAskedForHolds == Spec => []ContentIsAskedFor
<1>1. CultivationTypeInv /\ CultivationSerialInv => ContentIsAskedFor
  <2> SUFFICES ASSUME CultivationTypeInv, CultivationSerialInv,
                      serial, Quiet, accidents = 0,
                      NEW k \in Content \cap stages, begun # Never,
                      begun < Begin[k] - 1, Begin[k] - 1 <= now
               PROVE  k \in task
    BY DEF ContentIsAskedFor
  <2>1. work[Job].op = "idle" /\ phase = "idle"
    BY CultivationWork DEF Quiet, Process
  <2>2. Due(k, begun, now)
    BY DEF Due
  <2> QED BY <2>1, <2>2 DEF CultivationSerialInv, SmoothInv, DueAsked, AtWork
<1> QED BY <1>1, CultivationHolds, PTL
===============================================================================
