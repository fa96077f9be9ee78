--------------------------- MODULE RelocationProofs ---------------------------
(***************************************************************************)
(* A source is moved to another URL only when every collection that has    *)
(* not changed since the plan was scanned there: whatever the              *)
(* administrator does between the steps of the source worker, for every    *)
(* number of collections, migrations and events.                           *)
(***************************************************************************)
EXTENDS MCWeb, FiniteSetTheorems, WellFoundedInduction, TLAPS

Applied == {m \in U!Migs : uMig[m].status = "completed"}

\* Each revision of the source is the first one, an edit or a migration that
\* was applied.
RevisionsCounted == uSource.rev <= 1 + uEvents + Cardinality(Applied)

\* Only a migration that is being carried out, or was, has runs.
RunsOfStarted ==
  \A m \in U!Migs : uMig[m].status \notin {"syncing", "completed"} =>
    \A c \in Colls : uRun[m][c].status = "none"

\* A collection that has not changed since the plan has a run that is current
\* until it is scanned.
ToBeScanned(m, c) ==
  /\ uRun[m][c].status # "none"
  /\ uRun[m][c].status \in {"queued", "running"} =>
       /\ uRun[m][c].rev = uSource.rev
       /\ uRun[m][c].filter = uColl[c].filter

\* That is so until another migration is applied, or this one cancelled.
Covered ==
  \A m \in U!Migs :
    /\ uMig[m].rev <= uSource.rev
    /\ uMig[m].status = "syncing" /\ ~uMig[m].revoked
         /\ uMig[m].rev = uSource.rev =>
         \A c \in Colls \ uMig[m].changed :
           uColl[c].state = "in" => ToBeScanned(m, c)

(***************************************************************************)
(* What the worker read still holds, unless the migration was cancelled:   *)
(* then it stays so, since only a failed one can be confirmed.             *)
(***************************************************************************)
Held(status) ==
  \/ uMig[uWorker.mig].status = status
  \/ uMig[uWorker.mig].status = "cancelled" /\ uMig[uWorker.mig].revoked

PlanHeld(m) ==
  \A c \in Colls \ uMig[m].changed : uColl[c].state = "in" =>
    c \in DOMAIN uWorker.plan /\ uWorker.plan[c] = uColl[c].filter

ClaimHeld(r) ==
  r.status = "running" /\ r.rev = uWorker.rev /\ r.filter = uWorker.filter

ScansHeld(m) ==
  /\ \A c \in Colls : uRun[m][c].status \in {"none", "scanned"}
  /\ \/ uMig[m].risk
     \/ \A c \in Colls : uRun[m][c].status # "none" => uRun[m][c].matches

WorkerHolds ==
  LET m == uWorker.mig
      goesOn == ~uMig[m].revoked
  IN /\ uWorker.pc \in {"probe", "plan"} => Held("validating")
     /\ uWorker.pc \in {"scan", "store", "read", "apply", "reject"} =>
          Held("syncing")
     /\ uWorker.pc = "plan" /\ goesOn => PlanHeld(m)
     /\ uWorker.pc \in {"scan", "store"} =>
          /\ uWorker.coll \in Colls
          /\ goesOn => ClaimHeld(uRun[m][uWorker.coll])
     /\ uWorker.pc = "apply" /\ goesOn => ScansHeld(m)

RelocationInv ==
  U!TypeOK /\ RevisionsCounted /\ RunsOfStarted /\ Covered /\ WorkerHolds

-----------------------------------------------------------------------------
\* A set of numbers up to n that is not empty has a smallest and a greatest
\* one: of nested sets, some is smallest.
LEMMA SmallestIsIn ==
  ASSUME NEW n \in Nat, NEW C \in SUBSET (1 .. n), C # {},
         NEW f \in [1 .. n -> SUBSET (1 .. n)]
  PROVE  \E x \in C : \A y \in C : ~(f[y] \subseteq f[x] /\ f[y] # f[x])
<1> DEFINE I == 1 .. n
           T == {f[x] : x \in C}
<1>1. IsFiniteSet(I)
  BY FS_Interval
<1> HIDE DEF I
<1>2. C \in SUBSET I /\ f \in [I -> SUBSET I]
  BY DEF I
<1>3. T \subseteq FiniteSubsetsOf(I) /\ T # {}
  <2>1. ASSUME NEW x \in C
        PROVE  f[x] \in SUBSET I
    BY <1>2
  <2>2. FiniteSubsetsOf(I) = SUBSET I
    BY <1>1, FS_FiniteSubsetsOfFinite
  <2>3. T \subseteq SUBSET I
    BY <2>1
  <2>4. T # {}
    OBVIOUS
  <2>. QED BY <2>2, <2>3, <2>4
<1>4. \E t \in T : \A u \in T : ~(<<u, t>> \in StrictSubsetOrdering(I))
  <2> HIDE DEF T
  <2>. QED BY <1>3, WFMin, FS_StrictSubsetOrderingWellFounded
<1>5. PICK x \in C : \A y \in C : ~(<<f[y], f[x]>> \in StrictSubsetOrdering(I))
  BY <1>4
<1>. QED BY <1>2, <1>5 DEF StrictSubsetOrdering

LEMMA LeastOf ==
  ASSUME NEW n \in Nat, NEW C \in SUBSET (1 .. n), C # {}
  PROVE  \E x \in C : \A y \in C : x <= y
<1> DEFINE I == 1 .. n
           f == [x \in I |-> 1 .. x]
<1>1. PICK x \in C : \A y \in C : ~(f[y] \subseteq f[x] /\ f[y] # f[x])
  <2>1. f \in [1 .. n -> SUBSET (1 .. n)]
    OBVIOUS
  <2> HIDE DEF f
  <2>. QED BY SMTT(30), <2>1, SmallestIsIn
<1>2. ASSUME NEW y \in C
      PROVE  x <= y
  <2>1. SUFFICES ASSUME y < x PROVE FALSE
    OBVIOUS
  <2>2. 1 .. y \subseteq 1 .. x /\ x \in (1 .. x) \ (1 .. y)
    BY <2>1
  <2>3. f[y] \subseteq f[x] /\ x \in f[x] \ f[y]
    BY <2>2
  <2> HIDE DEF f
  <2>. QED BY <1>1, <2>3
<1>. QED BY <1>2

LEMMA GreatestOf ==
  ASSUME NEW n \in Nat, NEW C \in SUBSET (1 .. n), C # {}
  PROVE  \E x \in C : \A y \in C : x >= y
<1> DEFINE I == 1 .. n
           f == [x \in I |-> x .. n]
<1>1. PICK x \in C : \A y \in C : ~(f[y] \subseteq f[x] /\ f[y] # f[x])
  <2>1. f \in [1 .. n -> SUBSET (1 .. n)]
    OBVIOUS
  <2> HIDE DEF f
  <2>. QED BY SMTT(30), <2>1, SmallestIsIn
<1>2. ASSUME NEW y \in C
      PROVE  x >= y
  <2>1. SUFFICES ASSUME y > x PROVE FALSE
    OBVIOUS
  <2>2. y .. n \subseteq x .. n /\ x \in (x .. n) \ (y .. n)
    BY <2>1
  <2>3. f[y] \subseteq f[x] /\ x \in f[x] \ f[y]
    BY <2>2
  <2> HIDE DEF f
  <2>. QED BY <1>1, <2>3
<1>. QED BY <1>2

\* The migration that is requested next, and the one that is cancelled.
LEMMA EarliestIsIn ==
  ASSUME NEW C \in SUBSET U!Migs, C # {}
  PROVE  U!Min(C) \in C
BY RelocationBounds, LeastOf DEF U!Migs, U!Min

LEMMA LatestIsIn ==
  ASSUME NEW C \in SUBSET U!Migs, C # {}
  PROVE  U!Max(C) \in C
BY RelocationBounds, GreatestOf DEF U!Migs, U!Max

-----------------------------------------------------------------------------
(* Revisions *)

LEMMA AppliedIsFinite ==
  ASSUME NEW C \in SUBSET U!Migs
  PROVE  /\ IsFiniteSet(C) /\ Cardinality(C) \in 0 .. MaxMigs
         /\ \A D \in SUBSET C : Cardinality(D) <= Cardinality(C)
<1>1. IsFiniteSet(U!Migs) /\ Cardinality(U!Migs) = MaxMigs
  BY RelocationBounds, FS_Interval DEF U!Migs
<1>2. IsFiniteSet(C) /\ Cardinality(C) <= MaxMigs
  BY <1>1, FS_Subset
<1>3. Cardinality(C) \in Nat
  BY <1>2, FS_CardinalityType
<1>. QED BY <1>2, <1>3, FS_Subset, RelocationBounds

\* A step that keeps the revision and does not undo an application.
LEMMA RevisionKept ==
  ASSUME U!TypeOK, RevisionsCounted, uSource'.rev = uSource.rev,
         uEvents' \in 0 .. Relocations, uEvents <= uEvents',
         Applied \subseteq Applied'
  PROVE  RevisionsCounted'
<1>1. Applied' \in SUBSET U!Migs
  BY DEF Applied, U!Migs
<1>2. /\ Cardinality(Applied) <= Cardinality(Applied')
      /\ Cardinality(Applied) \in Nat /\ Cardinality(Applied') \in Nat
  BY <1>1, AppliedIsFinite
<1>3. uSource.rev \in Nat /\ uEvents \in Nat /\ uEvents' \in Nat
  BY RelocationBounds DEF U!TypeOK, U!Source, U!Revs
<1>. QED BY <1>2, <1>3 DEF RevisionsCounted

\* The next revision is among those of the model.
LEMMA NextRevision ==
  ASSUME U!TypeOK, RevisionsCounted
  PROVE  /\ uSource.rev \in Nat \ {0} /\ uSource.rev \in U!Revs
         /\ uEvents < Relocations => uSource.rev + 1 \in U!Revs
         /\ Applied # U!Migs => uSource.rev + 1 \in U!Revs
<1>1. /\ uSource.rev \in Nat \ {0} /\ uEvents \in 0 .. Relocations
      /\ uSource.rev \in U!Revs
  BY RelocationBounds DEF U!TypeOK, U!Source, U!Revs
<1>2. Cardinality(Applied) \in 0 .. MaxMigs
  BY AppliedIsFinite DEF Applied
<1>3. ASSUME Applied # U!Migs
      PROVE  Cardinality(Applied) < MaxMigs
  <2>1. IsFiniteSet(U!Migs) /\ Cardinality(U!Migs) = MaxMigs
    BY RelocationBounds, FS_Interval DEF U!Migs
  <2>2. Cardinality(Applied) # MaxMigs
    BY <1>3, <2>1, FS_Subset DEF Applied
  <2>. QED BY <1>2, <2>2, RelocationBounds
<1>. QED BY <1>1, <1>2, <1>3, RelocationBounds DEF RevisionsCounted, U!Revs

LEMMA NoRunType == U!NoRun \in U!Run
<1>1. 1 \in U!Revs /\ 0 \in U!Filters
  BY RelocationBounds DEF U!Revs, U!Filters
<1>. QED BY <1>1 DEF U!NoRun, U!Run

LEMMA IdleType == U!Idle \in U!Worker
<1>1. 1 \in U!Revs /\ 0 \in U!Filters /\ 1 \in U!Migs
  BY RelocationBounds DEF U!Revs, U!Filters, U!Migs
<1>2. <<>> \in [{} -> U!Filters]
  OBVIOUS
<1>3. <<>> \in UNION {[C -> U!Filters] : C \in SUBSET Colls}
  BY <1>2
<1>. QED BY <1>1, <1>3 DEF U!Idle, U!Worker

LEMMA RelocationStarts ==
  ASSUME U!Init
  PROVE  RelocationInv
<1> USE RelocationBounds DEF U!Init
<1>1. 1 \in U!Revs /\ 0 \in U!Filters
  BY DEF U!Revs, U!Filters
<1>2. U!TypeOK
  BY <1>1, IdleType
     DEF U!TypeOK, U!Source, U!Collection, U!Migration, U!Run, U!NoRun
<1>3. RevisionsCounted
  BY AppliedIsFinite DEF RevisionsCounted, Applied
<1>4. RunsOfStarted /\ Covered /\ WorkerHolds
  BY DEF RunsOfStarted, Covered, WorkerHolds, U!NoRun, U!Idle
<1>. QED BY <1>2, <1>3, <1>4 DEF RelocationInv

-----------------------------------------------------------------------------
(* The administrator *)

LEMMA RequestStep ==
  ASSUME RelocationInv, U!Request
  PROVE  RelocationInv'
<1> DEFINE free == {m \in U!Migs : uMig[m].status = "none"}
           m == U!Min(free)
<1> USE DEF RelocationInv
<1>1. m \in free /\ m \in U!Migs
  BY EarliestIsIn DEF U!Request
<1> HIDE DEF m
<1>2. /\ uMig' = [uMig EXCEPT ![m] =
                    [uMig[m] EXCEPT !.status = "requested",
                                    !.rev = uSource.rev]]
      /\ UNCHANGED <<uSource, uColl, uRun, uOrdinary, uWorker, uEvents>>
  BY <1>1 DEF U!Request, U!KeepWorker, m, U!TypeOK
<1>3. U!TypeOK'
  BY ZenonT(30), <1>1, <1>2, NextRevision DEF U!TypeOK, U!Migration, U!Ongoing
<1>4. RevisionsCounted'
  <2>1. Applied \subseteq Applied'
    BY <1>1, <1>2 DEF Applied, U!TypeOK
  <2>2. uEvents' \in 0 .. Relocations /\ uEvents <= uEvents'
    BY <1>2, RelocationBounds DEF U!TypeOK
  <2>. QED BY <1>2, <2>1, <2>2, RevisionKept
<1>5. RunsOfStarted'
  BY <1>1, <1>2 DEF RunsOfStarted, U!TypeOK
<1>6. Covered'
  BY <1>1, <1>2, NextRevision DEF Covered, ToBeScanned, U!TypeOK
<1>7. WorkerHolds'
  BY <1>1, <1>2
     DEF WorkerHolds, Held, PlanHeld, ClaimHeld, ScansHeld, U!TypeOK, U!Worker
<1>. QED BY <1>3, <1>4, <1>5, <1>6, <1>7

LEMMA CancelStep ==
  ASSUME RelocationInv, U!Cancel
  PROVE  RelocationInv'
<1> DEFINE m == U!Max(U!Active)
<1> USE DEF RelocationInv
<1> HIDE DEF m
<1>1. /\ uMig' = [uMig EXCEPT ![m] =
                    [uMig[m] EXCEPT !.status = "cancelled",
                                    !.revoked = TRUE, !.changed = {}]]
      /\ uRun' = [uRun EXCEPT ![m] = [c \in Colls |-> U!NoRun]]
      /\ UNCHANGED <<uSource, uColl, uOrdinary, uWorker, uEvents>>
  BY DEF U!Cancel, U!KeepWorker, U!Superseded, m, U!TypeOK
<1>2. U!TypeOK'
  BY <1>1, NoRunType DEF U!TypeOK, U!Migration
<1>3. RevisionsCounted'
  <2>1. uMig[m].status # "completed"
    BY LatestIsIn DEF U!Cancel, U!Active, U!Ongoing, m
  <2>2. Applied \subseteq Applied'
    BY <1>1, <2>1 DEF Applied, U!TypeOK
  <2>3. uEvents' \in 0 .. Relocations /\ uEvents <= uEvents'
    BY <1>1, RelocationBounds DEF U!TypeOK
  <2>. QED BY <1>1, <2>2, <2>3, RevisionKept
<1>4. RunsOfStarted'
  BY <1>1 DEF RunsOfStarted, U!TypeOK, U!NoRun
<1>5. Covered'
  BY <1>1 DEF Covered, ToBeScanned, U!TypeOK
<1>6. WorkerHolds'
  BY <1>1
     DEF WorkerHolds, Held, PlanHeld, ClaimHeld, ScansHeld, U!TypeOK, U!Worker
<1>. QED BY <1>2, <1>3, <1>4, <1>5, <1>6

LEMMA ConfirmStep ==
  ASSUME RelocationInv, NEW m \in U!Migs, U!Confirm(m)
  PROVE  RelocationInv'
<1> USE DEF RelocationInv
<1>1. /\ uMig[m].status = "failed"
      /\ uMig' = [uMig EXCEPT ![m] =
                    [uMig[m] EXCEPT !.status = "requested", !.risk = TRUE,
                                    !.revoked = FALSE]]
      /\ uRun' = [uRun EXCEPT ![m] = [c \in Colls |-> U!NoRun]]
      /\ UNCHANGED <<uSource, uColl, uOrdinary, uWorker, uEvents>>
  BY DEF U!Confirm, U!KeepWorker, U!Superseded, U!TypeOK
<1>2. U!TypeOK'
  BY ZenonT(30), <1>1, NoRunType DEF U!TypeOK, U!Migration, U!Ongoing
<1>3. RevisionsCounted'
  <2>1. Applied \subseteq Applied'
    BY <1>1 DEF Applied, U!TypeOK
  <2>2. uEvents' \in 0 .. Relocations /\ uEvents <= uEvents'
    BY <1>1, RelocationBounds DEF U!TypeOK
  <2>. QED BY <1>1, <2>1, <2>2, RevisionKept
<1>4. RunsOfStarted'
  BY <1>1 DEF RunsOfStarted, U!TypeOK, U!NoRun
<1>5. Covered'
  BY <1>1 DEF Covered, ToBeScanned, U!TypeOK
<1>6. WorkerHolds'
  BY <1>1
     DEF WorkerHolds, Held, PlanHeld, ClaimHeld, ScansHeld, U!TypeOK, U!Worker
<1>. QED BY <1>2, <1>3, <1>4, <1>5, <1>6

LEMMA EditStep ==
  ASSUME RelocationInv, U!EditSource
  PROVE  RelocationInv'
<1> USE DEF RelocationInv
<1>1. /\ U!Active = {} /\ uEvents < Relocations /\ uEvents' = uEvents + 1
      /\ uSource' = [uSource EXCEPT !.rev = uSource.rev + 1]
      /\ UNCHANGED <<uColl, uMig, uRun, uOrdinary, uWorker>>
  BY DEF U!EditSource, U!Happens, U!KeepWorker
<1>2. uSource'.rev = uSource.rev + 1 /\ uEvents' \in 0 .. Relocations
  BY <1>1, RelocationBounds DEF U!TypeOK, U!Source
<1>3. U!TypeOK'
  BY <1>1, <1>2, NextRevision DEF U!TypeOK, U!Source
<1>4. RevisionsCounted'
  <2>1. Cardinality(Applied) \in Nat /\ Applied' = Applied
    BY <1>1, AppliedIsFinite DEF Applied
  <2>. QED BY <1>1, <1>2, <2>1, NextRevision, RelocationBounds
           DEF RevisionsCounted, U!TypeOK
<1>5. RunsOfStarted'
  BY <1>1 DEF RunsOfStarted
<1>6. Covered'
  <2>1. \A m \in U!Migs : uMig[m].status # "syncing" /\ uMig[m].rev \in Nat
    BY <1>1, RelocationBounds
       DEF U!Active, U!Ongoing, U!TypeOK, U!Migration, U!Revs
  <2>. QED BY <1>1, <1>2, <2>1, NextRevision DEF Covered
<1>7. WorkerHolds'
  BY <1>1 DEF WorkerHolds, Held, PlanHeld, ClaimHeld, ScansHeld
<1>. QED BY <1>3, <1>4, <1>5, <1>6, <1>7

StatusKept(m) ==
  /\ uMig'[m].status = uMig[m].status /\ uMig'[m].rev = uMig[m].rev
  /\ uMig'[m].risk = uMig[m].risk /\ uMig'[m].revoked = uMig[m].revoked

\* A change of a collection is noted in the migrations it may concern.
LEMMA Noting ==
  ASSUME U!TypeOK, NEW c \in Colls, uMig' = U!Noted(c)
  PROVE  /\ uMig' \in [U!Migs -> U!Migration]
         /\ \A m \in U!Migs : StatusKept(m) /\
              (uMig[m].status \in U!Ongoing =>
                 uMig'[m].changed = uMig[m].changed \cup {c})
         /\ Applied' = Applied
<1>1. \A m \in U!Migs :
        uMig'[m] = [uMig[m] EXCEPT !.changed = IF m \in U!Active
                                     THEN uMig[m].changed \cup {c}
                                     ELSE uMig[m].changed]
  BY DEF U!Noted
<1>2. ASSUME NEW m \in U!Migs
      PROVE  /\ uMig'[m] \in U!Migration
             /\ StatusKept(m)
             /\ uMig[m].status \in U!Ongoing =>
                  uMig'[m].changed = uMig[m].changed \cup {c}
  <2>1. uMig[m] \in U!Migration
    BY DEF U!TypeOK
  <2>2. PICK v \in SUBSET Colls :
          /\ uMig'[m] = [uMig[m] EXCEPT !.changed = v]
          /\ uMig[m].status \in U!Ongoing => v = uMig[m].changed \cup {c}
    <3>1. uMig[m].changed \in SUBSET Colls
      BY <2>1 DEF U!Migration
    <3>. QED BY <1>1, <3>1 DEF U!Active
  <2>3. uMig'[m] \in U!Migration /\ uMig'[m].changed = v
    BY <2>1, <2>2 DEF U!Migration
  <2>4. StatusKept(m)
    BY <2>1, <2>2 DEF U!Migration, StatusKept
  <2>. QED BY <2>2, <2>3, <2>4
<1>3. uMig' \in [U!Migs -> U!Migration]
  BY <1>2 DEF U!Noted
<1>4. Applied' = Applied
  BY <1>2 DEF Applied, StatusKept
<1>. QED BY <1>2, <1>3, <1>4

LEMMA ChangeRulesStep ==
  ASSUME RelocationInv, NEW c \in Colls, U!ChangeRules(c)
  PROVE  RelocationInv'
<1> USE DEF RelocationInv
<1> DEFINE f == uColl[c].filter + 1
<1>1. /\ uColl[c].filter < MaxFilter
      /\ uEvents < Relocations /\ uEvents' = uEvents + 1
      /\ uMig' = U!Noted(c)
      /\ UNCHANGED <<uSource, uWorker>>
  BY DEF U!ChangeRules, U!Happens, U!KeepWorker
<1>2. uColl' = [uColl EXCEPT ![c] = [uColl[c] EXCEPT !.filter = f]]
  BY DEF U!ChangeRules, U!TypeOK
<1>3. uRun' = [m \in U!Migs |->
            IF uRun[m][c].status = "queued" /\ uColl[c].state # "out"
              THEN [uRun[m] EXCEPT ![c] =
                      [uRun[m][c] EXCEPT !.filter = f, !.rev = uSource.rev]]
              ELSE uRun[m]]
  BY DEF U!ChangeRules, U!TypeOK
<1>4. uOrdinary' \subseteq Colls
  BY DEF U!ChangeRules, U!TypeOK
<1>5. uColl[c] \in U!Collection /\ f \in U!Filters
  BY <1>1, RelocationBounds DEF U!TypeOK, U!Collection, U!Filters
<1> HIDE DEF f
<1>6. /\ uColl' \in [Colls -> U!Collection]
      /\ \A d \in Colls : d # c => uColl'[d] = uColl[d]
  BY <1>2, <1>5 DEF U!TypeOK, U!Collection
<1>7. /\ uMig' \in [U!Migs -> U!Migration] /\ Applied' = Applied
      /\ \A m \in U!Migs : StatusKept(m) /\
           (uMig[m].status \in U!Ongoing =>
              uMig'[m].changed = uMig[m].changed \cup {c})
  BY <1>1, Noting
<1>8. ASSUME NEW m \in U!Migs, NEW d \in Colls
      PROVE  /\ uRun'[m][d] \in U!Run
             /\ uRun'[m][d].status = uRun[m][d].status
             /\ uRun'[m][d].matches = uRun[m][d].matches
             /\ d # c \/ uRun[m][d].status # "queued" =>
                  uRun'[m][d] = uRun[m][d]
  <2>1. uRun[m] \in [Colls -> U!Run] /\ uRun[m][d] \in U!Run
        /\ uSource.rev \in U!Revs
    BY NextRevision DEF U!TypeOK
  <2>2. uRun'[m] = IF uRun[m][c].status = "queued" /\ uColl[c].state # "out"
                     THEN [uRun[m] EXCEPT ![c] =
                             [uRun[m][c] EXCEPT !.filter = f,
                                                !.rev = uSource.rev]]
                     ELSE uRun[m]
    BY <1>3
  <2>3. uRun'[m][d] = IF d = c /\ uRun[m][d].status = "queued"
                            /\ uColl[d].state # "out"
                        THEN [uRun[m][d] EXCEPT !.filter = f,
                                                !.rev = uSource.rev]
                        ELSE uRun[m][d]
    BY <2>1, <2>2
  <2>. QED BY <1>5, <2>1, <2>3 DEF U!Run
<1>9. uRun' \in [U!Migs -> [Colls -> U!Run]]
  <2>1. ASSUME NEW m \in U!Migs
        PROVE  uRun'[m] \in [Colls -> U!Run]
    <3>1. \E g \in [Colls -> U!Run] : uRun'[m] = [d \in Colls |-> g[d]]
      <4>1. uRun'[m] = [d \in Colls |-> uRun'[m][d]]
        BY <1>3 DEF U!TypeOK
      <4>. QED BY <1>8, <4>1
    <3>. QED BY <3>1
  <2>. QED BY <1>3, <2>1
<1>10. uEvents' \in 0 .. Relocations /\ uEvents <= uEvents'
  BY <1>1, RelocationBounds DEF U!TypeOK
<1>11. U!TypeOK'
  BY <1>1, <1>4, <1>6, <1>7, <1>9, <1>10 DEF U!TypeOK
<1>12. RevisionsCounted'
  BY <1>1, <1>7, <1>10, RevisionKept
<1>13. RunsOfStarted'
  BY <1>7, <1>8 DEF RunsOfStarted, StatusKept
<1>14. Covered'
  <2>1. ASSUME NEW m \in U!Migs, uMig[m].status = "syncing",
               NEW d \in Colls \ uMig'[m].changed
        PROVE  d # c /\ d \notin uMig[m].changed
    BY <1>7, <2>1 DEF U!Ongoing
  <2>. QED BY <1>1, <1>6, <1>7, <1>8, <2>1
           DEF Covered, ToBeScanned, StatusKept
<1>15. WorkerHolds'
  <2>1. uWorker.mig \in U!Migs
    BY DEF U!TypeOK, U!Worker
  <2>2. ASSUME uMig[uWorker.mig].status \in U!Ongoing,
               NEW d \in Colls \ uMig'[uWorker.mig].changed
        PROVE  d # c /\ d \notin uMig[uWorker.mig].changed
    BY <1>7, <2>1, <2>2
  <2>. QED BY <1>1, <1>6, <1>7, <1>8, <2>1, <2>2
           DEF WorkerHolds, Held, PlanHeld, ClaimHeld, ScansHeld, StatusKept,
               U!Ongoing
<1>. QED BY <1>11, <1>12, <1>13, <1>14, <1>15

LEMMA SelectStep ==
  ASSUME RelocationInv, NEW c \in Colls,
         U!SetSelected(c, "in") \/ U!SetSelected(c, "out")
  PROVE  RelocationInv'
<1> USE DEF RelocationInv
<1>1. /\ uEvents < Relocations /\ uEvents' = uEvents + 1
      /\ uMig' = U!Noted(c)
      /\ UNCHANGED <<uSource, uRun, uOrdinary, uWorker>>
  BY DEF U!SetSelected, U!Happens, U!KeepWorker
<1>2. /\ uColl' \in [Colls -> U!Collection]
      /\ \A d \in Colls : d # c => uColl'[d] = uColl[d]
  BY DEF U!SetSelected, U!TypeOK, U!Collection
<1>3. /\ uMig' \in [U!Migs -> U!Migration] /\ Applied' = Applied
      /\ \A m \in U!Migs : StatusKept(m) /\
           (uMig[m].status \in U!Ongoing =>
              uMig'[m].changed = uMig[m].changed \cup {c})
  BY <1>1, Noting
<1>4. uEvents' \in 0 .. Relocations /\ uEvents <= uEvents'
  BY <1>1, RelocationBounds DEF U!TypeOK
<1>5. U!TypeOK'
  BY <1>1, <1>2, <1>3, <1>4 DEF U!TypeOK
<1>6. RevisionsCounted'
  BY <1>1, <1>3, <1>4, RevisionKept
<1>7. RunsOfStarted'
  BY <1>1, <1>3 DEF RunsOfStarted, StatusKept
<1>8. Covered'
  <2>1. ASSUME NEW m \in U!Migs, uMig[m].status = "syncing",
               NEW d \in Colls \ uMig'[m].changed
        PROVE  d # c /\ d \notin uMig[m].changed
    BY <1>3, <2>1 DEF U!Ongoing
  <2>. QED BY <1>1, <1>2, <1>3, <2>1 DEF Covered, ToBeScanned, StatusKept
<1>9. WorkerHolds'
  <2>1. uWorker.mig \in U!Migs
    BY DEF U!TypeOK, U!Worker
  <2>2. ASSUME uMig[uWorker.mig].status \in U!Ongoing,
               NEW d \in Colls \ uMig'[uWorker.mig].changed
        PROVE  d # c /\ d \notin uMig[uWorker.mig].changed
    BY <1>3, <2>1, <2>2
  <2>. QED BY <1>1, <1>2, <1>3, <2>1, <2>2
           DEF WorkerHolds, Held, PlanHeld, ClaimHeld, ScansHeld, StatusKept,
               U!Ongoing
<1>. QED BY <1>5, <1>6, <1>7, <1>8, <1>9

LEMMA DiscoverStep ==
  ASSUME RelocationInv, NEW c \in Colls, U!Discover(c)
  PROVE  RelocationInv'
<1> USE DEF RelocationInv
<1>1. /\ U!Active = {} /\ U!At("sync")
      /\ uEvents < Relocations /\ uEvents' = uEvents + 1
      /\ uColl' = [uColl EXCEPT ![c] = [uColl[c] EXCEPT !.state =
                      IF @ = "in" THEN "lost" ELSE "in"]]
      /\ UNCHANGED <<uSource, uMig, uRun, uOrdinary, uWorker>>
  BY DEF U!Discover, U!Happens, U!KeepWorker, U!TypeOK
<1>2. uEvents' \in 0 .. Relocations /\ uEvents <= uEvents'
  BY <1>1, RelocationBounds DEF U!TypeOK
<1>3. U!TypeOK'
  BY <1>1, <1>2 DEF U!TypeOK, U!Collection
<1>4. RevisionsCounted'
  BY <1>1, <1>2, RevisionKept DEF Applied
<1>5. RunsOfStarted'
  BY <1>1 DEF RunsOfStarted
<1>6. Covered'
  BY <1>1 DEF Covered, U!Active, U!Ongoing
<1>7. WorkerHolds'
  BY <1>1 DEF WorkerHolds, U!At
<1>. QED BY <1>3, <1>4, <1>5, <1>6, <1>7

-----------------------------------------------------------------------------
(* The worker and the migration it claims *)

\* What the worker forgets when it goes on to other work.
LEMMA GoingOn ==
  ASSUME NEW pc \in {"migrate", "sync"}, U!GoOn(pc)
  PROVE  uWorker' \in U!Worker /\ WorkerHolds'
<1>1. U!Idle \in U!Worker
  BY IdleType
<1>2. uWorker' \in U!Worker /\ uWorker'.pc = pc
  BY <1>1 DEF U!GoOn, U!Idle, U!Worker
<1>. QED BY <1>2 DEF WorkerHolds

\* A migration that ends has no runs any more.
LEMMA Ending ==
  ASSUME RelocationInv, NEW m \in U!Migs,
         NEW status \in {"failed", "cancelled"},
         U!EndMigration(m, status), UNCHANGED <<uSource, uColl>>,
         uEvents' \in 0 .. Relocations, uEvents <= uEvents'
  PROVE  /\ uMig' \in [U!Migs -> U!Migration]
         /\ uRun' \in [U!Migs -> [Colls -> U!Run]]
         /\ RevisionsCounted' /\ RunsOfStarted' /\ Covered'
<1> USE DEF RelocationInv
<1>1. uMig' = [uMig EXCEPT ![m] =
        [uMig[m] EXCEPT !.status = IF uMig[m].status \in U!Ongoing THEN status
                                   ELSE uMig[m].status,
                        !.changed = {}]]
  BY DEF U!EndMigration, U!TypeOK
<1>2. uRun' = [uRun EXCEPT ![m] = [c \in Colls |-> U!NoRun]]
  BY DEF U!EndMigration, U!Superseded
<1>3. /\ uMig' \in [U!Migs -> U!Migration]
      /\ uRun' \in [U!Migs -> [Colls -> U!Run]]
  <2>1. uMig[m] \in U!Migration
    BY DEF U!TypeOK
  <2>2. uMig'[m] \in U!Migration
    BY <1>1, <2>1 DEF U!TypeOK, U!Migration
  <2>3. uMig' \in [U!Migs -> U!Migration]
    BY <1>1, <2>2 DEF U!TypeOK
  <2>4. uRun' \in [U!Migs -> [Colls -> U!Run]]
    BY <1>2, NoRunType DEF U!TypeOK
  <2>. QED BY <2>3, <2>4
<1>4. Applied \subseteq Applied'
  BY <1>1 DEF Applied, U!TypeOK, U!Migration, U!Ongoing
<1>5. RevisionsCounted'
  BY <1>4, RevisionKept
<1>6. RunsOfStarted'
  BY <1>1, <1>2 DEF RunsOfStarted, U!TypeOK, U!NoRun
<1>7. Covered'
  BY <1>1, <1>2 DEF Covered, ToBeScanned, U!TypeOK, U!Migration, U!Ongoing
<1>. QED BY <1>3, <1>5, <1>6, <1>7

\* Whatever else is being migrated then waits for a revision that is gone.
LEMMA Applying ==
  ASSUME RelocationInv, NEW m \in U!Migs, uMig[m].status # "completed",
         U!Apply(m), UNCHANGED <<uColl, uEvents>>
  PROVE  /\ uSource' \in U!Source
         /\ uMig' \in [U!Migs -> U!Migration]
         /\ uRun' \in [U!Migs -> [Colls -> U!Run]]
         /\ RevisionsCounted' /\ RunsOfStarted' /\ Covered'
<1> USE DEF RelocationInv
<1>1. uMig' = [uMig EXCEPT ![m] =
        [uMig[m] EXCEPT !.status = "completed", !.changed = {}]]
  BY DEF U!Apply, U!TypeOK
<1>2. uSource' = [rev |-> uSource.rev + 1, scope |-> m]
  BY DEF U!Apply
<1>3. ASSUME NEW n \in U!Migs
      PROVE  /\ n # m => uRun'[n] = uRun[n]
             /\ uRun'[n] \in [Colls -> U!Run]
  BY NoRunType DEF U!Apply, U!TypeOK
<1>4. uRun' \in [U!Migs -> [Colls -> U!Run]]
  BY <1>3 DEF U!Apply, U!TypeOK
<1>5. uMig' \in [U!Migs -> U!Migration]
  BY ZenonT(30), <1>1 DEF U!TypeOK, U!Migration
<1>6. Applied' = Applied \cup {m} /\ m \notin Applied
  BY <1>1 DEF Applied, U!TypeOK
<1>7. uSource' \in U!Source
  <2>1. uSource.rev + 1 \in U!Revs
    BY NextRevision DEF Applied
  <2>2. m \in 0 .. MaxMigs
    BY RelocationBounds DEF U!Migs
  <2>. QED BY <1>2, <2>1, <2>2 DEF U!Source
<1>8. RevisionsCounted'
  <2>1. Cardinality(Applied') = Cardinality(Applied) + 1
    BY <1>6, AppliedIsFinite, FS_AddElement DEF Applied
  <2>2. Cardinality(Applied) \in Nat
    BY AppliedIsFinite DEF Applied
  <2>. QED BY <1>2, <2>1, <2>2, NextRevision, RelocationBounds
           DEF RevisionsCounted, U!TypeOK
<1>9. RunsOfStarted'
  BY <1>1, <1>3 DEF RunsOfStarted, U!TypeOK
<1>10. Covered'
  <2>1. \A n \in U!Migs : uMig[n].rev \in Nat /\ uMig[n].rev <= uSource.rev
    BY RelocationBounds DEF Covered, U!TypeOK, U!Migration, U!Revs
  <2>2. \A n \in U!Migs : uMig'[n].rev = uMig[n].rev
    BY <1>1 DEF U!TypeOK, U!Migration
  <2>. QED BY <1>2, <2>1, <2>2, NextRevision DEF Covered
<1>. QED BY <1>4, <1>5, <1>7, <1>8, <1>9, <1>10

LEMMA ClaimMigrationStep ==
  ASSUME RelocationInv, U!ClaimMigration
  PROVE  RelocationInv'
<1> USE DEF RelocationInv
<1> DEFINE requested == {m \in U!Migs : uMig[m].status = "requested"}
           m == U!Min(requested)
<1>1. UNCHANGED <<uSource, uColl, uRun, uOrdinary, uEvents>>
  BY DEF U!ClaimMigration, U!KeepSource
<1>2. CASE requested = {}
  <2>1. U!GoOn("sync") /\ UNCHANGED uMig
    BY <1>2 DEF U!ClaimMigration
  <2>. QED BY <1>1, <2>1, GoingOn
           DEF U!TypeOK, RevisionsCounted, Applied, RunsOfStarted, Covered,
               ToBeScanned
<1>3. CASE requested # {}
  <2>1. m \in U!Migs /\ uMig[m].status = "requested"
    BY <1>3, EarliestIsIn
  <2>2. /\ uMig' = [uMig EXCEPT ![m] =
                      [uMig[m] EXCEPT !.status = "validating"]]
        /\ uWorker' = [U!Idle EXCEPT !.pc = "probe", !.mig = m]
    BY <1>3, <2>1 DEF U!ClaimMigration, U!TypeOK
  <2> HIDE DEF m, requested
  <2>3. /\ uMig' \in [U!Migs -> U!Migration] /\ uMig'[m].status = "validating"
    BY ZenonT(30), <2>1, <2>2 DEF U!TypeOK, U!Migration, U!Ongoing
  <2>4. uWorker' \in U!Worker /\ uWorker'.pc = "probe" /\ uWorker'.mig = m
    BY <2>1, <2>2, IdleType DEF U!Idle, U!Worker
  <2>5. U!TypeOK'
    BY <1>1, <2>3, <2>4 DEF U!TypeOK
  <2>6. RevisionsCounted'
    <3>1. Applied \subseteq Applied'
      BY <2>1, <2>2 DEF Applied, U!TypeOK
    <3>2. uEvents' \in 0 .. Relocations /\ uEvents <= uEvents'
      BY <1>1, RelocationBounds DEF U!TypeOK
    <3>. QED BY <1>1, <3>1, <3>2, RevisionKept
  <2>7. RunsOfStarted'
    BY <1>1, <2>1, <2>2 DEF RunsOfStarted, U!TypeOK
  <2>8. Covered'
    BY <1>1, <2>1, <2>2 DEF Covered, ToBeScanned, U!TypeOK, U!Migration
  <2>9. WorkerHolds'
    BY <2>3, <2>4 DEF WorkerHolds, Held
  <2>. QED BY <2>5, <2>6, <2>7, <2>8, <2>9
<1>. QED BY <1>2, <1>3

LEMMA ProbeFailsStep ==
  ASSUME RelocationInv, U!ProbeFails
  PROVE  RelocationInv'
<1> USE DEF RelocationInv
<1>1. /\ uEvents < Relocations /\ uEvents' = uEvents + 1
      /\ U!EndMigration(uWorker.mig, "failed") /\ U!GoOn("sync")
      /\ UNCHANGED <<uSource, uColl, uOrdinary>>
  BY DEF U!ProbeFails, U!Happens, U!KeepSource
<1>2. uWorker.mig \in U!Migs
  BY DEF U!TypeOK, U!Worker
<1>3. uEvents' \in 0 .. Relocations /\ uEvents <= uEvents'
  BY <1>1, RelocationBounds DEF U!TypeOK
<1>. QED BY <1>1, <1>2, <1>3, Ending, GoingOn DEF U!TypeOK

LEMMA ProbeStep ==
  ASSUME RelocationInv, U!Probe
  PROVE  RelocationInv'
<1> USE DEF RelocationInv
<1> DEFINE m == uWorker.mig
           in == {c \in Colls : uColl[c].state = "in"}
<1>1. /\ UNCHANGED <<uSource, uColl, uOrdinary, uEvents>>
      /\ uWorker.pc = "probe" /\ uWorker \in U!Worker /\ m \in U!Migs
  BY DEF U!Probe, U!At, U!KeepSource, U!TypeOK, U!Worker
<1>2. uEvents' \in 0 .. Relocations /\ uEvents <= uEvents'
  BY <1>1, RelocationBounds DEF U!TypeOK
<1>3. CASE U!GoOn("sync") /\ U!EndMigration(m, "cancelled")
  BY <1>1, <1>2, <1>3, Ending, GoingOn DEF U!TypeOK
<1>4. CASE U!GoOn("sync") /\ U!EndMigration(m, "failed")
  BY <1>1, <1>2, <1>4, Ending, GoingOn DEF U!TypeOK
<1>5. ASSUME /\ uMig' = [uMig EXCEPT ![m].changed = {}]
             /\ uWorker' = [uWorker EXCEPT !.pc = "plan",
                              !.plan = [c \in in |-> uColl[c].filter]]
             /\ UNCHANGED uRun
      PROVE  RelocationInv'
  <2>1. /\ uMig' \in [U!Migs -> U!Migration]
        /\ \A n \in U!Migs : StatusKept(n) /\
             (n # m => uMig'[n] = uMig[n])
    BY <1>1, <1>5 DEF U!TypeOK, U!Migration, StatusKept
  <2>2. /\ uWorker' \in U!Worker /\ uWorker'.pc = "plan"
        /\ uWorker'.mig = m
        /\ uWorker'.plan = [c \in in |-> uColl[c].filter]
    <3>1. [c \in in |-> uColl[c].filter] \in [in -> U!Filters]
      BY DEF U!TypeOK, U!Collection
    <3>2. [c \in in |-> uColl[c].filter]
             \in UNION {[C -> U!Filters] : C \in SUBSET Colls}
      BY <3>1
    <3>. QED BY <1>1, <1>5, <3>2 DEF U!Worker
  <2>3. U!TypeOK'
    BY <1>1, <1>5, <2>1, <2>2 DEF U!TypeOK
  <2>4. RevisionsCounted'
    BY <1>1, <1>2, <2>1, RevisionKept DEF Applied, StatusKept
  <2>5. RunsOfStarted'
    BY <1>5, <2>1 DEF RunsOfStarted, StatusKept
  <2>6. Held("validating")
    BY <1>1 DEF WorkerHolds
  <2>7. Covered'
    BY <1>1, <1>5, <2>1, <2>6 DEF Covered, ToBeScanned, StatusKept, Held
  <2>8. WorkerHolds'
    BY <1>1, <2>1, <2>2, <2>6 DEF WorkerHolds, Held, PlanHeld, StatusKept
  <2>. QED BY <2>3, <2>4, <2>5, <2>7, <2>8
<1>. QED BY <1>3, <1>4, <1>5 DEF U!Probe

\* What the plan makes due is what the administrator has left unchanged.
LEMMA PlanStep ==
  ASSUME RelocationInv, U!Plan
  PROVE  RelocationInv'
<1> USE DEF RelocationInv
<1> DEFINE m == uWorker.mig
           planned == DOMAIN uWorker.plan
           Due(c) == [status |-> "queued", rev |-> uMig[m].rev,
                      filter |-> uWorker.plan[c], matches |-> FALSE]
<1>1. /\ UNCHANGED <<uColl, uOrdinary, uEvents>> /\ U!GoOn("sync")
      /\ uWorker.pc = "plan" /\ uWorker \in U!Worker /\ m \in U!Migs
  BY DEF U!Plan, U!At, U!TypeOK, U!Worker
<1>2. uEvents' \in 0 .. Relocations /\ uEvents <= uEvents'
  BY <1>1, RelocationBounds DEF U!TypeOK
<1>3. Held("validating") /\ (uMig[m].revoked \/ PlanHeld(m))
  BY <1>1 DEF WorkerHolds
<1>4. CASE U!EndMigration(m, "failed") /\ UNCHANGED uSource
  BY <1>1, <1>2, <1>4, Ending, GoingOn DEF U!TypeOK
<1>5. CASE U!Apply(m)
  BY <1>1, <1>3, <1>5, Applying, GoingOn DEF U!TypeOK, Held
<1>6. ASSUME /\ uMig' = [uMig EXCEPT ![m].status = "syncing"]
             /\ uRun' = [uRun EXCEPT ![m] = [c \in Colls |->
                  IF c \in planned THEN Due(c) ELSE uRun[m][c]]]
             /\ UNCHANGED uSource
      PROVE  RelocationInv'
  <2>1. /\ uMig' \in [U!Migs -> U!Migration]
        /\ uMig'[m] = [uMig[m] EXCEPT !.status = "syncing"]
        /\ \A n \in U!Migs : n # m => uMig'[n] = uMig[n]
    <3>1. uMig \in [U!Migs -> U!Migration]
      BY DEF U!TypeOK
    <3>2. [uMig[m] EXCEPT !.status = "syncing"] \in U!Migration
      BY <1>1, <3>1 DEF U!Migration, U!Ongoing
    <3> HIDE DEF m
    <3>. QED BY <1>1, <1>6, <3>1, <3>2
  <2>2. ASSUME NEW c \in Colls
        PROVE  /\ uRun'[m][c] = IF c \in planned THEN Due(c)
                                               ELSE uRun[m][c]
               /\ uRun'[m][c] \in U!Run
    <3>1. PICK C \in SUBSET Colls : uWorker.plan \in [C -> U!Filters]
      BY <1>1 DEF U!Worker
    <3>2. c \in planned => Due(c) \in U!Run
      BY <1>1, <3>1 DEF U!Run, U!TypeOK, U!Migration
    <3>3. uRun'[m][c] = IF c \in planned THEN Due(c) ELSE uRun[m][c]
      BY <1>1, <1>6 DEF U!TypeOK
    <3> HIDE DEF Due, planned
    <3>. QED BY <1>1, <3>2, <3>3 DEF U!TypeOK
  <2>3. uRun' \in [U!Migs -> [Colls -> U!Run]]
    BY <1>1, <1>6, <2>2 DEF U!TypeOK
  <2>4. U!TypeOK'
    BY <1>1, <1>6, <2>1, <2>3, GoingOn DEF U!TypeOK
  <2>5. RevisionsCounted'
    <3>1. Applied \subseteq Applied'
      BY <1>3, <2>1 DEF Applied, Held
    <3>. QED BY <1>2, <1>6, <3>1, RevisionKept
  <2>6. RunsOfStarted'
    BY <1>1, <1>6, <2>1 DEF RunsOfStarted, U!TypeOK
  <2>7. Covered'
    <3>1. ASSUME NEW n \in U!Migs, n = m,
                 ~uMig[n].revoked, uMig[n].rev = uSource.rev,
                 NEW c \in Colls \ uMig[n].changed, uColl[c].state = "in"
          PROVE  ToBeScanned(n, c)'
      <4>1. c \in planned /\ uWorker.plan[c] = uColl[c].filter
        BY <1>3, <3>1 DEF PlanHeld
      <4>2. uRun'[n][c] = Due(c)
        BY <2>2, <3>1, <4>1
      <4>3. /\ uRun'[n][c].status = "queued"
            /\ uRun'[n][c].rev = uSource'.rev
            /\ uRun'[n][c].filter = uColl'[c].filter
        BY <1>1, <1>6, <3>1, <4>1, <4>2
      <4>. QED BY <4>3 DEF ToBeScanned
    <3>2. /\ uMig'[m].rev = uMig[m].rev /\ uMig'[m].revoked = uMig[m].revoked
          /\ uMig'[m].changed = uMig[m].changed
      BY <2>1, <1>1 DEF U!TypeOK, U!Migration
    <3>3. \A n \in U!Migs : n # m => uRun'[n] = uRun[n]
      BY <1>6 DEF U!TypeOK
    <3>4. \A n \in U!Migs : uMig'[n].rev <= uSource'.rev
      BY <1>6, <2>1, <3>2 DEF Covered
    <3>5. ASSUME NEW n \in U!Migs, n # m, NEW c \in Colls
          PROVE  ToBeScanned(n, c)' <=> ToBeScanned(n, c)
      BY <1>1, <1>6, <3>3, <3>5 DEF ToBeScanned
    <3>6. ASSUME NEW n \in U!Migs, uMig'[n].status = "syncing",
                 ~uMig'[n].revoked, uMig'[n].rev = uSource'.rev,
                 NEW c \in Colls \ uMig'[n].changed, uColl'[c].state = "in"
          PROVE  ToBeScanned(n, c)'
      <4>1. CASE n = m
        BY <1>1, <1>6, <3>1, <3>2, <3>6, <4>1
      <4>2. CASE n # m
        BY <1>1, <1>6, <2>1, <3>5, <3>6, <4>2 DEF Covered
      <4>. QED BY <4>1, <4>2
    <3>. QED BY <3>4, <3>6 DEF Covered
  <2>. QED BY <1>1, <2>4, <2>5, <2>6, <2>7, GoingOn
<1>. QED BY <1>4, <1>5, <1>6 DEF U!Plan

-----------------------------------------------------------------------------
(* The worker and the run it claims *)

\* What becomes superseded is not current: no run of an unchanged collection.
LEMMA Validating ==
  ASSUME RelocationInv, UNCHANGED <<uSource, uColl, uMig, uEvents>>,
         \A m \in U!Migs, c \in Colls :
           LET r == U!Valid(uRun)[m][c]
           IN \/ uRun'[m][c] = r
              \/ /\ r.status = "queued"
                 /\ uRun'[m][c] = [r EXCEPT !.status = "running"]
  PROVE  /\ \A m \in U!Migs, c \in Colls : uRun'[m][c] \in U!Run
         /\ RevisionsCounted' /\ RunsOfStarted' /\ Covered'
<1> USE DEF RelocationInv
<1> DEFINE left == U!Valid(uRun)
<1>1. ASSUME NEW m \in U!Migs, NEW c \in Colls
      PROVE  /\ left[m][c] \in U!Run /\ uRun[m][c] \in U!Run
             /\ \/ left[m][c] = uRun[m][c]
                \/ /\ left[m][c] = U!NoRun /\ uRun[m][c].status = "queued"
                   /\ ~U!RunIsCurrent(m, c, uRun[m][c].rev,
                                      uRun[m][c].filter)
  BY NoRunType DEF U!Valid, U!TypeOK
<1> HIDE DEF left
<1>2. ASSUME NEW m \in U!Migs, NEW c \in Colls
      PROVE  /\ uRun'[m][c] \in U!Run
             /\ uRun[m][c].status = "none" => uRun'[m][c].status = "none"
             /\ ToBeScanned(m, c) /\ uMig[m].status = "syncing"
                  /\ uColl[c].state = "in" => ToBeScanned(m, c)'
  <2>1. \/ uRun'[m][c] = left[m][c]
        \/ /\ left[m][c].status = "queued"
           /\ uRun'[m][c] = [left[m][c] EXCEPT !.status = "running"]
    BY DEF left
  <2>2. uRun'[m][c] \in U!Run
    BY <1>1, <2>1 DEF U!Run
  <2>3. uRun[m][c].status = "none" => uRun'[m][c].status = "none"
    BY <1>1, <2>1
  <2>4. ASSUME ToBeScanned(m, c), uMig[m].status = "syncing",
               uColl[c].state = "in"
        PROVE  ToBeScanned(m, c)'
    <3>1. ASSUME uRun[m][c].status = "queued"
          PROVE  U!RunIsCurrent(m, c, uRun[m][c].rev, uRun[m][c].filter)
      <4>1. uColl[c] = [state |-> "in", filter |-> uColl[c].filter]
        BY <2>4 DEF U!TypeOK, U!Collection
      <4>. QED BY <2>4, <3>1, <4>1 DEF ToBeScanned, U!RunIsCurrent
    <3>2. left[m][c] = uRun[m][c]
      BY <1>1, <3>1
    <3>3. /\ uRun'[m][c].rev = uRun[m][c].rev
          /\ uRun'[m][c].filter = uRun[m][c].filter
          /\ \/ uRun'[m][c].status = uRun[m][c].status
             \/ /\ uRun[m][c].status = "queued"
                /\ uRun'[m][c].status = "running"
      BY <1>1, <2>1, <3>2 DEF U!Run
    <3>. QED BY <2>4, <3>3 DEF ToBeScanned
  <2>. QED BY <2>2, <2>3, <2>4
<1>3. RevisionsCounted'
  BY DEF RevisionsCounted, Applied
<1>4. RunsOfStarted'
  BY <1>2 DEF RunsOfStarted
<1>5. Covered'
  BY <1>2 DEF Covered
<1>. QED BY <1>2, <1>3, <1>4, <1>5

LEMMA ClaimRunStep ==
  ASSUME RelocationInv, U!ClaimRun
  PROVE  RelocationInv'
<1> USE DEF RelocationInv
<1> DEFINE left == U!Valid(uRun)
           queued == {x \in U!Migs \X Colls :
                        left[x[1]][x[2]].status = "queued"}
<1>1. /\ UNCHANGED <<uSource, uColl, uMig, uEvents>> /\ U!At("sync")
      /\ U!ValidOrdinary \subseteq Colls
  <2>1. U!ValidOrdinary \subseteq Colls
    BY DEF U!ValidOrdinary, U!TypeOK
  <2>. QED BY <2>1 DEF U!ClaimRun, U!KeepSource
<1>2. left \in [U!Migs -> [Colls -> U!Run]]
  BY NoRunType DEF U!Valid, U!TypeOK
<1>3. CASE uRun' = left /\ uOrdinary' \subseteq Colls /\ U!GoOn("migrate")
  <2>1. RevisionsCounted' /\ RunsOfStarted' /\ Covered'
    BY <1>1, <1>3, Validating
  <2>. QED BY <1>1, <1>2, <1>3, <2>1, GoingOn DEF U!TypeOK
<1>4. ASSUME NEW x \in queued,
             uRun' = [left EXCEPT ![x[1]][x[2]].status = "running"],
             uWorker' = [U!Idle EXCEPT !.pc = "scan", !.mig = x[1],
                            !.coll = x[2], !.rev = left[x[1]][x[2]].rev,
                            !.filter = left[x[1]][x[2]].filter],
             uOrdinary' = U!ValidOrdinary
      PROVE  RelocationInv'
  <2> DEFINE m == x[1]
             c == x[2]
  <2>1. /\ m \in U!Migs /\ c \in Colls /\ left[m][c].status = "queued"
        /\ left[m][c] \in U!Run
    BY <1>2
  <2>2. /\ uRun' \in [U!Migs -> [Colls -> U!Run]]
        /\ uRun'[m][c] = [left[m][c] EXCEPT !.status = "running"]
        /\ \A n \in U!Migs, d \in Colls :
             n # m \/ d # c => uRun'[n][d] = left[n][d]
    <3>1. [left[m][c] EXCEPT !.status = "running"] \in U!Run
      BY <2>1 DEF U!Run
    <3>2. uRun' = [left EXCEPT ![m] = [left[m] EXCEPT ![c] =
                     [left[m][c] EXCEPT !.status = "running"]]]
      BY <1>2, <1>4, <2>1
    <3> HIDE DEF left, m, c
    <3>. QED BY <1>2, <2>1, <3>1, <3>2
  <2>3. RevisionsCounted' /\ RunsOfStarted' /\ Covered'
    BY <1>1, <2>1, <2>2, Validating
  <2>4. /\ uWorker' \in U!Worker /\ uWorker'.pc = "scan"
        /\ uWorker'.mig = m /\ uWorker'.coll = c
        /\ uWorker'.rev = left[m][c].rev
        /\ uWorker'.filter = left[m][c].filter
    <3> HIDE DEF left
    <3>. QED BY <1>4, <2>1, IdleType DEF U!Idle, U!Worker, U!Run
  <2>5. uMig[m].status = "syncing"
    <3>1. U!RunIsCurrent(m, c, uRun[m][c].rev, uRun[m][c].filter)
      BY <2>1 DEF U!Valid, U!NoRun
    <3>. QED BY <3>1 DEF U!RunIsCurrent
  <2>6. WorkerHolds'
    <3>1. /\ uRun'[m][c].status = "running"
          /\ uRun'[m][c].rev = uWorker'.rev
          /\ uRun'[m][c].filter = uWorker'.filter
      BY <2>1, <2>2, <2>4 DEF U!Run
    <3> HIDE DEF left, m, c
    <3>. QED BY <1>1, <2>1, <2>4, <2>5, <3>1 DEF WorkerHolds, Held, ClaimHeld
  <2>7. U!TypeOK'
    BY <1>1, <1>4, <2>2, <2>4 DEF U!TypeOK
  <2>. QED BY <2>3, <2>6, <2>7
<1>. QED BY <1>1, <1>3, <1>4 DEF U!ClaimRun

\* The run of a collection that has not changed is never superseded.
LEMMA Superseding ==
  ASSUME RelocationInv, uWorker.pc = "scan", ~U!ClaimIsCurrent,
         U!SupersedeRun(uWorker.mig, uWorker.coll),
         UNCHANGED <<uSource, uColl>>,
         uEvents' \in 0 .. Relocations, uEvents <= uEvents'
  PROVE  RelocationInv'
<1> USE DEF RelocationInv
<1> DEFINE m == uWorker.mig
           c == uWorker.coll
<1>1. /\ m \in U!Migs /\ c \in Colls
      /\ ~uMig[m].revoked => ClaimHeld(uRun[m][c])
  BY DEF WorkerHolds, U!TypeOK, U!Worker
<1>2. UNCHANGED uMig /\ U!GoOn("migrate") /\ uOrdinary' \subseteq Colls
  BY <1>1 DEF U!SupersedeRun, U!TypeOK
<1>3. /\ uRun' \in [U!Migs -> [Colls -> U!Run]]
      /\ \A n \in U!Migs, d \in Colls :
           /\ n # m \/ d # c => uRun'[n][d] = uRun[n][d]
           /\ uRun[n][d].status = "none" => uRun'[n][d].status = "none"
  <2>1. uRun' = [uRun EXCEPT ![m] = [uRun[m] EXCEPT ![c] =
          IF uRun[m][c].status \in {"queued", "running"} THEN U!NoRun
          ELSE uRun[m][c]]]
    BY <1>1 DEF U!SupersedeRun, U!TypeOK
  <2> HIDE DEF m, c
  <2>. QED BY <1>1, <2>1, NoRunType DEF U!TypeOK, U!NoRun
<1>4. U!TypeOK'
  BY <1>2, <1>3, GoingOn DEF U!TypeOK
<1>5. RevisionsCounted'
  BY <1>2, RevisionKept DEF Applied
<1>6. RunsOfStarted'
  BY <1>2, <1>3 DEF RunsOfStarted
<1>7. Covered'
  <2>1. ASSUME NEW n \in U!Migs, uMig[n].status = "syncing",
               NEW d \in Colls, uColl[d].state = "in", ~uMig[n].revoked,
               ToBeScanned(n, d)
        PROVE  n # m \/ d # c
    <3>1. SUFFICES ASSUME n = m, d = c PROVE FALSE
      OBVIOUS
    <3>2. /\ uWorker.rev = uSource.rev
          /\ uWorker.filter = uColl[c].filter
      BY <1>1, <2>1, <3>1 DEF ClaimHeld, ToBeScanned
    <3>3. uColl[c] = [state |-> "in", filter |-> uColl[c].filter]
      BY <1>1, <2>1, <3>1 DEF U!TypeOK, U!Collection
    <3>. QED BY <2>1, <3>1, <3>2, <3>3
             DEF U!ClaimIsCurrent, U!RunIsCurrent
  <2>2. ASSUME NEW n \in U!Migs, uMig[n].status = "syncing",
               NEW d \in Colls, uColl[d].state = "in", ~uMig[n].revoked,
               ToBeScanned(n, d)
        PROVE  ToBeScanned(n, d)'
    <3>1. uRun'[n][d] = uRun[n][d]
      BY <1>3, <2>1, <2>2
    <3>. QED BY <2>2, <3>1 DEF ToBeScanned
  <2> HIDE DEF m, c
  <2>. QED BY <1>2, <2>2 DEF Covered
<1>. QED BY <1>2, <1>4, <1>5, <1>6, <1>7, GoingOn

LEMMA ScanFailsStep ==
  ASSUME RelocationInv, U!ScanFails
  PROVE  RelocationInv'
<1> USE DEF RelocationInv
<1>1. /\ uEvents < Relocations /\ uEvents' = uEvents + 1
      /\ UNCHANGED <<uSource, uColl>> /\ uWorker.pc = "scan"
  BY DEF U!ScanFails, U!Happens, U!KeepSource, U!At
<1>2. uWorker.mig \in U!Migs
  BY DEF U!TypeOK, U!Worker
<1>3. uEvents' \in 0 .. Relocations /\ uEvents <= uEvents'
  BY <1>1, RelocationBounds DEF U!TypeOK
<1>4. CASE U!ClaimIsCurrent
  <2>1. /\ U!EndMigration(uWorker.mig, "failed") /\ U!GoOn("migrate")
        /\ UNCHANGED uOrdinary
    BY <1>4 DEF U!ScanFails
  <2>. QED BY <1>1, <1>2, <1>3, <2>1, Ending, GoingOn DEF U!TypeOK
<1>5. CASE ~U!ClaimIsCurrent
  BY <1>1, <1>3, <1>5, Superseding DEF U!ScanFails
<1>. QED BY <1>4, <1>5

LEMMA ScanStep ==
  ASSUME RelocationInv, U!Scan
  PROVE  RelocationInv'
<1> USE DEF RelocationInv
<1>1. UNCHANGED <<uSource, uColl, uEvents>> /\ uWorker.pc = "scan"
  BY DEF U!Scan, U!KeepSource, U!At
<1>2. uEvents' \in 0 .. Relocations /\ uEvents <= uEvents'
  BY <1>1, RelocationBounds DEF U!TypeOK
<1>3. CASE U!ClaimIsCurrent
  <2>1. /\ UNCHANGED <<uMig, uRun, uOrdinary>>
        /\ uWorker' = [uWorker EXCEPT !.pc = "store"]
    BY <1>3 DEF U!Scan, U!GoTo
  <2>2. /\ uWorker' \in U!Worker /\ uWorker'.pc = "store"
        /\ uWorker'.mig = uWorker.mig /\ uWorker'.coll = uWorker.coll
        /\ uWorker'.rev = uWorker.rev /\ uWorker'.filter = uWorker.filter
    BY <2>1 DEF U!TypeOK, U!Worker
  <2>3. U!TypeOK' /\ RevisionsCounted' /\ RunsOfStarted' /\ Covered'
    BY <1>1, <2>1, <2>2 DEF U!TypeOK, RevisionsCounted, Applied,
       RunsOfStarted, Covered, ToBeScanned
  <2>4. WorkerHolds'
    BY <1>1, <2>1, <2>2 DEF WorkerHolds, Held, ClaimHeld
  <2>. QED BY <2>3, <2>4
<1>4. CASE ~U!ClaimIsCurrent
  BY <1>1, <1>2, <1>4, Superseding DEF U!Scan
<1>. QED BY <1>3, <1>4

LEMMA StoreStep ==
  ASSUME RelocationInv, U!Store
  PROVE  RelocationInv'
<1> USE DEF RelocationInv
<1> DEFINE m == uWorker.mig
           c == uWorker.coll
<1>1. /\ UNCHANGED <<uSource, uColl, uMig, uOrdinary, uEvents>>
      /\ uWorker.pc = "store"
      /\ uWorker' = [U!Idle EXCEPT !.pc = "read", !.mig = m]
  BY DEF U!Store, U!KeepSource, U!At
<1>2. m \in U!Migs /\ c \in Colls /\ Held("syncing")
  BY <1>1 DEF WorkerHolds, U!TypeOK, U!Worker
<1>3. PICK matches \in BOOLEAN :
        uRun' = [uRun EXCEPT ![m][c] =
                   IF uRun[m][c].status = "running"
                     THEN [uRun[m][c] EXCEPT !.status = "scanned",
                                             !.matches = matches]
                     ELSE uRun[m][c]]
  BY <1>2 DEF U!Store, U!TypeOK
<1>4. uWorker' \in U!Worker /\ uWorker'.pc = "read" /\ uWorker'.mig = m
  BY <1>1, <1>2, IdleType DEF U!Idle, U!Worker
<1> HIDE DEF m, c
<1>5. /\ uRun' \in [U!Migs -> [Colls -> U!Run]]
      /\ \A n \in U!Migs, d \in Colls :
           \/ uRun'[n][d] = uRun[n][d]
           \/ uRun[n][d].status = "running" /\ uRun'[n][d].status = "scanned"
  <2>1. uRun[m][c] \in U!Run /\ uRun[m] \in [Colls -> U!Run]
    BY <1>2 DEF U!TypeOK
  <2>2. [uRun[m][c] EXCEPT !.status = "scanned", !.matches = matches] \in U!Run
    BY <2>1 DEF U!Run
  <2>3. [uRun[m][c] EXCEPT !.status = "scanned", !.matches = matches].status
          = "scanned"
    BY <2>1 DEF U!Run
  <2>. QED BY <1>2, <1>3, <2>1, <2>2, <2>3 DEF U!TypeOK
<1>6. U!TypeOK'
  BY <1>1, <1>4, <1>5 DEF U!TypeOK
<1>7. RevisionsCounted'
  BY <1>1 DEF RevisionsCounted, Applied
<1>8. RunsOfStarted'
  BY <1>1, <1>5 DEF RunsOfStarted
<1>9. Covered'
  <2>1. ASSUME NEW n \in U!Migs, NEW d \in Colls, ToBeScanned(n, d)
        PROVE  ToBeScanned(n, d)'
    BY <1>1, <1>5, <2>1 DEF ToBeScanned
  <2>. QED BY <1>1, <2>1 DEF Covered
<1>10. WorkerHolds'
  BY <1>1, <1>2, <1>4 DEF WorkerHolds, Held, m
<1>. QED BY <1>6, <1>7, <1>8, <1>9, <1>10

LEMMA ReadStep ==
  ASSUME RelocationInv, U!Read
  PROVE  RelocationInv'
<1> USE DEF RelocationInv
<1> DEFINE m == uWorker.mig
<1>1. /\ UNCHANGED <<uSource, uColl, uMig, uRun, uOrdinary, uEvents>>
      /\ uWorker.pc = "read" /\ Held("syncing")
  BY DEF U!Read, U!KeepSource, U!At, WorkerHolds
<1>2. RevisionsCounted' /\ RunsOfStarted' /\ Covered'
  BY <1>1 DEF RevisionsCounted, Applied, RunsOfStarted, Covered, ToBeScanned
<1>3. CASE U!GoOn("migrate")
  BY <1>1, <1>2, <1>3, GoingOn DEF U!TypeOK
<1>4. ASSUME NEW pc \in {"reject", "apply"}, U!AllScanned(m),
             pc = "apply" => uMig[m].risk
                              \/ \A c \in U!Scans(m) : uRun[m][c].matches,
             uWorker' = [uWorker EXCEPT !.pc = pc]
      PROVE  RelocationInv'
  <2>1. /\ uWorker' \in U!Worker /\ uWorker'.pc = pc
        /\ uWorker'.mig = m
    BY <1>4 DEF U!TypeOK, U!Worker
  <2>2. pc = "apply" => ScansHeld(m)
    BY <1>4 DEF ScansHeld, U!AllScanned, U!Scans
  <2>3. WorkerHolds'
    BY <1>1, <2>1, <2>2 DEF WorkerHolds, Held, ScansHeld
  <2>4. U!TypeOK'
    BY <1>1, <2>1 DEF U!TypeOK
  <2>. QED BY <1>2, <2>3, <2>4
<1>. QED BY <1>3, <1>4 DEF U!Read, U!GoTo

LEMMA RejectStep ==
  ASSUME RelocationInv, U!Reject
  PROVE  RelocationInv'
<1> USE DEF RelocationInv
<1> DEFINE m == uWorker.mig
<1>1. /\ UNCHANGED <<uSource, uColl, uOrdinary, uEvents>>
      /\ U!GoOn("migrate") /\ uWorker.pc = "reject" /\ m \in U!Migs
  BY DEF U!Reject, U!KeepSource, U!At, U!TypeOK, U!Worker
<1>2. /\ uMig' = [uMig EXCEPT ![m] =
                    [uMig[m] EXCEPT !.status = "failed", !.doubtful = TRUE,
                                    !.changed = {}]]
      /\ uRun' = [uRun EXCEPT ![m] = [c \in Colls |-> U!NoRun]]
  BY DEF U!Reject, U!Superseded, U!TypeOK
<1>3. uMig[m].status # "completed"
  BY <1>1 DEF WorkerHolds, Held
<1> HIDE DEF m
<1>4. /\ uMig' \in [U!Migs -> U!Migration]
      /\ uRun' \in [U!Migs -> [Colls -> U!Run]]
  BY ZenonT(30), <1>1, <1>2, NoRunType DEF U!TypeOK, U!Migration
<1>5. RevisionsCounted'
  <2>1. Applied \subseteq Applied'
    BY <1>2, <1>3 DEF Applied, U!TypeOK
  <2>2. uEvents' \in 0 .. Relocations /\ uEvents <= uEvents'
    BY <1>1, RelocationBounds DEF U!TypeOK
  <2>. QED BY <1>1, <2>1, <2>2, RevisionKept
<1>6. RunsOfStarted'
  BY <1>2 DEF RunsOfStarted, U!TypeOK, U!NoRun
<1>7. Covered'
  BY <1>1, <1>2 DEF Covered, ToBeScanned, U!TypeOK
<1>. QED BY <1>1, <1>4, <1>5, <1>6, <1>7, GoingOn DEF U!TypeOK

LEMMA ApplyScannedStep ==
  ASSUME RelocationInv, U!ApplyScanned
  PROVE  RelocationInv'
<1> USE DEF RelocationInv
<1>1. /\ UNCHANGED <<uColl, uOrdinary, uEvents>> /\ U!GoOn("migrate")
      /\ uWorker.pc = "apply" /\ uWorker.mig \in U!Migs
  BY DEF U!ApplyScanned, U!At, U!TypeOK, U!Worker
<1>2. uMig[uWorker.mig].status # "completed"
  BY <1>1 DEF WorkerHolds, Held
<1>3. CASE U!Apply(uWorker.mig)
  BY <1>1, <1>2, <1>3, Applying, GoingOn DEF U!TypeOK
<1>4. CASE UNCHANGED <<uSource, uMig, uRun>>
  <2>1. RevisionsCounted' /\ RunsOfStarted' /\ Covered'
    BY <1>1, <1>4
       DEF RevisionsCounted, Applied, RunsOfStarted, Covered, ToBeScanned
  <2>. QED BY <1>1, <1>4, <2>1, GoingOn DEF U!TypeOK
<1>. QED BY <1>3, <1>4 DEF U!ApplyScanned

LEMMA RestartStep ==
  ASSUME RelocationInv, U!Restart
  PROVE  RelocationInv'
<1> USE DEF RelocationInv
<1>1. /\ UNCHANGED <<uSource, uColl, uOrdinary>> /\ uWorker' = U!Idle
      /\ uEvents < Relocations /\ uEvents' = uEvents + 1
  BY DEF U!Restart, U!KeepSource, U!Happens
<1>2. uEvents' \in 0 .. Relocations /\ uEvents <= uEvents'
  BY <1>1, RelocationBounds DEF U!TypeOK
<1>3. uMig' = [m \in U!Migs |-> IF m \in U!Interrupted
                 THEN [uMig[m] EXCEPT !.status = "failed", !.changed = {}]
                 ELSE uMig[m]]
  BY DEF U!Restart
<1>4. ASSUME NEW m \in U!Migs
      PROVE  /\ uMig'[m] \in U!Migration /\ uMig'[m].rev = uMig[m].rev
             /\ uMig'[m].status # "syncing"
             /\ \/ m \in U!Interrupted
                \/ m \notin U!Interrupted /\ uMig'[m] = uMig[m]
  BY <1>3 DEF U!TypeOK, U!Migration, U!Interrupted
<1>5. uMig' \in [U!Migs -> U!Migration]
  BY <1>3, <1>4
<1>6. /\ uRun' \in [U!Migs -> [Colls -> U!Run]]
      /\ \A m \in U!Migs, c \in Colls :
           \/ uRun'[m][c].status = "none"
           \/ m \notin U!Interrupted /\ uRun'[m][c] = uRun[m][c]
  BY NoRunType DEF U!Restart, U!TypeOK, U!NoRun
<1>7. RevisionsCounted'
  <2>1. Applied \subseteq Applied'
    BY <1>4 DEF Applied, U!Interrupted
  <2>. QED BY <1>1, <1>2, <2>1, RevisionKept
<1>8. RunsOfStarted'
  BY <1>4, <1>6 DEF RunsOfStarted
<1>9. Covered'
  BY <1>1, <1>4 DEF Covered
<1>10. uWorker' \in U!Worker /\ WorkerHolds'
  BY <1>1, IdleType DEF WorkerHolds, U!Idle
<1>11. U!TypeOK'
  BY <1>1, <1>2, <1>5, <1>6, <1>10 DEF U!TypeOK
<1>. QED BY <1>7, <1>8, <1>9, <1>10, <1>11

-----------------------------------------------------------------------------
LEMMA RelocationGoesOn ==
  ASSUME RelocationInv, U!Next
  PROVE  RelocationInv'
<1>1. CASE U!Request
  BY <1>1, RequestStep
<1>2. CASE U!Cancel
  BY <1>2, CancelStep
<1>3. CASE U!EditSource
  BY <1>3, EditStep
<1>4. CASE \E m \in U!Migs : U!Confirm(m)
  BY <1>4, ConfirmStep
<1>5. CASE \E c \in Colls : U!ChangeRules(c)
  BY <1>5, ChangeRulesStep
<1>6. CASE \E c \in Colls : U!Discover(c)
  BY <1>6, DiscoverStep
<1>7. CASE \E c \in Colls : U!SetSelected(c, "in") \/ U!SetSelected(c, "out")
  BY <1>7, SelectStep
<1>8. CASE U!ClaimMigration
  BY <1>8, ClaimMigrationStep
<1>9. CASE U!Probe \/ U!ProbeFails
  BY <1>9, ProbeStep, ProbeFailsStep
<1>10. CASE U!Plan
  BY <1>10, PlanStep
<1>11. CASE U!ClaimRun
  BY <1>11, ClaimRunStep
<1>12. CASE U!Scan \/ U!ScanFails
  BY <1>12, ScanStep, ScanFailsStep
<1>13. CASE U!Store
  BY <1>13, StoreStep
<1>14. CASE U!Read
  BY <1>14, ReadStep
<1>15. CASE U!Reject
  BY <1>15, RejectStep
<1>16. CASE U!ApplyScanned
  BY <1>16, ApplyScannedStep
<1>17. CASE U!Restart
  BY <1>17, RestartStep
<1>. QED BY <1>1, <1>2, <1>3, <1>4, <1>5, <1>6, <1>7, <1>8, <1>9, <1>10, <1>11,
            <1>12, <1>13, <1>14, <1>15, <1>16, <1>17 DEF U!Next, U!Work

\* In the instance: while the other parts run it has no value.
RelocationHolds == part = "relocation" => RelocationInv

LEMMA RelocationStep ==
  ASSUME [Next]_vars
  PROVE  part' = part /\ (part = "relocation" => [U!Next]_relocation)
BY DEF Next, vars, relocation

\* The inductive invariant of a source's migrations: what the worker read still
\* holds when it writes, unless the migration was cancelled in between, and
\* every unchanged collection has a current run or was scanned (engine.py,
\* source-migration-store.ts).
THEOREM RelocationInvariant == Spec => []RelocationHolds
<1>1. Init => RelocationHolds
  BY RelocationStarts DEF Init, RelocationHolds
<1>2. RelocationHolds /\ [Next]_vars => RelocationHolds'
  <2> SUFFICES ASSUME RelocationInv, part = "relocation", [Next]_vars
               PROVE  RelocationInv'
    BY RelocationStep DEF RelocationHolds
  <2>1. CASE U!Next
    BY <2>1, RelocationGoesOn
  <2>2. CASE UNCHANGED relocation
    BY <2>2 DEF relocation, RelocationInv, U!TypeOK, RevisionsCounted,
       Applied, RunsOfStarted, Covered, ToBeScanned, WorkerHolds, Held,
       PlanHeld, ClaimHeld, ScansHeld
  <2>. QED BY <2>1, <2>2, RelocationStep
<1>. QED BY <1>1, <1>2, PTL DEF Spec

-----------------------------------------------------------------------------
\* The transaction of a plan that applies at once has nothing to scan.
LEMMA AppliedUnscanned ==
  ASSUME RelocationInv, U!Plan, NEW n \in U!Migs,
         uSource'.scope # uSource.scope, uSource'.scope = n,
         ~uMig[n].revoked
  PROVE  /\ \A c \in Colls \ uMig[n].changed : uColl[c].state # "in"
         /\ U!Scans(n) = {}
<1> USE DEF RelocationInv
<1>1. /\ n = uWorker.mig /\ DOMAIN uWorker.plan = {} /\ uWorker.pc = "plan"
  BY DEF U!Plan, U!At, U!Apply
<1>2. Held("validating") /\ PlanHeld(n)
  BY <1>1 DEF WorkerHolds
<1>3. \A c \in Colls : uRun[n][c].status = "none"
  BY <1>1, <1>2 DEF Held, RunsOfStarted
<1>. QED BY <1>1, <1>2, <1>3 DEF PlanHeld, U!Scans

LEMMA AppliedWhenScanned ==
  ASSUME RelocationInv, U!ApplyScanned, NEW n \in U!Migs,
         uSource'.scope # uSource.scope, uSource'.scope = n,
         ~uMig[n].revoked
  PROVE  /\ \A c \in Colls \ uMig[n].changed :
              uColl[c].state = "in" => uRun[n][c].status = "scanned"
         /\ uMig[n].risk \/ \A c \in U!Scans(n) : uRun[n][c].matches
<1> USE DEF RelocationInv
<1>1. /\ n = uWorker.mig /\ uWorker.pc = "apply"
      /\ uMig[n].rev = uSource.rev
  BY DEF U!ApplyScanned, U!At, U!Apply
<1>2. uMig[n].status = "syncing" /\ ScansHeld(n)
  BY <1>1 DEF WorkerHolds, Held
<1>3. ASSUME NEW c \in Colls \ uMig[n].changed, uColl[c].state = "in"
      PROVE  uRun[n][c].status = "scanned"
  BY <1>1, <1>2, <1>3 DEF Covered, ToBeScanned, ScansHeld
<1>. QED BY <1>2, <1>3 DEF ScansHeld, U!Scans

\* Whatever the administrator changes, cancels and confirms, and however often
\* the worker starts again, a migration that was not cancelled is applied only
\* when each collection unchanged since its plan was scanned at the target, and
\* what was found there matches or the administrator took the risk
\* (engine.py, _maybe_apply_migration).
THEOREM MigrationAppliedAsScanned == Spec => AppliedAsScanned
<1>1. RelocationHolds /\ [Next]_vars =>
        [part = "relocation" => U!AppliedAsScanned]_relocation
  <2> SUFFICES ASSUME RelocationInv, part = "relocation", U!Next,
                      NEW n \in U!Migs, uSource'.scope # uSource.scope,
                      uSource'.scope = n, ~uMig[n].revoked
               PROVE  /\ \A c \in Colls \ uMig[n].changed :
                           uColl[c].state = "in" =>
                             uRun[n][c].status = "scanned"
                      /\ uMig[n].risk
                           \/ \A c \in U!Scans(n) : uRun[n][c].matches
    BY RelocationStep DEF RelocationHolds, U!AppliedAsScanned
  <2>1. U!Plan \/ U!ApplyScanned
    BY DEF U!Next, U!Work, U!Request, U!Cancel, U!EditSource, U!Confirm,
       U!ChangeRules, U!Discover, U!SetSelected, U!ClaimMigration, U!Probe,
       U!ClaimRun, U!Scan, U!Store, U!Read, U!Reject, U!ProbeFails,
       U!ScanFails, U!Restart, U!KeepSource, RelocationInv, U!TypeOK, U!Source
  <2>. QED BY <2>1, AppliedUnscanned, AppliedWhenScanned
<1>. QED BY <1>1, RelocationInvariant, PTL DEF Spec, AppliedAsScanned
=============================================================================
