------------------------------ MODULE CacheProofs -----------------------------
(***************************************************************************)
(* Theorems about Cache, for any number of processes, archives, sources    *)
(* and updates.  See README.md for the argument.                           *)
(***************************************************************************)
EXTENDS Cache, FiniteSetTheorems, NaturalsInduction, WellFoundedInduction, TLAPS

USE CacheAssumption

(***************************************************************************)
(* What Resolve returns.                                                   *)
(***************************************************************************)

(* A non-empty set of archives has a first one, and Min is it.             *)
LEMMA FirstPak ==
  ASSUME NEW S \in SUBSET Paks, S # {}
  PROVE  Min(S) \in S
<1>1. S \subseteq Nat
  BY DEF Paks
<1>2. PICK x \in S : \A y \in S : <<y, x>> \notin OpToRel(<, Nat)
  BY <1>1, WFMin, NatLessThanWellFounded
<1>3. ASSUME NEW y \in S PROVE x <= y
  <2>1. ~(y < x)
    <3>1. <<y, x>> \notin OpToRel(<, Nat)
      BY <1>2
    <3>2. x \in Nat /\ y \in Nat
      BY <1>1
    <3> QED BY <3>1, <3>2 DEF OpToRel
  <2> QED BY <1>1, <2>1
<1> QED BY <1>3 DEF Min

Listings == [Paks -> Record \union {None}]
Places == [pak : Paks, name : Names]

LEMMA ResolveType ==
  ASSUME NEW listing \in Listings, NEW k \in Keys, Resolve(listing, k) # None
  PROVE  Resolve(listing, k) \in Places
<1> DEFINE ByPath == IF PathOf[k] = None THEN {} ELSE Holders(listing, PathOf[k])
           Same   == {n \in Names : BaseOf[n] = BaseOf[k]}
           ByBase == UNION {Holders(listing, n) : n \in Same}
           i == Min(ByBase)
           n0 == CHOOSE n \in Same : n \in listing[i].names
<1>1. ByPath \in SUBSET Paks /\ ByBase \in SUBSET Paks
  BY DEF Holders
<1>2. CASE ByPath # {}
  <2>1. Resolve(listing, k) = [pak |-> Min(ByPath), name |-> PathOf[k]]
    BY <1>2 DEF Resolve
  <2>2. PathOf[k] \in Names
    BY <1>2
  <2> QED BY <1>1, <1>2, <2>1, <2>2, FirstPak DEF Places
<1>3. CASE ByPath = {} /\ ByBase # {}
  <2>1. Resolve(listing, k) = [pak |-> i, name |-> n0]
    BY <1>3 DEF Resolve
  <2>2. i \in ByBase
    BY <1>1, <1>3, FirstPak
  <2>3. PICK n \in Same : i \in Holders(listing, n)
    BY <2>2
  <2>4. n0 \in Same
    BY <2>3 DEF Holders
  <2> QED BY <1>1, <2>1, <2>2, <2>4 DEF Places
<1>4. CASE ByPath = {} /\ ByBase = {}
  BY <1>4 DEF Resolve
<1> QED BY <1>2, <1>3, <1>4

(***************************************************************************)
(* Type correctness.                                                       *)
(***************************************************************************)
RunOK(r) == CASE r.pc = "idle" -> r = Idle
              [] r.pc = "producing" -> IsProducing(r)
              [] OTHER -> IsListing(r)

Typed ==
  /\ paks \in [Paks -> [stamp : Nat, holds : SUBSET Names]]
  /\ build \in BuildIds /\ clock \in Nat /\ runs \in Nat
  /\ indexFile \in Listings
  /\ trees \in [BuildIds -> Tree]
  /\ DOMAIN run = Processes
  /\ \A p \in Processes : RunOK(run[p])

(* A process moves on to a run that is well formed; the others stay.       *)
LEMMA OneRuns ==
  ASSUME Typed, NEW p \in Processes, NEW r, RunOK(r), run' = [run EXCEPT ![p] = r]
  PROVE  DOMAIN run' = Processes /\ \A q \in Processes : RunOK(run'[q])
BY DEF Typed, RunOK

LEMMA IdleOK == RunOK(Idle)
BY DEF RunOK, Idle

LEMMA ListingRun ==
  ASSUME NEW p \in Processes, RunOK(run[p]),
         Running(p, "listing") \/ Running(p, "planning")
  PROVE  IsListing(run[p])
BY DEF Running, RunOK

LEMMA ProducingRun ==
  ASSUME NEW p \in Processes, RunOK(run[p]), Running(p, "producing")
  PROVE  IsProducing(run[p])
BY DEF Running, RunOK

LEMMA InitTyped == Init => Typed
<1> SUFFICES ASSUME Init PROVE Typed
  OBVIOUS
<1>1. paks \in [Paks -> [stamp : Nat, holds : SUBSET Names]]
  BY DEF Init, Paks, Shippable
<1>2. trees \in [BuildIds -> Tree] /\ indexFile \in Listings
  BY DEF Init, EmptyTree, Tree, Listings, NoIndex
<1>3. clock \in Nat
  BY DEF Init
<1> QED BY <1>1, <1>2, <1>3, IdleOK DEF Typed, Init

LEMMA ListingTypes ==
  ASSUME Typed, NEW p \in Processes, NEW index \in Listings, NEW v \in Compilers,
         NEW want \in SUBSET Keys, NEW force \in BOOLEAN, Listing(p, index, v, want, force)
  PROVE  DOMAIN run' = Processes /\ (\A q \in Processes : RunOK(run'[q])) /\ runs' \in Nat
<1> DEFINE r == [pc |-> "listing", build |-> build, compiler |-> v, want |-> want,
                 force |-> force, listing |-> Statted(index), reread |-> Stale(index),
                 dirty |-> Stale(index) # {}]
<1>1. Statted(index) \in [Paks -> Record]
  BY DEF Statted, Current, Record, Typed, Listings
<1>2. Stale(index) \subseteq Paks
  BY DEF Stale
<1>3. IsListing(r)
  BY <1>1, <1>2 DEF IsListing, Typed
<1>4. RunOK(r)
  BY <1>3 DEF RunOK
<1>5. run' = [run EXCEPT ![p] = r] /\ runs' \in Nat
  BY DEF Listing, Typed
<1> QED BY <1>4, <1>5, OneRuns

LEMMA IndexTypes ==
  ASSUME Typed, NEW p \in Processes,
         Begin(p) \/ RebuildIndex(p) \/ ListPak(p) \/ SaveIndex(p)
  PROVE  Typed'
<1>1. NoIndex \in Listings /\ indexFile \in Listings
  BY DEF Typed, NoIndex, Listings
<1>2. CASE Begin(p)
  <2>1. PICK v \in Compilers, want \in (SUBSET Keys) \ {{}}, force \in BOOLEAN :
          Listing(p, indexFile, v, want, force)
    BY <1>2 DEF Begin
  <2>2. DOMAIN run' = Processes /\ (\A q \in Processes : RunOK(run'[q])) /\ runs' \in Nat
    BY <1>1, <2>1, ListingTypes
  <2> QED BY <1>2, <2>2 DEF Typed, Begin
<1>3. CASE RebuildIndex(p)
  <2>1. PICK v \in Compilers : Listing(p, NoIndex, v, {}, FALSE)
    BY <1>3 DEF RebuildIndex
  <2>2. DOMAIN run' = Processes /\ (\A q \in Processes : RunOK(run'[q])) /\ runs' \in Nat
    BY <1>1, <2>1, ListingTypes
  <2> QED BY <1>1, <1>3, <2>2 DEF Typed, RebuildIndex
<1>4. CASE ListPak(p)
  <2>1. PICK i \in run[p].reread :
          run' = [run EXCEPT ![p].listing[i].names = Listed(i), ![p].reread = @ \ {i}]
    BY <1>4 DEF ListPak
  <2> DEFINE r == [run[p] EXCEPT !.listing[i].names = Listed(i), !.reread = @ \ {i}]
  <2>2. IsListing(run[p]) /\ run[p].pc = "listing"
    BY <1>4, ListingRun DEF Typed, ListPak, Running
  <2>3. Listed(i) \in SUBSET Names
    BY <2>2 DEF Listed, IsListing, Typed
  <2>7. run[p].listing \in [Paks -> Record] /\ i \in Paks
    BY <2>2 DEF IsListing
  <2>8. [run[p].listing EXCEPT ![i].names = Listed(i)] \in [Paks -> Record]
    BY <2>3, <2>7 DEF Record
  <2>4. IsListing(r) /\ r.pc = "listing"
    BY <2>2, <2>8 DEF IsListing
  <2>5. RunOK(r)
    BY <2>4 DEF RunOK
  <2>6. run' = [run EXCEPT ![p] = r]
    BY <2>1
  <2> HIDE DEF r
  <2> QED BY <1>4, <2>5, <2>6, OneRuns DEF Typed, ListPak
<1>5. CASE SaveIndex(p)
  <2> DEFINE r == [run[p] EXCEPT !.pc = "planning"]
  <2>1. IsListing(run[p])
    BY <1>5, ListingRun DEF Typed, SaveIndex
  <2>2. IsListing(r) /\ r.pc = "planning"
    BY <2>1 DEF IsListing
  <2>3. RunOK(r)
    BY <2>2 DEF RunOK
  <2>4. run' = [run EXCEPT ![p] = r]
    BY <1>5 DEF SaveIndex
  <2>5. indexFile' \in Listings
    BY <1>1, <1>5, <2>1 DEF SaveIndex, Rewritten, IsListing, Listings
  <2> HIDE DEF r
  <2> QED BY <1>5, <2>3, <2>4, <2>5, OneRuns DEF Typed, SaveIndex
<1> QED BY <1>2, <1>3, <1>4, <1>5

LEMMA PlanTypes ==
  ASSUME Typed, NEW p \in Processes, Plan(p)
  PROVE  Typed'
<1> DEFINE tree   == Tree_(p)
           Found  == {k \in run[p].want : Resolve(run[p].listing, k) # None}
           At(k)  == Resolve(run[p].listing, k)
           Todo   == {k \in Found :
                        \/ run[p].force
                        \/ ~Reusable(tree.manifest[k], tree, paks[At(k).pak].stamp,
                                     run[p].compiler)}
           jobs   == [k \in Todo |-> [pak |-> At(k).pak, name |-> At(k).name,
                                      stamp |-> paks[At(k).pak].stamp,
                                      phase |-> "todo", data |-> None, made |-> None]]
           r == [pc |-> "producing", build |-> run[p].build, compiler |-> run[p].compiler,
                 entries |-> tree.manifest, jobs |-> jobs]
<1>1. IsListing(run[p])
  BY ListingRun DEF Typed, Plan
<1>2. run[p].listing \in Listings /\ run[p].want \in SUBSET Keys
  BY <1>1 DEF IsListing, Listings
<1>3. \A k \in Found : At(k) \in Places
  BY <1>2, ResolveType
<1>4. \A k \in Todo : At(k).pak \in Paks /\ At(k).name \in Names /\ paks[At(k).pak].stamp \in Nat
  BY <1>3 DEF Places, Typed
<1>5. Todo \subseteq Keys
  BY <1>2
<1>6. tree.manifest \in [Keys -> Entry \union {None}]
  BY <1>1 DEF Tree_, Typed, Tree, IsListing
<1>7. run' = IF Todo = {} THEN [run EXCEPT ![p] = Idle] ELSE [run EXCEPT ![p] = r]
  BY DEF Plan
<1> HIDE DEF Found, At, Todo, tree
<1>8. \A k \in DOMAIN jobs : jobs[k] \in Job
  BY <1>4 DEF Job
<1>9. IsProducing(r)
  <2>1. DOMAIN jobs \subseteq Keys
    BY <1>5
  <2>2. run[p].build \in BuildIds /\ run[p].compiler \in Compilers
    BY <1>1 DEF IsListing
  <2> HIDE DEF jobs
  <2> QED BY <1>6, <1>8, <2>1, <2>2 DEF IsProducing
<1>10. RunOK(r)
  BY <1>9 DEF RunOK
<1>11. DOMAIN run' = Processes /\ \A q \in Processes : RunOK(run'[q])
  <2> HIDE DEF r
  <2> QED BY <1>7, <1>10, IdleOK, OneRuns
<1> QED BY <1>11 DEF Typed, Plan

(* A step on one job of a run.                                             *)
LEMMA JobTypes ==
  ASSUME Typed, NEW p \in Processes, Running(p, "producing"), NEW k \in DOMAIN run[p].jobs,
         NEW j \in Job, run' = [run EXCEPT ![p].jobs[k] = j]
  PROVE  DOMAIN run' = Processes /\ \A q \in Processes : RunOK(run'[q])
<1> DEFINE r == [run[p] EXCEPT !.jobs[k] = j]
<1>1. IsProducing(run[p])
  BY ProducingRun DEF Typed
<1>2. IsProducing(r) /\ r.pc = "producing"
  BY <1>1 DEF IsProducing
<1>3. RunOK(r)
  BY <1>2 DEF RunOK
<1>4. run' = [run EXCEPT ![p] = r]
  OBVIOUS
<1> HIDE DEF r
<1> QED BY <1>3, <1>4, OneRuns

(* Decompiling replaces one job, which has a raw copy to read.             *)
DecompileOf(p, k) ==
  LET j   == run[p].jobs[k]
      raw == Tree_(p).raw[j.name]
  IN  /\ j.phase = "raw" /\ raw \in Data /\ raw \notin {None, Torn}
      /\ run' = [run EXCEPT ![p].jobs[k] =
                   [j EXCEPT !.phase = "scratch", !.made = [data |-> raw, compiler |-> run[p].compiler]]]

LEMMA DecompileStep ==
  ASSUME Typed, NEW p \in Processes, Decompile(p)
  PROVE  \E k \in Started(p) : DecompileOf(p, k)
<1>1. IsProducing(run[p]) /\ Running(p, "producing")
  BY ProducingRun DEF Typed, Decompile
<1>2. trees[run[p].build] \in Tree /\ run[p].build \in BuildIds /\ run[p].compiler \in Compilers
  BY <1>1 DEF IsProducing, Typed
<1>3. \A k \in DOMAIN run[p].jobs : run[p].jobs[k] \in Job
  BY <1>1 DEF IsProducing
<1>4. PICK k \in Started(p) :
        LET j   == run[p].jobs[k]
            raw == Tree_(p).raw[j.name]
        IN  /\ j.phase = "raw" /\ raw \notin {None, Torn}
            /\ run' = [run EXCEPT ![p].jobs[k].phase = "scratch",
                         ![p].jobs[k].made = [data |-> raw, compiler |-> run[p].compiler]]
  BY DEF Decompile
<1> DEFINE j == run[p].jobs[k]
           raw == Tree_(p).raw[j.name]
           m == [data |-> raw, compiler |-> run[p].compiler]
           n == [j EXCEPT !.phase = "scratch", !.made = m]
<1>5. k \in DOMAIN run[p].jobs
  BY DEF Started
<1>6. j \in Job /\ j.name \in Names
  BY <1>3, <1>5 DEF Job
<1>7. raw \in Data
  BY <1>2, <1>4, <1>6 DEF Tree_, Tree
<1> DEFINE half == [run EXCEPT ![p].jobs[k].phase = "scratch"]
<1>8. run' = [half EXCEPT ![p].jobs[k].made = m]
  BY <1>4
<1>9. half = [run EXCEPT ![p].jobs[k] = [j EXCEPT !.phase = "scratch"]]
  OBVIOUS
<1>10. half[p].jobs[k] = [j EXCEPT !.phase = "scratch"]
  BY <1>1, <1>5, <1>9 DEF IsProducing, Typed
<1> HIDE DEF m
<1>11. run' = [half EXCEPT ![p].jobs[k] = [half[p].jobs[k] EXCEPT !.made = m]]
  BY <1>8
<1>12. n = [half[p].jobs[k] EXCEPT !.made = m]
  BY <1>6, <1>10 DEF Job
<1> HIDE DEF half, n
<1>13. run' = [half EXCEPT ![p].jobs[k] = n]
  BY <1>11, <1>12
<1>14. DOMAIN half = Processes /\ DOMAIN half[p].jobs = DOMAIN run[p].jobs
  BY <1>1, <1>9 DEF Typed, IsProducing
<1> DEFINE js == [run[p].jobs EXCEPT ![k] = n]
<1>15. [half[p].jobs EXCEPT ![k] = n] = js
  BY <1>1, <1>5, <1>9, <1>14 DEF Typed, IsProducing
<1>16. run' = [half EXCEPT ![p].jobs = js]
  BY <1>13, <1>15
<1>17. half = [run EXCEPT ![p].jobs = half[p].jobs]
  BY <1>1, <1>9 DEF Typed, IsProducing
<1> HIDE DEF js
<1>18. run' = [run EXCEPT ![p].jobs = js]
  BY <1>1, <1>16, <1>17 DEF Typed, IsProducing
<1>19. run' = [run EXCEPT ![p].jobs[k] = n]
  BY <1>18 DEF js
<1> QED BY <1>4, <1>7, <1>19 DEF DecompileOf, n, m

LEMMA ProduceTypes ==
  ASSUME Typed, NEW p \in Processes, Extract(p) \/ WriteRaw(p) \/ Decompile(p)
  PROVE  Typed'
<1>1. IsProducing(run[p]) /\ Running(p, "producing")
  BY ProducingRun DEF Typed, Extract, WriteRaw, Decompile
<1>2. trees[run[p].build] \in Tree /\ run[p].build \in BuildIds /\ run[p].compiler \in Compilers
  BY <1>1 DEF IsProducing, Typed
<1>3. \A k \in DOMAIN run[p].jobs : run[p].jobs[k] \in Job
  BY <1>1 DEF IsProducing
<1>4. CASE Extract(p)
  <2>1. PICK k \in DOMAIN run[p].jobs :
          LET j == run[p].jobs[k]
          IN  /\ run' = [run EXCEPT ![p].jobs[k].phase = "writing",
                           ![p].jobs[k].data = [pak |-> j.pak, stamp |-> paks[j.pak].stamp]]
              /\ trees' = [trees EXCEPT ![run[p].build].raw[j.name] = Torn]
    BY <1>4 DEF Extract
  <2> DEFINE j == run[p].jobs[k]
             d == [pak |-> j.pak, stamp |-> paks[j.pak].stamp]
             n == [j EXCEPT !.phase = "writing", !.data = d]
  <2>2. j \in Job /\ j.name \in Names
    BY <1>3 DEF Job
  <2>3. d \in Data
    BY <2>2 DEF Job, Data, Typed
  <2>4. n \in Job
    BY <2>2, <2>3 DEF Job
  <2>5. run' = [run EXCEPT ![p].jobs[k] = n]
    BY <2>1
  <2>6. trees' \in [BuildIds -> Tree]
    BY <1>2, <2>1, <2>2 DEF Typed, Tree
  <2> HIDE DEF n
  <2>7. DOMAIN run' = Processes /\ \A q \in Processes : RunOK(run'[q])
    BY <1>1, <2>4, <2>5, JobTypes
  <2> QED BY <1>4, <2>6, <2>7 DEF Typed, Extract
<1>5. CASE WriteRaw(p)
  <2>1. PICK k \in Started(p) :
          LET j == run[p].jobs[k]
          IN  /\ j.phase = "writing"
              /\ run' = [run EXCEPT ![p].jobs[k].phase = "raw"]
              /\ trees' = [trees EXCEPT ![run[p].build].raw[j.name] = j.data]
    BY <1>5 DEF WriteRaw
  <2> DEFINE j == run[p].jobs[k]
             n == [j EXCEPT !.phase = "raw"]
  <2>2. k \in DOMAIN run[p].jobs
    BY DEF Started
  <2>3. j \in Job /\ j.name \in Names /\ j.data \in Data \union {None}
    BY <1>3, <2>2 DEF Job
  <2>4. n \in Job
    BY <2>3 DEF Job
  <2>5. run' = [run EXCEPT ![p].jobs[k] = n]
    BY <2>1
  <2>6. trees' \in [BuildIds -> Tree]
    BY <1>2, <2>1, <2>3 DEF Typed, Tree
  <2> HIDE DEF n
  <2>7. DOMAIN run' = Processes /\ \A q \in Processes : RunOK(run'[q])
    BY <1>1, <2>2, <2>4, <2>5, JobTypes
  <2> QED BY <1>5, <2>6, <2>7 DEF Typed, WriteRaw
<1>6. CASE Decompile(p)
  <2>1. PICK k \in Started(p) : DecompileOf(p, k)
    BY <1>6, DecompileStep
  <2> DEFINE j == run[p].jobs[k]
             n == [j EXCEPT !.phase = "scratch", !.made = [data |-> Tree_(p).raw[j.name], compiler |-> run[p].compiler]]
  <2>2. k \in DOMAIN run[p].jobs
    BY DEF Started
  <2>3. j \in Job /\ j.name \in Names
    BY <1>3, <2>2 DEF Job
  <2>4. n \in Job
    BY <1>2, <2>1, <2>3 DEF Job, Mxml, DecompileOf
  <2>5. run' = [run EXCEPT ![p].jobs[k] = n]
    BY <2>1 DEF DecompileOf
  <2> HIDE DEF n
  <2>7. DOMAIN run' = Processes /\ \A q \in Processes : RunOK(run'[q])
    BY <1>1, <2>2, <2>4, <2>5, JobTypes
  <2> QED BY <1>6, <2>7 DEF Typed, Decompile
<1> QED BY <1>4, <1>5, <1>6

LEMMA EndTypes ==
  ASSUME Typed, NEW p \in Processes, Place(p) \/ Miss(p) \/ SaveManifest(p)
  PROVE  Typed'
<1>1. IsProducing(run[p]) /\ Running(p, "producing")
  BY ProducingRun DEF Typed, Place, Miss, SaveManifest
<1>2. trees[run[p].build] \in Tree /\ run[p].build \in BuildIds /\ run[p].compiler \in Compilers
      /\ run[p].entries \in [Keys -> Entry \union {None}]
  BY <1>1 DEF IsProducing, Typed
<1>3. \A k \in DOMAIN run[p].jobs : run[p].jobs[k] \in Job /\ k \in Keys
  BY <1>1 DEF IsProducing
<1>4. ASSUME NEW k, NEW es \in [Keys -> Entry \union {None}]
      PROVE  RunOK([run[p] EXCEPT !.jobs = Without(run[p].jobs, k), !.entries = es])
  <2> DEFINE js == Without(run[p].jobs, k)
             r == [run[p] EXCEPT !.jobs = js, !.entries = es]
  <2>1. \A x \in DOMAIN js : js[x] \in Job /\ x \in Keys
    BY <1>3 DEF Without
  <2> HIDE DEF js
  <2> DEFINE half == [run[p] EXCEPT !.jobs = js]
  <2>4. half = [pc |-> "producing", build |-> run[p].build, compiler |-> run[p].compiler,
                entries |-> run[p].entries, jobs |-> js]
    BY <1>1 DEF IsProducing
  <2>5. r = [half EXCEPT !.entries = es]
    OBVIOUS
  <2> HIDE DEF half, r
  <2>3. r = [pc |-> "producing", build |-> run[p].build, compiler |-> run[p].compiler,
             entries |-> es, jobs |-> js]
    BY <2>4, <2>5
  <2> HIDE DEF r
  <2>2. IsProducing(r) /\ r.pc = "producing"
    BY <1>2, <2>1, <2>3 DEF IsProducing
  <2> QED BY <2>2 DEF RunOK, js, r
<1>5. CASE Place(p)
  <2>1. PICK k \in Started(p) :
          LET j == run[p].jobs[k]
          IN  /\ trees' = [trees EXCEPT ![run[p].build].mxml[j.name] = j.made]
              /\ run' = [run EXCEPT
                    ![p].jobs = Without(@, k),
                    ![p].entries[k] = [name |-> j.name, stamp |-> j.stamp,
                                       compiler |-> run[p].compiler]]
    BY <1>5 DEF Place, Moved, EntryOf
  <2> DEFINE j == run[p].jobs[k]
             e == [name |-> j.name, stamp |-> j.stamp, compiler |-> run[p].compiler]
             es == [run[p].entries EXCEPT ![k] = e]
             r == [run[p] EXCEPT !.jobs = Without(run[p].jobs, k), !.entries = es]
  <2>2. k \in DOMAIN run[p].jobs
    BY DEF Started
  <2>3. j \in Job /\ j.name \in Names /\ j.made \in Mxml \union {None} /\ j.stamp \in Nat
    BY <1>3, <2>2 DEF Job
  <2>4. e \in Entry
    BY <1>2, <2>3 DEF Entry
  <2>5. es \in [Keys -> Entry \union {None}]
    BY <1>2, <2>4
  <2>6. run' = [run EXCEPT ![p] = r]
    BY <2>1
  <2>7. RunOK(r)
    BY <1>4, <2>5
  <2>8. trees' \in [BuildIds -> Tree]
    BY <1>2, <2>1, <2>3 DEF Typed, Tree
  <2> HIDE DEF r
  <2>9. DOMAIN run' = Processes /\ \A q \in Processes : RunOK(run'[q])
    BY <2>6, <2>7, OneRuns
  <2> QED BY <1>5, <2>8, <2>9 DEF Typed, Place
<1>6. CASE Miss(p)
  <2>1. PICK k \in DOMAIN run[p].jobs : run' = [run EXCEPT ![p].jobs = Without(@, k)]
    BY <1>6 DEF Miss
  <2> DEFINE es == run[p].entries
             r == [run[p] EXCEPT !.jobs = Without(run[p].jobs, k), !.entries = es]
  <2>2. RunOK(r)
    BY <1>2, <1>4
  <2>3. r = [run[p] EXCEPT !.jobs = Without(run[p].jobs, k)]
    BY <1>1 DEF IsProducing
  <2>4. run' = [run EXCEPT ![p] = r]
    BY <2>1, <2>3
  <2> HIDE DEF r
  <2>5. DOMAIN run' = Processes /\ \A q \in Processes : RunOK(run'[q])
    BY <2>2, <2>4, OneRuns
  <2> QED BY <1>6, <2>5 DEF Typed, Miss
<1>7. CASE SaveManifest(p)
  <2>1. DOMAIN run' = Processes /\ \A q \in Processes : RunOK(run'[q])
    BY <1>7, IdleOK, OneRuns DEF SaveManifest
  <2>2. trees' \in [BuildIds -> Tree]
    BY <1>2, <1>7 DEF SaveManifest, WithManifest, Tree, Typed
  <2> QED BY <1>7, <2>1, <2>2 DEF Typed, SaveManifest
<1> QED BY <1>5, <1>6, <1>7

LEMMA StepTyped ==
  ASSUME Typed, [Next]_vars
  PROVE  Typed'
<1>1. ASSUME NEW p \in Processes, GiveUp(p) \/ Stop(p) PROVE Typed'
  <2>1. DOMAIN run' = Processes /\ \A q \in Processes : RunOK(run'[q])
    BY <1>1, IdleOK, OneRuns DEF GiveUp, Stop
  <2> QED BY <1>1, <2>1 DEF Typed, GiveUp, Stop
<1>2. CASE ClearCache
  <2>1. EmptyTree \in Tree /\ NoIndex \in Listings
    BY DEF EmptyTree, Tree, NoIndex, Listings
  <2>2. trees' \in [BuildIds -> Tree] /\ indexFile' \in Listings
    BY <1>2, <2>1 DEF ClearCache, Typed
  <2> QED BY <1>2, <2>2 DEF Typed, ClearCache
<1>3. CASE SteamReplaces
  <2>1. clock' \in Nat /\ build' \in BuildIds
    BY <1>3 DEF SteamReplaces, Typed
  <2>2. paks' \in [Paks -> [stamp : Nat, holds : SUBSET Names]]
    BY <1>3, <2>1 DEF SteamReplaces, Typed, Shippable
  <2> QED BY <1>3, <2>1, <2>2 DEF Typed, SteamReplaces
<1>4. CASE UNCHANGED vars
  BY <1>4 DEF vars, Typed
<1> QED BY <1>1, <1>2, <1>3, <1>4, IndexTypes, PlanTypes, ProduceTypes, EndTypes
        DEF Next, Proceed

LEMMA AlwaysTyped == Spec => []Typed
BY InitTyped, StepTyped, PTL DEF Spec

(* The history variables have their types.                                 *)
HistoryTyped ==
  /\ strays \in [BuildIds -> SUBSET Keys]
  /\ held \in [Processes -> [ours : SUBSET Keys, strays : SUBSET Keys]]

LEMMA StepHistory ==
  ASSUME Typed, HistoryTyped, [Next]_vars
  PROVE  HistoryTyped'
<1>1. NothingHeld \in [ours : SUBSET Keys, strays : SUBSET Keys]
  BY DEF NothingHeld
<1>2. ASSUME NEW p \in Processes, Plan(p) PROVE HistoryTyped'
  <2>1. run[p].build \in BuildIds
    BY <1>2, ListingRun DEF Plan, Typed, IsListing
  <2> QED BY <1>2, <2>1 DEF Plan, HistoryTyped
<1>3. ASSUME NEW p \in Processes, Place(p) PROVE HistoryTyped'
  <2>0. PICK k \in Started(p) : \E name : Overwritten(p, k, name)
    BY <1>3 DEF Place, Moved
  <2>1. PICK n : Overwritten(p, k, n)
    BY <2>0
  <2>2. k \in Keys
    BY <1>3, ProducingRun DEF Place, Started, Typed, IsProducing
  <2>3. \A entries : Named(entries, n) \in SUBSET Keys
    BY DEF Named
  <2> QED BY <2>1, <2>2, <2>3 DEF Overwritten, HistoryTyped
<1>4. ASSUME NEW p \in Processes, SaveManifest(p) PROVE HistoryTyped'
  BY <1>1, <1>4 DEF SaveManifest, HistoryTyped
<1>5. ASSUME NEW p \in Processes, Stop(p) PROVE HistoryTyped'
  BY <1>1, <1>5 DEF Stop, HistoryTyped
<1>6. CASE ClearCache
  BY <1>6 DEF ClearCache, HistoryTyped
<1>7. CASE UNCHANGED history
  BY <1>7 DEF history, HistoryTyped
<1>8. ASSUME NEW p \in Processes,
             \/ Begin(p) \/ RebuildIndex(p) \/ ListPak(p) \/ SaveIndex(p) \/ GiveUp(p)
             \/ Extract(p) \/ WriteRaw(p) \/ Decompile(p) \/ Miss(p)
      PROVE  UNCHANGED history
  BY <1>8 DEF Begin, RebuildIndex, ListPak, SaveIndex, GiveUp, Extract, WriteRaw, Decompile, Miss
<1>9. SteamReplaces \/ UNCHANGED vars => UNCHANGED history
  BY DEF SteamReplaces, vars
<1> QED BY <1>2, <1>3, <1>4, <1>5, <1>6, <1>7, <1>8, <1>9 DEF Next, Proceed

LEMMA AlwaysHistory == Spec => []HistoryTyped
<1>1. Init => HistoryTyped
  BY DEF Init, HistoryTyped, NothingHeld
<1> QED BY <1>1, StepHistory, AlwaysTyped, PTL DEF Spec

(* Every reachable state is well typed.                                    *)
THEOREM CacheTypes == Spec => []TypeOK
<1>1. Typed /\ HistoryTyped => TypeOK
  BY DEF Typed, HistoryTyped, TypeOK, RunOK, Listings
<1> QED BY <1>1, AlwaysTyped, AlwaysHistory, PTL

(***************************************************************************)
(* The index.                                                              *)
(***************************************************************************)

(* A record under an archive's present stamp lists what the archive holds, *)
(* and no stamp is ahead of the clock: the next archive's stamp is new.    *)
Truthful(record, i) ==
  /\ record.stamp <= clock
  /\ record.stamp = paks[i].stamp => record.names = paks[i].holds

(* A listing under way may still be wrong about the archives it has to     *)
(* read again; the stored one may not.                                     *)
IndexTrue ==
  /\ \A i \in Paks : paks[i].stamp <= clock
  /\ \A i \in Paks : indexFile[i] # None => Truthful(indexFile[i], i)
  /\ \A p \in Processes : run[p].pc = "listing" =>
       \A i \in Paks : /\ run[p].listing[i].stamp <= clock
                       /\ i \notin run[p].reread => Truthful(run[p].listing[i], i)

LEMMA ListingTrue ==
  ASSUME Typed, IndexTrue, NEW p \in Processes, NEW index \in Listings, NEW v, NEW want, NEW force,
         \A i \in Paks : index[i] # None => Truthful(index[i], i),
         Listing(p, index, v, want, force), UNCHANGED <<paks, clock>>
  PROVE  \A q \in Processes : run'[q].pc = "listing" =>
           \A i \in Paks : /\ run'[q].listing[i].stamp <= clock
                           /\ i \notin run'[q].reread => Truthful(run'[q].listing[i], i)
<1> SUFFICES ASSUME NEW q \in Processes, run'[q].pc = "listing", NEW i \in Paks
             PROVE  /\ run'[q].listing[i].stamp <= clock
                    /\ i \notin run'[q].reread => Truthful(run'[q].listing[i], i)
  OBVIOUS
<1>1. CASE q # p
  <2>1. run'[q] = run[q]
    BY <1>1 DEF Listing, Typed
  <2> QED BY <2>1 DEF IndexTrue
<1>2. CASE q = p
  <2>1. run'[q].listing = Statted(index) /\ run'[q].reread = Stale(index)
    BY <1>2 DEF Listing, Typed
  <2>2. CASE Current(index, i)
    <3>1. Statted(index)[i] = index[i] /\ Truthful(index[i], i)
      BY <2>2 DEF Statted, Current
    <3> QED BY <2>1, <3>1 DEF Truthful
  <2>3. CASE ~Current(index, i)
    <3>1. Statted(index)[i] = [stamp |-> paks[i].stamp, names |-> {}] /\ i \in Stale(index)
      BY <2>3 DEF Statted, Stale
    <3> QED BY <2>1, <3>1 DEF IndexTrue
  <2> QED BY <2>2, <2>3
<1> QED BY <1>1, <1>2

LEMMA StillProducing ==
  ASSUME Typed, NEW p \in Processes,
         Extract(p) \/ WriteRaw(p) \/ Decompile(p) \/ Place(p) \/ Miss(p)
  PROVE  run'[p].pc = "producing"
<1>1. IsProducing(run[p])
  BY ProducingRun DEF Extract, WriteRaw, Decompile, Place, Miss, Typed
<1>2. run[p].pc = "producing" /\ DOMAIN run = Processes
      /\ run[p] = [pc |-> "producing", build |-> run[p].build, compiler |-> run[p].compiler,
                   entries |-> run[p].entries, jobs |-> run[p].jobs]
  BY <1>1 DEF IsProducing, Typed
<1>3. CASE Extract(p)
  <2>1. PICK k, d : run' = [run EXCEPT ![p].jobs[k].phase = "writing", ![p].jobs[k].data = d]
    BY <1>3, Zenon DEF Extract
  <2> QED BY <1>2, <2>1
<1>4. CASE WriteRaw(p)
  <2>1. PICK k : run' = [run EXCEPT ![p].jobs[k].phase = "raw"]
    BY <1>4, Zenon DEF WriteRaw
  <2> QED BY <1>2, <2>1
<1>5. CASE Decompile(p)
  <2>1. PICK k, m : run' = [run EXCEPT ![p].jobs[k].phase = "scratch", ![p].jobs[k].made = m]
    BY <1>5, Zenon DEF Decompile
  <2> QED BY <1>2, <2>1
<1>6. CASE Place(p)
  <2>1. PICK k, e : run' = [run EXCEPT ![p].jobs = Without(@, k), ![p].entries[k] = e]
    BY <1>6, Zenon DEF Place, Moved
  <2> QED BY <1>2, <2>1
<1>7. CASE Miss(p)
  <2>1. PICK k : run' = [run EXCEPT ![p].jobs = Without(@, k)]
    BY <1>7, Zenon DEF Miss
  <2> QED BY <1>2, <2>1
<1> QED BY <1>3, <1>4, <1>5, <1>6, <1>7

LEMMA StepIndexTrue ==
  ASSUME Typed, IndexTrue, [Next]_vars
  PROVE  IndexTrue'
<1>1. ASSUME UNCHANGED <<paks, clock>>, UNCHANGED indexFile \/ indexFile' = NoIndex,
             \A q \in Processes : run'[q].pc = "listing" => run'[q] = run[q]
      PROVE  IndexTrue'
  BY <1>1 DEF IndexTrue, Truthful, NoIndex
<1>2. ASSUME NEW p \in Processes, NEW r, run' = [run EXCEPT ![p] = r], r.pc # "listing"
      PROVE  \A q \in Processes : run'[q].pc = "listing" => run'[q] = run[q]
  BY <1>2 DEF Typed
<1>3. indexFile \in Listings /\ NoIndex \in Listings
  BY DEF Typed, NoIndex, Listings
<1>4. ASSUME NEW p \in Processes, Begin(p) PROVE IndexTrue'
  <2>1. PICK v \in Compilers, want \in (SUBSET Keys) \ {{}}, force \in BOOLEAN :
          Listing(p, indexFile, v, want, force)
    BY <1>4 DEF Begin
  <2>2. UNCHANGED <<paks, clock, indexFile>>
    BY <1>4 DEF Begin
  <2>3. \A q \in Processes : run'[q].pc = "listing" =>
           \A i \in Paks : /\ run'[q].listing[i].stamp <= clock
                           /\ i \notin run'[q].reread => Truthful(run'[q].listing[i], i)
    BY <1>3, <2>1, <2>2, ListingTrue DEF IndexTrue
  <2> QED BY <2>2, <2>3 DEF IndexTrue, Truthful
<1>5. ASSUME NEW p \in Processes, RebuildIndex(p) PROVE IndexTrue'
  <2>1. PICK v \in Compilers : Listing(p, NoIndex, v, {}, FALSE)
    BY <1>5 DEF RebuildIndex
  <2>2. UNCHANGED <<paks, clock>> /\ indexFile' = NoIndex
    BY <1>5 DEF RebuildIndex
  <2>3. \A i \in Paks : NoIndex[i] = None
    BY DEF NoIndex
  <2>4. \A q \in Processes : run'[q].pc = "listing" =>
           \A i \in Paks : /\ run'[q].listing[i].stamp <= clock
                           /\ i \notin run'[q].reread => Truthful(run'[q].listing[i], i)
    BY <1>3, <2>1, <2>2, <2>3, ListingTrue
  <2> QED BY <2>2, <2>3, <2>4 DEF IndexTrue, Truthful
<1>6. ASSUME NEW p \in Processes, ListPak(p) PROVE IndexTrue'
  <2>1. PICK i \in run[p].reread :
          run' = [run EXCEPT ![p].listing[i].names = Listed(i), ![p].reread = @ \ {i}]
    BY <1>6 DEF ListPak
  <2>2. IsListing(run[p]) /\ run[p].pc = "listing"
    BY <1>6, ListingRun DEF ListPak, Running, Typed
  <2>3. UNCHANGED <<paks, clock, indexFile>>
    BY <1>6 DEF ListPak
  <2>4. ASSUME NEW q \in Processes, run'[q].pc = "listing", NEW h \in Paks
        PROVE  /\ run'[q].listing[h].stamp <= clock
               /\ h \notin run'[q].reread => Truthful(run'[q].listing[h], h)
    <3>1. CASE q # p
      <4>1. run'[q] = run[q]
        BY <2>1, <3>1 DEF Typed
      <4> QED BY <2>4, <4>1 DEF IndexTrue
    <3>2. CASE q = p
      <4>1. /\ run'[q].listing = [run[q].listing EXCEPT ![i].names = Listed(i)]
            /\ run'[q].reread = run[q].reread \ {i}
        BY <2>1, <2>2, <3>2 DEF Typed, IsListing
      <4>2. run[q].listing \in [Paks -> Record] /\ i \in Paks
        BY <2>2, <3>2 DEF IsListing
      <4>3. /\ run[q].listing[h].stamp <= clock
            /\ h \notin run[q].reread => Truthful(run[q].listing[h], h)
        BY <2>2, <3>2 DEF IndexTrue
      <4>4. CASE h = i
        <5>1. run'[q].listing[h].stamp = run[q].listing[h].stamp
              /\ run'[q].listing[h].names = paks[h].holds
          BY <4>1, <4>2, <4>4 DEF Record, Listed
        <5> QED BY <4>3, <5>1 DEF Truthful
      <4>5. CASE h # i
        <5>1. run'[q].listing[h] = run[q].listing[h]
          BY <4>1, <4>2, <4>5
        <5> QED BY <4>1, <4>3, <4>5, <5>1
      <4> QED BY <4>4, <4>5
    <3> QED BY <3>1, <3>2
  <2> QED BY <2>3, <2>4 DEF IndexTrue, Truthful
<1>7. ASSUME NEW p \in Processes, SaveIndex(p) PROVE IndexTrue'
  <2>1. IsListing(run[p]) /\ run[p].pc = "listing" /\ run[p].reread = {}
    BY <1>7, ListingRun DEF SaveIndex, Running, Typed
  <2>2. \A i \in Paks : Truthful(run[p].listing[i], i)
    BY <2>1 DEF IndexTrue
  <2>3. \A i \in Paks : indexFile'[i] # None => Truthful(indexFile'[i], i)
    BY <1>7, <2>2 DEF SaveIndex, Rewritten, IndexTrue
  <2> DEFINE r == [run[p] EXCEPT !.pc = "planning"]
  <2>4. r.pc # "listing" /\ run' = [run EXCEPT ![p] = r]
    BY <1>7, <2>1 DEF SaveIndex, IsListing
  <2> HIDE DEF r
  <2>5. \A q \in Processes : run'[q].pc = "listing" => run'[q] = run[q]
    BY <1>2, <2>4
  <2>6. UNCHANGED <<paks, clock>>
    BY <1>7 DEF SaveIndex
  <2> QED BY <2>3, <2>5, <2>6 DEF IndexTrue, Truthful
<1>8. ASSUME NEW p \in Processes, GiveUp(p) \/ Stop(p) \/ SaveManifest(p) PROVE IndexTrue'
  <2>1. run' = [run EXCEPT ![p] = Idle] /\ UNCHANGED <<paks, clock, indexFile>>
    BY <1>8 DEF GiveUp, Stop, SaveManifest
  <2> QED BY <1>1, <1>2, <2>1 DEF Idle
<1>9. ASSUME NEW p \in Processes, Plan(p) PROVE IndexTrue'
  <2>1. UNCHANGED <<paks, clock, indexFile>>
    BY <1>9 DEF Plan
  <2>2. \E js : \/ run' = [run EXCEPT ![p] = Idle]
                \/ run' = [run EXCEPT ![p] =
                     [pc |-> "producing", build |-> @.build, compiler |-> @.compiler,
                      entries |-> Tree_(p).manifest, jobs |-> js]]
    BY <1>9, Zenon DEF Plan
  <2>3. CASE run' = [run EXCEPT ![p] = Idle]
    BY <1>1, <1>2, <2>1, <2>3 DEF Idle
  <2>4. ASSUME NEW js,
               run' = [run EXCEPT ![p] =
                         [pc |-> "producing", build |-> @.build, compiler |-> @.compiler,
                          entries |-> Tree_(p).manifest, jobs |-> js]]
        PROVE  IndexTrue'
    BY <1>1, <1>2, <2>1, <2>4
  <2> QED BY <2>2, <2>3, <2>4
<1>10. ASSUME NEW p \in Processes,
              Extract(p) \/ WriteRaw(p) \/ Decompile(p) \/ Place(p) \/ Miss(p)
       PROVE  IndexTrue'
  <2>1. run[p].pc = "producing" /\ UNCHANGED <<paks, clock, indexFile>>
    BY <1>10 DEF Extract, WriteRaw, Decompile, Place, Miss, Running
  <2>3. \A q \in Processes : q # p => run'[q] = run[q]
    BY <1>10 DEF Extract, WriteRaw, Decompile, Place, Moved, Miss, Typed
  <2>4. run'[p].pc = "producing"
    BY <1>10, StillProducing
  <2> QED BY <1>1, <2>1, <2>3, <2>4
<1>11. CASE ClearCache
  BY <1>1, <1>11 DEF ClearCache
<1>12. CASE SteamReplaces
  <2>1. PICK i \in Paks : \E holds \in SUBSET Shippable(i) :
          paks' = [paks EXCEPT ![i] = [stamp |-> clock', holds |-> holds]]
    BY <1>12 DEF SteamReplaces
  <2>2. clock' = clock + 1 /\ clock \in Nat /\ UNCHANGED <<indexFile, run>>
    BY <1>12 DEF SteamReplaces, Typed
  <2>3. \A h \in Paks : paks[h].stamp \in Nat /\ paks[h].stamp <= clock
    BY DEF Typed, IndexTrue
  <2>4. \A h \in Paks : paks'[h] = paks[h] \/ paks'[h].stamp = clock + 1
    BY <2>1, <2>2 DEF Typed
  <2>5. ASSUME NEW record \in Record, NEW h \in Paks, record.stamp <= clock
        PROVE  record.stamp <= clock' /\ (Truthful(record, h) => Truthful(record, h)')
    <3>1. record.stamp \in Nat /\ record.stamp # clock + 1
      BY <2>2, <2>5 DEF Record
    <3> QED BY <2>2, <2>4, <2>5, <3>1 DEF Truthful
  <2>6. \A h \in Paks : paks'[h].stamp <= clock'
    BY <2>2, <2>3, <2>4
  <2>7. \A h \in Paks : indexFile'[h] # None => Truthful(indexFile[h], h)'
    BY <2>2, <2>5 DEF Typed, Listings, IndexTrue, Truthful
  <2>8. ASSUME NEW p \in Processes, run'[p].pc = "listing", NEW h \in Paks
        PROVE  /\ run'[p].listing[h].stamp <= clock'
               /\ h \notin run'[p].reread => Truthful(run[p].listing[h], h)'
    <3>1. IsListing(run[p])
      BY <2>2, <2>8, ListingRun DEF Running, Typed
    <3>2. run[p].listing[h] \in Record
      BY <3>1 DEF IsListing
    <3> QED BY <2>2, <2>5, <2>8, <3>2 DEF IndexTrue
  <2> QED BY <2>2, <2>6, <2>7, <2>8 DEF IndexTrue, Truthful
<1>13. CASE UNCHANGED vars
  BY <1>1, <1>13 DEF vars
<1> QED BY <1>4, <1>5, <1>6, <1>7, <1>8, <1>9, <1>10, <1>11, <1>12, <1>13 DEF Next, Proceed

LEMMA InitIndexTrue == Init => IndexTrue
BY DEF Init, IndexTrue, NoIndex, Paks, Idle

(* However an archive is replaced while programs list, store and delete    *)
(* the index: an index that counts as fresh resolves as the archives do.   *)
THEOREM IndexResolves == Spec => []FreshIndexResolves
<1>1. Typed /\ IndexTrue => FreshIndexResolves
  <2> SUFFICES ASSUME Typed, IndexTrue, Stale(indexFile) = {}, NEW k \in Keys
               PROVE  Resolve(indexFile, k) = Resolve(Actual, k)
    BY DEF FreshIndexResolves
  <2>1. ASSUME NEW i \in Paks PROVE indexFile[i] = Actual[i]
    <3>1. Current(indexFile, i)
      BY DEF Stale
    <3>2. indexFile[i] \in Record /\ indexFile[i].stamp = paks[i].stamp
      BY <3>1 DEF Current, Typed, Listings
    <3>3. indexFile[i].names = paks[i].holds
      BY <3>1, <3>2 DEF Current, IndexTrue, Truthful
    <3> QED BY <3>2, <3>3 DEF Record, Actual
  <2>2. indexFile = Actual
    BY <2>1 DEF Actual, Typed, Listings
  <2> QED BY <2>2
<1> QED BY <1>1, InitIndexTrue, StepIndexTrue, AlwaysTyped, PTL DEF Spec

(***************************************************************************)
(* What is reused.  Here there is one program, and the game ships a path   *)
(* in one archive only: an entry does not say which archive its stamp is   *)
(* of, and of two programs the slower one may place an older file after    *)
(* the faster one stored its entry.                                        *)
(***************************************************************************)
OneProgram == \A p, q \in Processes : p = q
OneHome == \A n \in Names : \A h, i \in HomesOf[n] : h = i

(* Stamps tell archives apart, and no listing has a path of an archive     *)
(* that never ships it.                                                    *)
Ships(listing) == \A i \in Paks : listing[i] # None => listing[i].names \subseteq Shippable(i)
Apart(ps) == \A h, i \in Paks : ps[h].stamp = ps[i].stamp => h = i
Shipped ==
  /\ Apart(paks)
  /\ \A i \in Paks : paks[i].holds \subseteq Shippable(i)
  /\ Ships(indexFile)
  /\ \A p \in Processes : run[p].pc \in {"listing", "planning"} => Ships(run[p].listing)

Archives == [Paks -> [stamp : Nat, holds : SUBSET Names]]

(* A stamp that the archive of a path has had, and that no other has.      *)
Mark(ps, n, s) == \E h \in HomesOf[n] : s <= ps[h].stamp /\ \A i \in Paks \ {h} : ps[i].stamp # s

(* Data read from the archive of a path, at that stamp or later.           *)
ReadSince(ps, d, n, s) == d.pak \in HomesOf[n] /\ s <= d.stamp /\ d.stamp <= ps[d.pak].stamp

(* What a manifest says: its stamps are of the archives of the paths it    *)
(* names, and the MXML there is not older.                                 *)
Vouched(ps, entries, mxml) ==
  \A k \in Keys : entries[k] # None =>
    /\ Mark(ps, entries[k].name, entries[k].stamp)
    /\ mxml[entries[k].name] # None =>
         ReadSince(ps, mxml[entries[k].name].data, entries[k].name, entries[k].stamp)

TreeTrue(ps, tree) ==
  /\ Vouched(ps, tree.manifest, tree.mxml)
  /\ \A n \in Names : tree.mxml[n] # None => ReadSince(ps, tree.mxml[n].data, n, 0)

(* No entry for a path has a later stamp.                                  *)
Latest(entries, n, s) ==
  \A k \in Keys : entries[k] # None /\ entries[k].name = n => entries[k].stamp <= s

(* A job: of the jobs and the entries for its path, its stamp is the last, *)
(* and what it holds, and what its raw copy holds, was read since.         *)
JobTrue(ps, j, jobs, entries, tree) ==
  /\ j.pak \in HomesOf[j.name] /\ Mark(ps, j.name, j.stamp)
  /\ Latest(entries, j.name, j.stamp) /\ Latest(tree.manifest, j.name, j.stamp)
  /\ \A k \in DOMAIN jobs : jobs[k].name = j.name => jobs[k].stamp = j.stamp
  /\ j.phase # "todo" =>
       /\ j.data \in Data /\ ReadSince(ps, j.data, j.name, j.stamp)
       /\ tree.raw[j.name] \notin {None, Torn} =>
            ReadSince(ps, tree.raw[j.name], j.name, j.stamp)
  /\ j.phase = "scratch" => j.made \in Mxml /\ ReadSince(ps, j.made.data, j.name, j.stamp)

RunTrue(ps, jobs, entries, tree) ==
  /\ Vouched(ps, entries, tree.mxml)
  /\ \A k \in DOMAIN jobs : JobTrue(ps, jobs[k], jobs, entries, tree)

ReuseTrue ==
  /\ \A b \in BuildIds : TreeTrue(paks, trees[b])
  /\ \A p \in Processes : run[p].pc = "producing" =>
       RunTrue(paks, run[p].jobs, run[p].entries, trees[run[p].build])

(* What is said of stamps stays true when archives get new ones.           *)
LEMMA Later ==
  ASSUME NEW ps \in Archives, NEW qs \in Archives, NEW c \in Nat,
         \A i \in Paks : ps[i].stamp <= c,
         \A i \in Paks : qs[i].stamp = ps[i].stamp \/ qs[i].stamp = c + 1,
         NEW n \in Names, NEW s \in Nat
  PROVE  /\ Mark(ps, n, s) => Mark(qs, n, s)
         /\ \A d \in Data : ReadSince(ps, d, n, s) => ReadSince(qs, d, n, s)
<1>1. \A i \in Paks : ps[i].stamp \in Nat /\ qs[i].stamp \in Nat /\ ps[i].stamp <= qs[i].stamp
  BY DEF Archives
<1>2. ASSUME Mark(ps, n, s) PROVE Mark(qs, n, s)
  <2>1. PICK h \in HomesOf[n] : s <= ps[h].stamp /\ \A i \in Paks \ {h} : ps[i].stamp # s
    BY <1>2 DEF Mark
  <2>2. h \in Paks
    OBVIOUS
  <2>3. s <= qs[h].stamp /\ s <= c
    BY <1>1, <2>1, <2>2
  <2>4. \A i \in Paks \ {h} : qs[i].stamp # s
    BY <1>1, <2>1, <2>3
  <2> QED BY <2>3, <2>4 DEF Mark
<1>3. ASSUME NEW d \in Data, ReadSince(ps, d, n, s) PROVE ReadSince(qs, d, n, s)
  <2>1. d.pak \in Paks /\ d.stamp \in Nat
    BY DEF Data
  <2> QED BY <1>1, <1>3, <2>1 DEF ReadSince
<1> QED BY <1>2, <1>3

(* The archive of a path is where Resolve finds it.                        *)
LEMMA ResolveHome ==
  ASSUME NEW listing \in Listings, Ships(listing), NEW k \in Keys, Resolve(listing, k) # None
  PROVE  Resolve(listing, k).pak \in HomesOf[Resolve(listing, k).name]
<1> DEFINE ByPath == IF PathOf[k] = None THEN {} ELSE Holders(listing, PathOf[k])
           Same   == {n \in Names : BaseOf[n] = BaseOf[k]}
           ByBase == UNION {Holders(listing, n) : n \in Same}
           i == Min(ByBase)
           n0 == CHOOSE n \in Same : n \in listing[i].names
<1>1. ByPath \in SUBSET Paks /\ ByBase \in SUBSET Paks
  BY DEF Holders
<1>2. \A n \in Names : \A h \in Holders(listing, n) : h \in HomesOf[n]
  BY DEF Holders, Ships, Shippable
<1>3. CASE ByPath # {}
  <2>1. Resolve(listing, k) = [pak |-> Min(ByPath), name |-> PathOf[k]]
    BY <1>3 DEF Resolve
  <2>2. PathOf[k] \in Names /\ Min(ByPath) \in ByPath
    BY <1>1, <1>3, FirstPak
  <2> QED BY <1>2, <1>3, <2>1, <2>2
<1>4. CASE ByPath = {} /\ ByBase # {}
  <2>1. Resolve(listing, k) = [pak |-> i, name |-> n0]
    BY <1>4 DEF Resolve
  <2>2. i \in ByBase /\ i \in Paks
    BY <1>1, <1>4, FirstPak
  <2>3. PICK n \in Same : i \in Holders(listing, n)
    BY <2>2
  <2>4. n0 \in Same /\ n0 \in listing[i].names /\ listing[i] # None
    BY <2>3 DEF Holders
  <2> QED BY <2>1, <2>2, <2>4 DEF Ships, Shippable
<1>5. CASE ByPath = {} /\ ByBase = {}
  BY <1>5 DEF Resolve
<1> QED BY <1>3, <1>4, <1>5

LEMMA InitReuse == Init => Shipped /\ ReuseTrue
<1> SUFFICES ASSUME Init PROVE Shipped /\ ReuseTrue
  OBVIOUS
<1>1. Shipped
  BY DEF Init, Shipped, Apart, Ships, NoIndex, Idle, Paks, Shippable
<1>2. \A p \in Processes : run[p].pc = "idle"
  BY DEF Init, Idle
<1>3. \A b \in BuildIds : TreeTrue(paks, trees[b])
  BY DEF Init, EmptyTree, TreeTrue, Vouched
<1> QED BY <1>1, <1>2, <1>3 DEF ReuseTrue


(* A step of the program puts one run in the place of its own.             *)
LEMMA ShippedRun ==
  ASSUME Typed, Shipped, UNCHANGED paks, Ships(indexFile'), NEW p \in Processes, NEW r,
         run' = [run EXCEPT ![p] = r], r.pc \in {"listing", "planning"} => Ships(r.listing)
  PROVE  Shipped'
<1>1. \A q \in Processes : run'[q] = IF q = p THEN r ELSE run[q]
  BY DEF Typed
<1>2. \A q \in Processes : run'[q].pc \in {"listing", "planning"} => Ships(run'[q].listing)
  BY <1>1 DEF Shipped
<1> QED BY <1>2 DEF Shipped, Ships, Apart

LEMMA StepShipped ==
  ASSUME Typed, IndexTrue, Shipped, [Next]_vars
  PROVE  Shipped'
<1>1. ASSUME NEW p \in Processes, NEW index \in Listings, Ships(index), Ships(indexFile'), UNCHANGED paks,
             NEW v, NEW want, NEW force, Listing(p, index, v, want, force)
      PROVE  Shipped'
  <2> DEFINE r == [pc |-> "listing", build |-> build, compiler |-> v, want |-> want,
                   force |-> force, listing |-> Statted(index), reread |-> Stale(index),
                   dirty |-> Stale(index) # {}]
  <2>1. Ships(Statted(index))
    BY <1>1 DEF Ships, Statted, Current
  <2>2. run' = [run EXCEPT ![p] = r]
    BY <1>1 DEF Listing
  <2>3. r.listing = Statted(index)
    OBVIOUS
  <2> HIDE DEF r
  <2> QED BY <1>1, <2>1, <2>2, <2>3, ShippedRun
<1>2. ASSUME NEW p \in Processes, Begin(p) PROVE Shipped'
  <2>1. indexFile \in Listings /\ Ships(indexFile)
    BY DEF Typed, Shipped
  <2>2. PICK v \in Compilers, want \in (SUBSET Keys) \ {{}}, force \in BOOLEAN :
          Listing(p, indexFile, v, want, force)
    BY <1>2 DEF Begin
  <2>3. indexFile' = indexFile /\ paks' = paks
    BY <1>2 DEF Begin
  <2> QED BY <1>1, <2>1, <2>2, <2>3
<1>3. ASSUME NEW p \in Processes, RebuildIndex(p) PROVE Shipped'
  <2>1. NoIndex \in Listings /\ Ships(NoIndex)
    BY DEF NoIndex, Listings, Ships
  <2>2. PICK v \in Compilers : Listing(p, NoIndex, v, {}, FALSE)
    BY <1>3 DEF RebuildIndex
  <2>3. indexFile' = NoIndex /\ paks' = paks
    BY <1>3 DEF RebuildIndex
  <2> QED BY <1>1, <2>1, <2>2, <2>3
<1>4. ASSUME NEW p \in Processes, ListPak(p) PROVE Shipped'
  <2>1. PICK i \in run[p].reread :
          run' = [run EXCEPT ![p].listing[i].names = Listed(i), ![p].reread = @ \ {i}]
    BY <1>4 DEF ListPak
  <2> DEFINE r == [run[p] EXCEPT !.listing[i].names = Listed(i), !.reread = @ \ {i}]
  <2>2. IsListing(run[p]) /\ run[p].pc = "listing"
    BY <1>4, ListingRun DEF ListPak, Running, Typed
  <2>3. UNCHANGED <<paks, indexFile>>
    BY <1>4 DEF ListPak
  <2>4. run[p].listing \in [Paks -> Record] /\ i \in Paks
    BY <2>2 DEF IsListing
  <2>5. r.listing = [run[p].listing EXCEPT ![i].names = Listed(i)]
    BY <2>2 DEF IsListing
  <2>6. Ships(r.listing)
    <3>1. Ships(run[p].listing) /\ Listed(i) \subseteq Shippable(i)
      BY <2>2, <2>4 DEF Shipped, Listed
    <3>2. \A h \in Paks : r.listing[h].names = IF h = i THEN Listed(i) ELSE run[p].listing[h].names
      BY <2>4, <2>5 DEF Record
    <3>3. \A h \in Paks : h # i => r.listing[h] = run[p].listing[h]
      BY <2>4, <2>5
    <3> HIDE DEF r
    <3> QED BY <3>1, <3>2, <3>3 DEF Ships
  <2>7. run' = [run EXCEPT ![p] = r]
    BY <2>1
  <2>8. Ships(indexFile')
    BY <2>3 DEF Shipped
  <2> HIDE DEF r
  <2> QED BY <2>3, <2>6, <2>7, <2>8, ShippedRun
<1>5. ASSUME NEW p \in Processes, SaveIndex(p) PROVE Shipped'
  <2>1. IsListing(run[p]) /\ run[p].pc = "listing"
    BY <1>5, ListingRun DEF SaveIndex, Running, Typed
  <2> DEFINE r == [run[p] EXCEPT !.pc = "planning"]
  <2>2. r.listing = run[p].listing /\ Ships(run[p].listing)
    BY <2>1 DEF IsListing, Shipped
  <2>3. Ships(indexFile')
    BY <1>5, <2>2 DEF SaveIndex, Rewritten, Shipped
  <2>4. run' = [run EXCEPT ![p] = r] /\ UNCHANGED paks
    BY <1>5 DEF SaveIndex
  <2> HIDE DEF r
  <2> QED BY <2>2, <2>3, <2>4, ShippedRun
<1>6. ASSUME UNCHANGED <<paks, indexFile>>,
             \A q \in Processes : run'[q].pc \in {"listing", "planning"} => run'[q] = run[q]
      PROVE  Shipped'
  BY <1>6 DEF Shipped, Ships, Apart
<1>7. ASSUME NEW p \in Processes, GiveUp(p) \/ Stop(p) \/ SaveManifest(p) PROVE Shipped'
  <2>1. run' = [run EXCEPT ![p] = Idle] /\ UNCHANGED <<paks, indexFile>>
    BY <1>7 DEF GiveUp, Stop, SaveManifest
  <2> QED BY <1>6, <2>1 DEF Idle, Typed
<1>8. ASSUME NEW p \in Processes, Plan(p) PROVE Shipped'
  <2>1. UNCHANGED <<paks, indexFile>>
    BY <1>8 DEF Plan
  <2>2. \E js : \/ run' = [run EXCEPT ![p] = Idle]
                \/ run' = [run EXCEPT ![p] =
                     [pc |-> "producing", build |-> @.build, compiler |-> @.compiler,
                      entries |-> Tree_(p).manifest, jobs |-> js]]
    BY <1>8, Zenon DEF Plan
  <2> QED BY <1>6, <2>1, <2>2 DEF Idle, Typed
<1>9. ASSUME NEW p \in Processes,
             Extract(p) \/ WriteRaw(p) \/ Decompile(p) \/ Place(p) \/ Miss(p)
      PROVE  Shipped'
  <2>1. run[p].pc = "producing" /\ UNCHANGED <<paks, indexFile>>
    BY <1>9 DEF Extract, WriteRaw, Decompile, Place, Miss, Running
  <2>2. \A q \in Processes : q # p => run'[q] = run[q]
    BY <1>9 DEF Extract, WriteRaw, Decompile, Place, Moved, Miss, Typed
  <2>3. run'[p].pc = "producing"
    BY <1>9, <2>1, StillProducing
  <2> QED BY <1>6, <2>1, <2>2, <2>3
<1>10. CASE ClearCache
  <2>1. Ships(indexFile') /\ UNCHANGED <<paks, run>>
    BY <1>10 DEF ClearCache, Shipped, Ships, NoIndex
  <2> QED BY <2>1 DEF Shipped, Ships, Apart
<1>11. CASE SteamReplaces
  <2>0. PICK i \in Paks : \E holds \in SUBSET Shippable(i) :
          paks' = [paks EXCEPT ![i] = [stamp |-> clock', holds |-> holds]]
    BY <1>11 DEF SteamReplaces
  <2>1. PICK holds \in SUBSET Shippable(i) :
          paks' = [paks EXCEPT ![i] = [stamp |-> clock', holds |-> holds]]
    BY <2>0
  <2>2. clock' = clock + 1 /\ clock \in Nat /\ UNCHANGED <<indexFile, run>>
    BY <1>11 DEF SteamReplaces, Typed
  <2>3. \A h \in Paks : paks[h].stamp \in Nat /\ paks[h].stamp <= clock
    BY DEF Typed, IndexTrue
  <2>4. \A h \in Paks : paks'[h] = IF h = i THEN [stamp |-> clock + 1, holds |-> holds] ELSE paks[h]
    BY <2>1, <2>2 DEF Typed
  <2>5. Apart(paks')
    BY <2>2, <2>3, <2>4 DEF Apart, Shipped
  <2>6. \A h \in Paks : paks'[h].holds \subseteq Shippable(h)
    BY <2>4 DEF Shipped
  <2> QED BY <2>2, <2>5, <2>6 DEF Shipped, Ships
<1>12. CASE UNCHANGED vars
  BY <1>12 DEF vars, Shipped, Ships, Apart
<1> QED BY <1>2, <1>3, <1>4, <1>5, <1>7, <1>8, <1>9, <1>10, <1>11, <1>12 DEF Next, Proceed


(* The program's own step leaves what it says of its run and of the trees. *)
LEMMA ReuseAfter ==
  ASSUME OneProgram, UNCHANGED paks, NEW p \in Processes,
         \A b \in BuildIds : TreeTrue(paks, trees'[b]),
         run'[p].pc = "producing" =>
           RunTrue(paks, run'[p].jobs, run'[p].entries, trees'[run'[p].build])
  PROVE  ReuseTrue'
BY Zenon DEF ReuseTrue, OneProgram

(* One job goes on, and with it the raw copy at its path may change.       *)
LEMMA OneJob ==
  ASSUME NEW ps, NEW jobs, NEW entries, NEW tree, NEW new, NEW k \in DOMAIN jobs, NEW j,
         RunTrue(ps, jobs, entries, tree),
         new.manifest = tree.manifest, new.mxml = tree.mxml,
         \A l \in DOMAIN jobs : jobs[l].name # j.name => new.raw[jobs[l].name] = tree.raw[jobs[l].name],
         new.raw[j.name] \notin {None, Torn} => ReadSince(ps, new.raw[j.name], j.name, j.stamp),
         j.name = jobs[k].name, j.pak = jobs[k].pak, j.stamp = jobs[k].stamp,
         j.data \in Data, ReadSince(ps, j.data, j.name, j.stamp),
         j.phase = "scratch" => j.made \in Mxml /\ ReadSince(ps, j.made.data, j.name, j.stamp)
  PROVE  RunTrue(ps, [jobs EXCEPT ![k] = j], entries, new)
<1> DEFINE js == [jobs EXCEPT ![k] = j]
<1>1. DOMAIN js = DOMAIN jobs /\ \A l \in DOMAIN jobs : js[l] = IF l = k THEN j ELSE jobs[l]
  OBVIOUS
<1> HIDE DEF js
<1>2. \A l \in DOMAIN jobs : js[l].name = jobs[l].name /\ js[l].stamp = jobs[l].stamp /\ js[l].pak = jobs[l].pak
  BY <1>1
<1>3. ASSUME NEW l \in DOMAIN jobs
      PROVE  JobTrue(ps, js[l], js, entries, new)
  <2>1. JobTrue(ps, jobs[l], jobs, entries, tree)
    BY DEF RunTrue
  <2>2. /\ js[l].pak \in HomesOf[js[l].name] /\ Mark(ps, js[l].name, js[l].stamp)
        /\ Latest(entries, js[l].name, js[l].stamp) /\ Latest(new.manifest, js[l].name, js[l].stamp)
    BY <1>2, <2>1 DEF JobTrue
  <2>3. \A i \in DOMAIN js : js[i].name = js[l].name => js[i].stamp = js[l].stamp
    BY <1>1, <1>2, <2>1 DEF JobTrue
  <2>4. js[l].phase # "todo" => js[l].data \in Data /\ ReadSince(ps, js[l].data, js[l].name, js[l].stamp)
    BY <1>1, <2>1 DEF JobTrue
  <2>5. js[l].phase # "todo" /\ new.raw[js[l].name] \notin {None, Torn} =>
          ReadSince(ps, new.raw[js[l].name], js[l].name, js[l].stamp)
    <3>1. CASE js[l].name = j.name
      <4>1. js[l].stamp = j.stamp
        BY <1>1, <2>3, <3>1
      <4> QED BY <3>1, <4>1
    <3>2. CASE js[l].name # j.name
      <4>1. l # k /\ js[l] = jobs[l] /\ new.raw[js[l].name] = tree.raw[js[l].name]
        BY <1>1, <1>2, <3>2
      <4> QED BY <2>1, <4>1 DEF JobTrue
    <3> QED BY <3>1, <3>2
  <2>6. js[l].phase = "scratch" => js[l].made \in Mxml /\ ReadSince(ps, js[l].made.data, js[l].name, js[l].stamp)
    BY <1>1, <2>1 DEF JobTrue
  <2> QED BY <2>2, <2>3, <2>4, <2>5, <2>6 DEF JobTrue
<1>4. Vouched(ps, entries, new.mxml)
  BY DEF RunTrue
<1> QED BY <1>1, <1>3, <1>4 DEF RunTrue, js

(* A job leaves.                                                           *)
LEMMA FewerJobs ==
  ASSUME NEW ps, NEW jobs, NEW entries, NEW tree, NEW k, RunTrue(ps, jobs, entries, tree)
  PROVE  RunTrue(ps, Without(jobs, k), entries, tree)
<1> DEFINE js == Without(jobs, k)
<1>1. \A l \in DOMAIN js : l \in DOMAIN jobs /\ js[l] = jobs[l]
  BY DEF Without
<1> HIDE DEF js
<1>2. ASSUME NEW l \in DOMAIN js PROVE JobTrue(ps, js[l], js, entries, tree)
  BY <1>1 DEF JobTrue, RunTrue
<1> QED BY <1>2 DEF RunTrue, js

(* The MXML of a job is placed, and the entry made.                        *)
LEMMA OnePlaced ==
  ASSUME NEW ps \in Archives, NEW jobs, NEW entries \in [Keys -> Entry \union {None}], NEW tree \in Tree,
         NEW k \in DOMAIN jobs, NEW v \in Compilers,
         k \in Keys, jobs[k] \in Job, jobs[k].phase = "scratch",
         TreeTrue(ps, tree), RunTrue(ps, jobs, entries, tree)
  PROVE  LET j   == jobs[k]
             new == [tree EXCEPT !.mxml[j.name] = j.made]
             es  == [entries EXCEPT ![k] = [name |-> j.name, stamp |-> j.stamp, compiler |-> v]]
         IN  TreeTrue(ps, new) /\ RunTrue(ps, Without(jobs, k), es, new)
<1> DEFINE j   == jobs[k]
           new == [tree EXCEPT !.mxml[j.name] = j.made]
           e   == [name |-> j.name, stamp |-> j.stamp, compiler |-> v]
           es  == [entries EXCEPT ![k] = e]
           js  == Without(jobs, k)
<1>2. JobTrue(ps, j, jobs, entries, tree)
  BY DEF RunTrue
<1>1. j.name \in Names /\ j.stamp \in Nat /\ j.made.data \in Data /\ j.made \in Mxml
  BY <1>2 DEF Job, Mxml, JobTrue
<1>3. ReadSince(ps, j.made.data, j.name, j.stamp) /\ Mark(ps, j.name, j.stamp)
      /\ Latest(entries, j.name, j.stamp) /\ Latest(tree.manifest, j.name, j.stamp)
  BY <1>2 DEF JobTrue
<1>4. new.manifest = tree.manifest /\ new.raw = tree.raw
      /\ \A n \in Names : new.mxml[n] = IF n = j.name THEN j.made ELSE tree.mxml[n]
  BY <1>1 DEF Tree
<1>5. \A l \in Keys : es[l] = IF l = k THEN e ELSE entries[l]
  OBVIOUS
<1>6. \A l \in DOMAIN js : l \in DOMAIN jobs /\ js[l] = jobs[l]
  BY DEF Without
<1> HIDE DEF new, es, js
<1>7. \A s \in Nat : s <= j.stamp => ReadSince(ps, j.made.data, j.name, s)
  <2>1. j.made.data.stamp \in Nat
    BY <1>1 DEF Data
  <2> QED BY <1>1, <1>3, <2>1 DEF ReadSince
<1>8. ASSUME NEW fs \in [Keys -> Entry \union {None}], Vouched(ps, fs, tree.mxml), Latest(fs, j.name, j.stamp)
      PROVE  Vouched(ps, fs, new.mxml)
  <2> SUFFICES ASSUME NEW l \in Keys, fs[l] # None
               PROVE  /\ Mark(ps, fs[l].name, fs[l].stamp)
                      /\ new.mxml[fs[l].name] # None =>
                           ReadSince(ps, new.mxml[fs[l].name].data, fs[l].name, fs[l].stamp)
    BY DEF Vouched
  <2>1. fs[l].name \in Names /\ fs[l].stamp \in Nat
    BY <1>8 DEF Entry
  <2>2. CASE fs[l].name = j.name
    <3>1. fs[l].stamp <= j.stamp
      BY <1>8, <2>2 DEF Latest
    <3> QED BY <1>4, <1>7, <1>8, <2>1, <2>2, <3>1 DEF Vouched
  <2>3. CASE fs[l].name # j.name
    BY <1>4, <1>8, <2>1, <2>3 DEF Vouched
  <2> QED BY <2>2, <2>3
<1>9. TreeTrue(ps, new)
  <2>1. Vouched(ps, new.manifest, new.mxml)
    BY <1>3, <1>4, <1>8 DEF TreeTrue, Tree
  <2>2. ReadSince(ps, j.made.data, j.name, 0)
    BY <1>1, <1>7
  <2> QED BY <1>4, <2>1, <2>2 DEF TreeTrue
<1>10. Vouched(ps, es, new.mxml)
  <2>1. Vouched(ps, entries, new.mxml)
    BY <1>3, <1>8 DEF RunTrue
  <2>2. Mark(ps, e.name, e.stamp) /\ ReadSince(ps, new.mxml[e.name].data, e.name, e.stamp)
    BY <1>1, <1>3, <1>4
  <2> HIDE DEF e
  <2> QED BY <1>5, <2>1, <2>2 DEF Vouched
<1>11. ASSUME NEW l \in DOMAIN js PROVE JobTrue(ps, js[l], js, es, new)
  <2>1. JobTrue(ps, jobs[l], jobs, entries, tree) /\ js[l] = jobs[l]
    BY <1>6 DEF RunTrue
  <2>2. jobs[l].name = j.name => jobs[l].stamp = j.stamp
    BY <1>2, <1>6 DEF JobTrue
  <2>3. Latest(es, js[l].name, js[l].stamp)
    <3>1. Latest(entries, js[l].name, js[l].stamp)
      BY <2>1 DEF JobTrue
    <3>2. e.name = js[l].name => e.stamp <= js[l].stamp
      BY <1>1, <2>1, <2>2
    <3> HIDE DEF e
    <3> QED BY <1>5, <3>1, <3>2 DEF Latest
  <2>4. \A i \in DOMAIN js : js[i].name = js[l].name => js[i].stamp = js[l].stamp
    BY <1>6, <2>1 DEF JobTrue
  <2> QED BY <1>4, <2>1, <2>3, <2>4 DEF JobTrue
<1> QED BY <1>9, <1>10, <1>11 DEF RunTrue, js, new, es


(* A plan takes the present stamps, which are the last.                    *)
LEMMA PlanReuse ==
  ASSUME OneProgram, OneHome, Typed, Shipped, ReuseTrue, NEW p \in Processes, Plan(p)
  PROVE  ReuseTrue'
<1> DEFINE tree   == Tree_(p)
           Found  == {k \in run[p].want : Resolve(run[p].listing, k) # None}
           At(k)  == Resolve(run[p].listing, k)
           Todo   == {k \in Found :
                        \/ run[p].force
                        \/ ~Reusable(tree.manifest[k], tree, paks[At(k).pak].stamp,
                                     run[p].compiler)}
           jobs   == [k \in Todo |-> [pak |-> At(k).pak, name |-> At(k).name,
                                      stamp |-> paks[At(k).pak].stamp,
                                      phase |-> "todo", data |-> None, made |-> None]]
           r == [pc |-> "producing", build |-> run[p].build, compiler |-> run[p].compiler,
                 entries |-> tree.manifest, jobs |-> jobs]
<1>1. IsListing(run[p]) /\ run[p].pc = "planning"
  BY ListingRun DEF Typed, Plan, Running
<1>2. run[p].listing \in Listings /\ run[p].want \in SUBSET Keys /\ run[p].build \in BuildIds
  BY <1>1 DEF IsListing, Listings
<1>3. Ships(run[p].listing)
  BY <1>1 DEF Shipped
<1>4. \A k \in Todo : At(k).pak \in Paks /\ At(k).name \in Names /\ At(k).pak \in HomesOf[At(k).name]
  BY <1>2, <1>3, ResolveType, ResolveHome DEF Places
<1>5. run' = IF Todo = {} THEN [run EXCEPT ![p] = Idle] ELSE [run EXCEPT ![p] = r]
  BY DEF Plan
<1>6. tree = trees[run[p].build] /\ tree \in Tree /\ TreeTrue(paks, tree)
  BY <1>2 DEF Tree_, Typed, ReuseTrue
<1> HIDE DEF Found, At, Todo, tree
<1>7. \A k \in Todo : /\ jobs[k].pak = At(k).pak /\ jobs[k].name = At(k).name
                      /\ jobs[k].stamp = paks[At(k).pak].stamp /\ jobs[k].phase = "todo"
  OBVIOUS
<1>8. DOMAIN jobs = Todo
  OBVIOUS
<1> HIDE DEF jobs
<1>9. ASSUME NEW k \in Todo PROVE JobTrue(paks, jobs[k], jobs, tree.manifest, tree)
  <2> DEFINE n == jobs[k].name
             h == jobs[k].pak
             s == jobs[k].stamp
  <2>1. n \in Names /\ h \in Paks /\ h \in HomesOf[n] /\ s = paks[h].stamp /\ s \in Nat
    BY <1>4, <1>7 DEF Typed
  <2>2. Mark(paks, n, s)
    BY <2>1 DEF Mark, Shipped, Apart
  <2>3. Latest(tree.manifest, n, s)
    <3> SUFFICES ASSUME NEW l \in Keys, tree.manifest[l] # None, tree.manifest[l].name = n
                 PROVE  tree.manifest[l].stamp <= s
      BY DEF Latest
    <3>1. Mark(paks, n, tree.manifest[l].stamp)
      BY <1>6 DEF TreeTrue, Vouched
    <3> QED BY <2>1, <3>1 DEF Mark, OneHome
  <2>4. \A i \in Todo : jobs[i].name = n => jobs[i].stamp = s
    BY <1>4, <1>7 DEF OneHome
  <2> HIDE DEF n, h, s
  <2>5. jobs[k].name = n /\ jobs[k].pak = h /\ jobs[k].stamp = s
    BY DEF n, h, s
  <2> QED BY <1>7, <1>8, <2>1, <2>2, <2>3, <2>4, <2>5 DEF JobTrue
<1>10. RunTrue(paks, jobs, tree.manifest, tree)
  BY <1>6, <1>8, <1>9 DEF RunTrue, TreeTrue
<1>11. run'[p] = IF Todo = {} THEN Idle ELSE r
  BY <1>5 DEF Typed
<1>12. run'[p].pc = "producing" =>
         RunTrue(paks, run'[p].jobs, run'[p].entries, trees'[run'[p].build])
  <2>1. trees' = trees
    BY DEF Plan
  <2> QED BY <1>6, <1>10, <1>11, <2>1 DEF Idle
<1>13. UNCHANGED <<paks, trees>>
  BY DEF Plan
<1> QED BY <1>12, <1>13, ReuseAfter DEF ReuseTrue

(* The steps that go on with a job.                                        *)
LEMMA ProduceReuse ==
  ASSUME OneProgram, Typed, ReuseTrue, NEW p \in Processes, NEW k \in DOMAIN run[p].jobs, NEW j,
         Running(p, "producing"), NEW raw, UNCHANGED paks,
         run' = [run EXCEPT ![p].jobs[k] = j],
         \A b \in BuildIds : trees'[b].manifest = trees[b].manifest /\ trees'[b].mxml = trees[b].mxml,
         \A n \in Names \ {j.name} : trees'[run[p].build].raw[n] = trees[run[p].build].raw[n],
         trees'[run[p].build].raw[j.name] = raw,
         raw \notin {None, Torn} => ReadSince(paks, raw, j.name, j.stamp),
         j.name = run[p].jobs[k].name, j.pak = run[p].jobs[k].pak, j.stamp = run[p].jobs[k].stamp,
         j.data \in Data, ReadSince(paks, j.data, j.name, j.stamp),
         j.phase = "scratch" => j.made \in Mxml /\ ReadSince(paks, j.made.data, j.name, j.stamp)
  PROVE  ReuseTrue'
<1> DEFINE b    == run[p].build
           js   == [run[p].jobs EXCEPT ![k] = j]
<1>1. IsProducing(run[p]) /\ b \in BuildIds /\ run[p].jobs[k] \in Job /\ j.name \in Names
  BY ProducingRun DEF Typed, IsProducing, Job
<1>2. run'[p].pc = "producing" /\ run'[p].jobs = js /\ run'[p].entries = run[p].entries /\ run'[p].build = b
  BY <1>1 DEF IsProducing, Typed
<1>3. \A l \in DOMAIN run[p].jobs : run[p].jobs[l].name \in Names
  BY <1>1 DEF IsProducing, Job
<1>4. RunTrue(paks, run[p].jobs, run[p].entries, trees[b])
  BY DEF ReuseTrue, Running
<1>5. \A l \in DOMAIN run[p].jobs : run[p].jobs[l].name # j.name =>
        trees'[b].raw[run[p].jobs[l].name] = trees[b].raw[run[p].jobs[l].name]
  BY <1>3
<1>6. trees'[b].manifest = trees[b].manifest /\ trees'[b].mxml = trees[b].mxml
  BY <1>1
<1>7. RunTrue(paks, js, run[p].entries, trees'[b])
  <2> DEFINE jobs    == run[p].jobs
             entries == run[p].entries
             tree    == trees[b]
             new     == trees'[b]
  <2>1. RunTrue(paks, jobs, entries, tree) /\ k \in DOMAIN jobs
    BY <1>4
  <2>2. new.manifest = tree.manifest /\ new.mxml = tree.mxml
    BY <1>6
  <2>3. \A l \in DOMAIN jobs : jobs[l].name # j.name => new.raw[jobs[l].name] = tree.raw[jobs[l].name]
    BY <1>5
  <2>4. new.raw[j.name] \notin {None, Torn} => ReadSince(paks, new.raw[j.name], j.name, j.stamp)
    OBVIOUS
  <2>5. j.name = jobs[k].name /\ j.pak = jobs[k].pak /\ j.stamp = jobs[k].stamp
    OBVIOUS
  <2>6. js = [jobs EXCEPT ![k] = j]
    OBVIOUS
  <2> HIDE DEF jobs, entries, tree, new, js, b
  <2>7. RunTrue(paks, js, entries, new)
    BY <2>1, <2>2, <2>3, <2>4, <2>5, <2>6, OneJob
  <2> QED BY <2>7 DEF entries, new
<1>8. \A c \in BuildIds : TreeTrue(paks, trees'[c])
  BY DEF ReuseTrue, TreeTrue
<1> HIDE DEF js
<1> QED BY <1>1, <1>2, <1>7, <1>8, ReuseAfter

LEMMA StepReuse ==
  ASSUME OneProgram, OneHome, Typed, IndexTrue, Shipped, ReuseTrue, [Next]_vars, Typed'
  PROVE  ReuseTrue'
<1>1. ASSUME NEW p \in Processes, UNCHANGED <<paks, trees>>, run'[p].pc # "producing" PROVE ReuseTrue'
  BY <1>1, ReuseAfter DEF ReuseTrue
<1>2. ASSUME NEW p \in Processes, Begin(p) \/ RebuildIndex(p) PROVE ReuseTrue'
  <2>1. \E build_, v, want, force, listing, reread, dirty :
          run' = [run EXCEPT ![p] = [pc |-> "listing", build |-> build_, compiler |-> v, want |-> want,
                   force |-> force, listing |-> listing, reread |-> reread, dirty |-> dirty]]
    BY <1>2 DEF Begin, RebuildIndex, Listing
  <2>2. run'[p].pc = "listing"
    BY <2>1 DEF Typed
  <2> QED BY <1>1, <1>2, <2>2 DEF Begin, RebuildIndex
<1>3. ASSUME NEW p \in Processes, ListPak(p) PROVE ReuseTrue'
  <2>1. IsListing(run[p]) /\ run[p].pc = "listing"
    BY <1>3, ListingRun DEF ListPak, Running, Typed
  <2>2. run'[p].pc = "listing"
    BY <1>3, <2>1 DEF ListPak, IsListing, Typed
  <2> QED BY <1>1, <1>3, <2>2 DEF ListPak
<1>4. ASSUME NEW p \in Processes, SaveIndex(p) PROVE ReuseTrue'
  <2>1. IsListing(run[p])
    BY <1>4, ListingRun DEF SaveIndex, Running, Typed
  <2>2. run'[p].pc = "planning"
    BY <1>4, <2>1 DEF SaveIndex, IsListing, Typed
  <2> QED BY <1>1, <1>4, <2>2 DEF SaveIndex
<1>5. ASSUME NEW p \in Processes, GiveUp(p) \/ Stop(p) PROVE ReuseTrue'
  <2>1. run'[p] = Idle
    BY <1>5 DEF GiveUp, Stop, Typed
  <2> QED BY <1>1, <1>5, <2>1 DEF GiveUp, Stop, Idle
<1>6. ASSUME NEW p \in Processes, Running(p, "producing")
      PROVE  /\ IsProducing(run[p]) /\ run[p].build \in BuildIds /\ trees[run[p].build] \in Tree
             /\ \A k \in DOMAIN run[p].jobs :
                  /\ run[p].jobs[k] \in Job /\ k \in Keys
                  /\ JobTrue(paks, run[p].jobs[k], run[p].jobs, run[p].entries, trees[run[p].build])
             /\ RunTrue(paks, run[p].jobs, run[p].entries, trees[run[p].build])
  <2>1. IsProducing(run[p])
    BY <1>6, ProducingRun DEF Typed
  <2>2. RunTrue(paks, run[p].jobs, run[p].entries, trees[run[p].build])
    BY <1>6 DEF ReuseTrue, Running
  <2> QED BY <2>1, <2>2 DEF IsProducing, Typed, RunTrue
<1>7. ASSUME NEW p \in Processes, Extract(p) PROVE ReuseTrue'
  <2>1. PICK k \in DOMAIN run[p].jobs :
          LET j == run[p].jobs[k]
          IN  /\ j.phase = "todo"
              /\ run' = [run EXCEPT ![p].jobs[k].phase = "writing",
                           ![p].jobs[k].data = [pak |-> j.pak, stamp |-> paks[j.pak].stamp]]
              /\ trees' = [trees EXCEPT ![run[p].build].raw[j.name] = Torn]
    BY <1>7 DEF Extract
  <2> DEFINE j == run[p].jobs[k]
             d == [pak |-> j.pak, stamp |-> paks[j.pak].stamp]
             n == [j EXCEPT !.phase = "writing", !.data = d]
  <2>2. Running(p, "producing") /\ UNCHANGED paks
    BY <1>7 DEF Extract
  <2>3. j \in Job /\ JobTrue(paks, j, run[p].jobs, run[p].entries, trees[run[p].build])
    BY <1>6, <2>2
  <2>4. n.name = j.name /\ n.pak = j.pak /\ n.stamp = j.stamp /\ n.phase = "writing" /\ n.data = d
    BY <2>3 DEF Job
  <2>5. ReadSince(paks, d, j.name, j.stamp)
    <3>1. j.pak \in Paks /\ paks[j.pak].stamp \in Nat /\ j.name \in Names
      BY <2>3 DEF Job, Typed
    <3>2. j.pak \in HomesOf[j.name] /\ Mark(paks, j.name, j.stamp)
      BY <2>3 DEF JobTrue
    <3>3. j.stamp <= paks[j.pak].stamp
      BY <3>1, <3>2 DEF Mark, OneHome
    <3> QED BY <3>1, <3>2, <3>3 DEF ReadSince
  <2>6. run' = [run EXCEPT ![p].jobs[k] = n]
    BY <2>1
  <2>7. /\ \A b \in BuildIds : trees'[b].manifest = trees[b].manifest /\ trees'[b].mxml = trees[b].mxml
        /\ \A x \in Names \ {n.name} : trees'[run[p].build].raw[x] = trees[run[p].build].raw[x]
        /\ trees'[run[p].build].raw[n.name] = Torn
    <3> DEFINE b == run[p].build
               x == n.name
               raw == Torn
    <3>1. x \in Names /\ b \in BuildIds /\ trees' = [trees EXCEPT ![b].raw[x] = raw]
      BY <1>6, <2>1, <2>2, <2>3, <2>4 DEF Job
    <3> HIDE DEF b, x, raw
    <3>2. trees[b] \in Tree
      BY <3>1 DEF Typed
    <3>3. \A c \in BuildIds : trees'[c] = IF c = b THEN [trees[b] EXCEPT !.raw[x] = raw] ELSE trees[c]
      BY <3>1 DEF Typed
    <3>4. /\ \A c \in BuildIds : trees'[c].manifest = trees[c].manifest /\ trees'[c].mxml = trees[c].mxml
          /\ \A y \in Names \ {x} : trees'[b].raw[y] = trees[b].raw[y]
          /\ trees'[b].raw[x] = raw
      BY <3>1, <3>2, <3>3 DEF Tree
    <3> QED BY <3>4 DEF b, x, raw
  <2>8. d \in Data
    BY <2>3 DEF Job, Data, Typed
  <2> HIDE DEF n, d
  <2> QED BY <2>8,  <2>2, <2>4, <2>5, <2>6, <2>7, ProduceReuse
<1>8. ASSUME NEW p \in Processes, WriteRaw(p) PROVE ReuseTrue'
  <2>1. PICK k \in Started(p) :
          LET j == run[p].jobs[k]
          IN  /\ j.phase = "writing"
              /\ run' = [run EXCEPT ![p].jobs[k].phase = "raw"]
              /\ trees' = [trees EXCEPT ![run[p].build].raw[j.name] = j.data]
    BY <1>8 DEF WriteRaw
  <2> DEFINE j == run[p].jobs[k]
             n == [j EXCEPT !.phase = "raw"]
  <2>2. Running(p, "producing") /\ UNCHANGED paks /\ k \in DOMAIN run[p].jobs
    BY <1>8 DEF WriteRaw, Started
  <2>3. j \in Job /\ JobTrue(paks, j, run[p].jobs, run[p].entries, trees[run[p].build])
    BY <1>6, <2>2
  <2>4. n.name = j.name /\ n.pak = j.pak /\ n.stamp = j.stamp /\ n.phase = "raw" /\ n.data = j.data
    BY <2>3 DEF Job
  <2>5. j.data \in Data /\ ReadSince(paks, j.data, j.name, j.stamp)
    BY <2>1, <2>3 DEF JobTrue
  <2>6. run' = [run EXCEPT ![p].jobs[k] = n]
    BY <2>1
  <2>7. /\ \A b \in BuildIds : trees'[b].manifest = trees[b].manifest /\ trees'[b].mxml = trees[b].mxml
        /\ \A x \in Names \ {n.name} : trees'[run[p].build].raw[x] = trees[run[p].build].raw[x]
        /\ trees'[run[p].build].raw[n.name] = j.data
    <3> DEFINE b == run[p].build
               x == n.name
               raw == j.data
    <3>1. x \in Names /\ b \in BuildIds /\ trees' = [trees EXCEPT ![b].raw[x] = raw]
      BY <1>6, <2>1, <2>2, <2>3, <2>4 DEF Job
    <3> HIDE DEF b, x, raw
    <3>2. trees[b] \in Tree
      BY <3>1 DEF Typed
    <3>3. \A c \in BuildIds : trees'[c] = IF c = b THEN [trees[b] EXCEPT !.raw[x] = raw] ELSE trees[c]
      BY <3>1 DEF Typed
    <3>4. /\ \A c \in BuildIds : trees'[c].manifest = trees[c].manifest /\ trees'[c].mxml = trees[c].mxml
          /\ \A y \in Names \ {x} : trees'[b].raw[y] = trees[b].raw[y]
          /\ trees'[b].raw[x] = raw
      BY <3>1, <3>2, <3>3 DEF Tree
    <3> QED BY <3>4 DEF b, x, raw
  <2> HIDE DEF n
  <2> QED BY <2>2, <2>4, <2>5, <2>6, <2>7, ProduceReuse
<1>9. ASSUME NEW p \in Processes, Decompile(p) PROVE ReuseTrue'
  <2>1. PICK k \in Started(p) : DecompileOf(p, k)
    BY <1>9, DecompileStep
  <2> DEFINE j == run[p].jobs[k]
             raw == Tree_(p).raw[j.name]
             m == [data |-> raw, compiler |-> run[p].compiler]
             n == [j EXCEPT !.phase = "scratch", !.made = m]
  <2>2. Running(p, "producing") /\ UNCHANGED <<paks, trees>> /\ k \in DOMAIN run[p].jobs
    BY <1>9 DEF Decompile, Started
  <2>3. /\ j \in Job /\ JobTrue(paks, j, run[p].jobs, run[p].entries, trees[run[p].build])
        /\ run[p].build \in BuildIds /\ trees[run[p].build] \in Tree /\ IsProducing(run[p])
    BY <1>6, <2>2
  <2>4. n.name = j.name /\ n.pak = j.pak /\ n.stamp = j.stamp /\ n.data = j.data /\ n.made = m
    BY <2>3 DEF Job
  <2>8. m \in Mxml /\ m.data = raw
    BY <2>1, <2>3 DEF Mxml, DecompileOf, IsProducing
  <2>5. j.data \in Data /\ ReadSince(paks, j.data, j.name, j.stamp) /\ ReadSince(paks, raw, j.name, j.stamp)
    BY <2>1, <2>3 DEF JobTrue, DecompileOf, Tree_
  <2>6. run' = [run EXCEPT ![p].jobs[k] = n]
    BY <2>1 DEF DecompileOf
  <2>7. trees'[run[p].build].raw[n.name] = raw
    BY <2>2, <2>4 DEF Tree_
  <2> HIDE DEF n
  <2> QED BY <2>2, <2>4, <2>5, <2>6, <2>7, <2>8, ProduceReuse
<1>10. ASSUME NEW p \in Processes, Place(p) PROVE ReuseTrue'
  <2>1. PICK k \in Started(p) :
          LET j == run[p].jobs[k]
          IN  /\ j.phase = "scratch"
              /\ trees' = [trees EXCEPT ![run[p].build].mxml[j.name] = j.made]
              /\ run' = [run EXCEPT
                    ![p].jobs = Without(@, k),
                    ![p].entries[k] = [name |-> j.name, stamp |-> j.stamp,
                                       compiler |-> run[p].compiler]]
    BY <1>10 DEF Place, Moved, EntryOf
  <2> DEFINE j == run[p].jobs[k]
             b == run[p].build
             tree == trees[b]
             new == [tree EXCEPT !.mxml[j.name] = j.made]
             e == [name |-> j.name, stamp |-> j.stamp, compiler |-> run[p].compiler]
             es == [run[p].entries EXCEPT ![k] = e]
  <2>2. Running(p, "producing") /\ UNCHANGED paks /\ k \in DOMAIN run[p].jobs
    BY <1>10 DEF Place, Started
  <2>3. /\ IsProducing(run[p]) /\ b \in BuildIds /\ tree \in Tree /\ j \in Job /\ k \in Keys
        /\ RunTrue(paks, run[p].jobs, run[p].entries, tree)
    BY <1>6, <2>2
  <2>4. run[p].compiler \in Compilers /\ run[p].entries \in [Keys -> Entry \union {None}]
    BY <2>3 DEF IsProducing
  <2>5. TreeTrue(paks, tree) /\ paks \in Archives
    BY <2>3 DEF ReuseTrue, Typed, Archives
  <2>6. TreeTrue(paks, new) /\ RunTrue(paks, Without(run[p].jobs, k), es, new)
    BY <2>1, <2>2, <2>3, <2>4, <2>5, OnePlaced
  <2>7. \A c \in BuildIds : trees'[c] = IF c = b THEN new ELSE trees[c]
    BY <2>1 DEF Typed
  <2> HIDE DEF new, e
  <2>8. run'[p].jobs = Without(run[p].jobs, k) /\ run'[p].entries = es /\ run'[p].build = b
    <3> DEFINE half == [run EXCEPT ![p].jobs = Without(run[p].jobs, k)]
    <3>1. run' = [half EXCEPT ![p].entries[k] = e]
      BY <2>1 DEF e
    <3>2. half[p] = [pc |-> "producing", build |-> run[p].build, compiler |-> run[p].compiler,
                     entries |-> run[p].entries, jobs |-> Without(run[p].jobs, k)]
          /\ DOMAIN half = Processes
      BY <2>3 DEF IsProducing, Typed
    <3> HIDE DEF half
    <3> QED BY <3>1, <3>2
  <2> HIDE DEF es
  <2>9. \A c \in BuildIds : TreeTrue(paks, trees'[c])
    BY <2>6, <2>7 DEF ReuseTrue
  <2> QED BY <2>2, <2>3, <2>6, <2>7, <2>8, <2>9, ReuseAfter
<1>11. ASSUME NEW p \in Processes, Miss(p) PROVE ReuseTrue'
  <2>1. PICK k \in DOMAIN run[p].jobs : run' = [run EXCEPT ![p].jobs = Without(@, k)]
    BY <1>11 DEF Miss
  <2>2. Running(p, "producing") /\ UNCHANGED <<paks, trees>>
    BY <1>11 DEF Miss
  <2>3. IsProducing(run[p]) /\ RunTrue(paks, run[p].jobs, run[p].entries, trees[run[p].build])
    BY <1>6, <2>2
  <2>4. run'[p].jobs = Without(run[p].jobs, k) /\ run'[p].entries = run[p].entries
        /\ run'[p].build = run[p].build
    BY <2>1, <2>3 DEF IsProducing, Typed
  <2>5. RunTrue(paks, Without(run[p].jobs, k), run[p].entries, trees[run[p].build])
    BY <2>3, FewerJobs
  <2> QED BY <2>2, <2>4, <2>5, ReuseAfter DEF ReuseTrue
<1>12. ASSUME NEW p \in Processes, SaveManifest(p) PROVE ReuseTrue'
  <2> DEFINE b == run[p].build
             new == [trees[b] EXCEPT !.manifest = run[p].entries]
  <2>1. run'[p] = Idle /\ UNCHANGED paks /\ Running(p, "producing")
    BY <1>12 DEF SaveManifest, Typed
  <2>2. b \in BuildIds /\ trees[b] \in Tree /\ RunTrue(paks, run[p].jobs, run[p].entries, trees[b])
    BY <1>6, <2>1
  <2>3. \A c \in BuildIds : trees'[c] = IF c = b THEN new ELSE trees[c]
    BY <1>12 DEF SaveManifest, WithManifest, Typed
  <2>4. new.manifest = run[p].entries /\ new.mxml = trees[b].mxml
    BY <2>2 DEF Tree
  <2>5. TreeTrue(paks, new)
    BY <2>2, <2>4 DEF TreeTrue, RunTrue, ReuseTrue
  <2> HIDE DEF new
  <2>6. \A c \in BuildIds : TreeTrue(paks, trees'[c])
    BY <2>3, <2>5 DEF ReuseTrue
  <2> QED BY <2>1, <2>6, ReuseAfter DEF Idle
<1>13. CASE ClearCache
  <2>1. UNCHANGED <<paks, run>> /\ \A b \in BuildIds : trees'[b] = EmptyTree \/ trees'[b] = trees[b]
    BY <1>13 DEF ClearCache, Typed
  <2>2. TreeTrue(paks, EmptyTree)
    BY DEF EmptyTree, TreeTrue, Vouched
  <2>3. \A b \in BuildIds : TreeTrue(paks, trees'[b])
    BY <2>1, <2>2 DEF ReuseTrue
  <2>4. ASSUME NEW p \in Processes, run[p].pc = "producing"
        PROVE  RunTrue(paks, run[p].jobs, run[p].entries, trees'[run[p].build])
    <3>1. /\ run[p].build \in BuildIds /\ RunTrue(paks, run[p].jobs, run[p].entries, trees[run[p].build])
          /\ IsProducing(run[p])
      BY <1>6, <2>4 DEF Running
    <3>2. CASE trees'[run[p].build] = EmptyTree
      <4>1. Vouched(paks, run[p].entries, EmptyTree.mxml)
        <5>1. \A l \in Keys : run[p].entries[l] # None => run[p].entries[l].name \in Names
          BY <3>1 DEF IsProducing, Entry
        <5> QED BY <3>1, <5>1 DEF RunTrue, Vouched, EmptyTree
      <4>2. ASSUME NEW k \in DOMAIN run[p].jobs
            PROVE  JobTrue(paks, run[p].jobs[k], run[p].jobs, run[p].entries, EmptyTree)
        <5>1. JobTrue(paks, run[p].jobs[k], run[p].jobs, run[p].entries, trees[run[p].build])
          BY <3>1 DEF RunTrue
        <5>2. Latest(EmptyTree.manifest, run[p].jobs[k].name, run[p].jobs[k].stamp)
          BY DEF Latest, EmptyTree
        <5>3. EmptyTree.raw[run[p].jobs[k].name] = None
          BY <3>1 DEF IsProducing, Job, EmptyTree
        <5> QED BY <5>1, <5>2, <5>3 DEF JobTrue
      <4> QED BY <3>2, <4>1, <4>2 DEF RunTrue
    <3> QED BY <2>1, <3>1, <3>2
  <2> QED BY <2>1, <2>3, <2>4 DEF ReuseTrue
<1>14. CASE SteamReplaces
  <2>1. PICK i \in Paks : \E holds \in SUBSET Shippable(i) :
          paks' = [paks EXCEPT ![i] = [stamp |-> clock', holds |-> holds]]
    BY <1>14 DEF SteamReplaces
  <2>2. clock' = clock + 1 /\ clock \in Nat /\ UNCHANGED <<trees, run>>
    BY <1>14 DEF SteamReplaces, Typed
  <2>3. paks \in Archives /\ paks' \in Archives
    BY DEF Typed, Archives
  <2>4. \A h \in Paks : paks'[h].stamp = paks[h].stamp \/ paks'[h].stamp = clock + 1
    BY <2>1, <2>2 DEF Typed
  <2>5. ASSUME NEW n \in Names, NEW s \in Nat
        PROVE  /\ Mark(paks, n, s) => Mark(paks', n, s)
               /\ \A d \in Data : ReadSince(paks, d, n, s) => ReadSince(paks', d, n, s)
    BY <2>2, <2>3, <2>4, Later DEF IndexTrue
  <2>6. ASSUME NEW es \in [Keys -> Entry \union {None}], NEW mxml \in [Names -> Mxml \union {None}],
               Vouched(paks, es, mxml)
        PROVE  Vouched(paks', es, mxml)
    <3> SUFFICES ASSUME NEW k \in Keys, es[k] # None
                 PROVE  /\ Mark(paks', es[k].name, es[k].stamp)
                        /\ mxml[es[k].name] # None =>
                             ReadSince(paks', mxml[es[k].name].data, es[k].name, es[k].stamp)
      BY DEF Vouched
    <3>1. es[k].name \in Names /\ es[k].stamp \in Nat
      BY DEF Entry
    <3>2. mxml[es[k].name] # None => mxml[es[k].name].data \in Data
      BY <3>1 DEF Mxml
    <3> QED BY <2>5, <2>6, <3>1, <3>2 DEF Vouched
  <2>7. ASSUME NEW b \in BuildIds PROVE TreeTrue(paks', trees[b])
    <3>1. trees[b] \in Tree /\ TreeTrue(paks, trees[b])
      BY DEF Typed, ReuseTrue
    <3>2. Vouched(paks', trees[b].manifest, trees[b].mxml)
      BY <2>6, <3>1 DEF Tree, TreeTrue
    <3>3. \A n \in Names : trees[b].mxml[n] # None => trees[b].mxml[n].data \in Data
      BY <3>1 DEF Tree, Mxml
    <3> QED BY <2>5, <3>1, <3>2, <3>3 DEF TreeTrue
  <2>8. ASSUME NEW p \in Processes, run[p].pc = "producing"
        PROVE  RunTrue(paks', run[p].jobs, run[p].entries, trees[run[p].build])
    <3> DEFINE tree == trees[run[p].build]
    <3>1. IsProducing(run[p]) /\ tree \in Tree /\ RunTrue(paks, run[p].jobs, run[p].entries, tree)
      BY <1>6, <2>8 DEF Running
    <3>2. Vouched(paks', run[p].entries, tree.mxml)
      BY <2>6, <3>1 DEF IsProducing, Tree, RunTrue
    <3>3. ASSUME NEW k \in DOMAIN run[p].jobs
          PROVE  JobTrue(paks', run[p].jobs[k], run[p].jobs, run[p].entries, tree)
      <4> DEFINE j == run[p].jobs[k]
      <4>1. j \in Job /\ j.name \in Names /\ j.stamp \in Nat
        BY <3>1 DEF IsProducing, Job
      <4>2. JobTrue(paks, j, run[p].jobs, run[p].entries, tree)
        BY <3>1 DEF RunTrue
      <4>3. tree.raw[j.name] \notin {None, Torn} => tree.raw[j.name] \in Data
        BY <3>1, <4>1 DEF Tree
      <4>4. j.phase # "todo" => j.data \in Data
        BY <4>1, <4>2 DEF JobTrue, Job
      <4>5. j.made \in Mxml => j.made.data \in Data
        BY DEF Mxml
      <4> HIDE DEF j, tree
      <4>6. JobTrue(paks', j, run[p].jobs, run[p].entries, tree)
        BY <2>5, <4>1, <4>2, <4>3, <4>4, <4>5 DEF JobTrue
      <4> QED BY <4>6 DEF j
    <3> QED BY <3>2, <3>3 DEF RunTrue
  <2> QED BY <2>2, <2>7, <2>8 DEF ReuseTrue
<1>15. CASE UNCHANGED vars
  BY <1>15 DEF vars, ReuseTrue
<1> QED BY <1>2, <1>3, <1>4, <1>5, <1>7, <1>8, <1>9, <1>10, <1>11, <1>12, <1>13, <1>14, <1>15,
           PlanReuse DEF Next, Proceed

(***************************************************************************)
(* The compilers.                                                          *)
(***************************************************************************)

(* But for the keys that stray, an entry names the compiler of its MXML.   *)
Agree(entries, mxml, astray) ==
  \A k \in Keys \ astray : entries[k] # None /\ mxml[entries[k].name] # None =>
    mxml[entries[k].name].compiler = entries[k].compiler

(* The same of what a run holds, and what it makes is made by its compiler. *)
Own(r, h, mxml) == r.pc = "producing" =>
  /\ Agree(r.entries, mxml, h.strays)
  /\ \A k \in h.ours : r.entries[k].compiler = r.compiler
  /\ \A k \in DOMAIN r.jobs : r.jobs[k].phase = "scratch" => r.jobs[k].made.compiler = r.compiler

CompilersTrue ==
  /\ \A b \in BuildIds : Agree(trees[b].manifest, trees[b].mxml, strays[b])
  /\ \A p \in Processes : Own(run[p], held[p], trees[run[p].build].mxml)

(* A step that places no MXML.                                             *)
LEMMA OwnStep ==
  ASSUME Typed, CompilersTrue, NEW p \in Processes,
         \A q \in Processes \ {p} : run'[q] = run[q] /\ held'[q] = held[q],
         \A b \in BuildIds : trees'[b].mxml = trees[b].mxml,
         \A b \in BuildIds : Agree(trees'[b].manifest, trees[b].mxml, strays'[b]),
         Own(run'[p], held'[p], trees'[run'[p].build].mxml)
  PROVE  CompilersTrue'
<1>1. ASSUME NEW q \in Processes \ {p} PROVE Own(run'[q], held'[q], trees'[run'[q].build].mxml)
  <2>1. run[q].pc = "producing" => run[q].build \in BuildIds
    BY ProducingRun DEF Typed, Running, IsProducing
  <2> QED BY <2>1 DEF Own, CompilersTrue
<1> QED BY <1>1 DEF CompilersTrue

(* A run goes on with a job, or ends one, and keeps its entries.           *)
LEMMA OwnJobs ==
  ASSUME Typed, CompilersTrue, NEW p \in Processes, NEW js,
         run' = [run EXCEPT ![p].jobs = js], UNCHANGED history, Running(p, "producing"),
         \A b \in BuildIds : trees'[b].mxml = trees[b].mxml /\ trees'[b].manifest = trees[b].manifest,
         \A k \in DOMAIN js : js[k].phase = "scratch" => js[k].made.compiler = run[p].compiler
  PROVE  CompilersTrue'
<1>1. IsProducing(run[p])
  BY ProducingRun DEF Typed
<1>2. /\ run'[p].entries = run[p].entries /\ run'[p].build = run[p].build
      /\ run'[p].compiler = run[p].compiler /\ run'[p].jobs = js
  BY <1>1 DEF IsProducing, Typed
<1>3. Own(run'[p], held[p], trees'[run'[p].build].mxml)
  BY <1>1, <1>2 DEF Own, CompilersTrue, Running, IsProducing
<1> QED BY <1>3, OwnStep DEF history, CompilersTrue, Typed

(* A move puts the run's own MXML in place, and whatever else names that    *)
(* path strays.                                                            *)
LEMMA PlaceCompilers ==
  ASSUME Typed, HistoryTyped, CompilersTrue, NEW p \in Processes, Place(p)
  PROVE  CompilersTrue'
<1>1. PICK k \in Started(p) :
        Moved(p, k, EntryOf(run[p].jobs[k].name, run[p].jobs[k].stamp, run[p].compiler))
  BY DEF Place
<1> DEFINE j == run[p].jobs[k]
           b == run[p].build
           e == EntryOf(j.name, j.stamp, run[p].compiler)
           es == [run[p].entries EXCEPT ![k] = e]
<1>2. /\ IsProducing(run[p]) /\ run[p].pc = "producing" /\ b \in BuildIds
      /\ run[p].entries \in [Keys -> Entry \union {None}] /\ trees[b] \in Tree
  BY ProducingRun DEF Place, Running, Typed, IsProducing
<1>3. k \in DOMAIN run[p].jobs /\ k \in Keys /\ j \in Job /\ j.name \in Names /\ j.phase = "scratch"
  BY <1>1, <1>2 DEF Started, IsProducing, Job, Moved
<1>4. j.made.compiler = run[p].compiler
  BY <1>2, <1>3 DEF CompilersTrue, Own
<1>5. /\ \A c \in BuildIds : trees'[c].manifest = trees[c].manifest
      /\ \A c \in BuildIds : \A n \in Names :
           trees'[c].mxml[n] = IF c = b /\ n = j.name THEN j.made ELSE trees[c].mxml[n]
  BY <1>1, <1>2, <1>3 DEF Moved, Typed, Tree
<1>6. \A c \in BuildIds :
        strays'[c] = IF c = b THEN strays[c] \union Named(trees[b].manifest, j.name) ELSE strays[c]
  BY <1>1 DEF Moved, Overwritten, Tree_, HistoryTyped
<1>7. ASSUME NEW c \in BuildIds PROVE Agree(trees'[c].manifest, trees'[c].mxml, strays'[c])
  <2> SUFFICES ASSUME NEW l \in Keys \ strays'[c], trees'[c].manifest[l] # None,
                      trees'[c].mxml[trees'[c].manifest[l].name] # None
               PROVE  trees'[c].mxml[trees'[c].manifest[l].name].compiler = trees'[c].manifest[l].compiler
    BY DEF Agree
  <2>1. trees[c].manifest[l] # None /\ trees[c].manifest[l].name \in Names
    BY <1>5 DEF Typed, Tree, Entry
  <2>2. l \notin strays[c] /\ (c = b => trees[c].manifest[l].name # j.name)
    BY <1>6, <2>1 DEF Named
  <2> QED BY <1>5, <2>1, <2>2 DEF CompilersTrue, Agree
<1>8. ASSUME NEW q \in Processes \ {p} PROVE Own(run'[q], held'[q], trees'[run'[q].build].mxml)
  <2>1. run'[q] = run[q]
    BY <1>1 DEF Moved, Typed
  <2> SUFFICES ASSUME run[q].pc = "producing" PROVE Own(run[q], held'[q], trees'[run[q].build].mxml)
    BY <2>1 DEF Own
  <2> DEFINE c == run[q].build
             fs == run[q].entries
  <2>2. c \in BuildIds /\ fs \in [Keys -> Entry \union {None}]
    BY ProducingRun DEF Running, Typed, IsProducing
  <2>3. Own(run[q], held[q], trees[c].mxml)
    BY DEF CompilersTrue
  <2>4. held'[q] = IF c = b THEN [held[q] EXCEPT !.strays = @ \union Named(fs, j.name)] ELSE held[q]
    BY <1>1 DEF Moved, Overwritten, Running
  <2>5. held'[q].ours = held[q].ours
        /\ held'[q].strays = IF c = b THEN held[q].strays \union Named(fs, j.name) ELSE held[q].strays
    BY <2>4 DEF HistoryTyped
  <2>6. Agree(fs, trees'[c].mxml, held'[q].strays)
    <3> SUFFICES ASSUME NEW l \in Keys \ held'[q].strays, fs[l] # None, trees'[c].mxml[fs[l].name] # None
                 PROVE  trees'[c].mxml[fs[l].name].compiler = fs[l].compiler
      BY DEF Agree
    <3>1. fs[l].name \in Names
      BY <2>2 DEF Entry
    <3>2. l \notin held[q].strays /\ (c = b => fs[l].name # j.name)
      BY <2>5 DEF Named
    <3>3. trees'[c].mxml[fs[l].name] = trees[c].mxml[fs[l].name]
      BY <1>5, <2>2, <3>1, <3>2
    <3> QED BY <2>3, <3>2, <3>3 DEF Own, Agree
  <2> QED BY <2>3, <2>5, <2>6 DEF Own
<1>9. /\ run'[p].entries = es /\ run'[p].build = b /\ run'[p].compiler = run[p].compiler
      /\ run'[p].jobs = Without(run[p].jobs, k)
  <2> DEFINE half == [run EXCEPT ![p].jobs = Without(run[p].jobs, k)]
  <2>1. run' = [half EXCEPT ![p].entries[k] = e]
    BY <1>1 DEF Moved
  <2>2. half[p] = [pc |-> "producing", build |-> run[p].build, compiler |-> run[p].compiler,
                   entries |-> run[p].entries, jobs |-> Without(run[p].jobs, k)]
        /\ DOMAIN half = Processes
    BY <1>2 DEF IsProducing, Typed
  <2> HIDE DEF half, e
  <2> QED BY <2>1, <2>2
<1>10. held'[p] = [ours   |-> held[p].ours \union {k},
                   strays |-> (held[p].strays \union (Named(run[p].entries, j.name) \ held[p].ours)) \ {k}]
  BY <1>1 DEF Moved, Overwritten
<1>11. \A l \in Keys : es[l] = IF l = k THEN e ELSE run[p].entries[l]
  BY <1>2, <1>3
<1>12. e.name = j.name /\ e.compiler = run[p].compiler
  BY DEF EntryOf
<1> HIDE DEF e, es
<1>13. Own(run[p], held[p], trees[b].mxml)
  BY DEF CompilersTrue
<1>14. Agree(es, trees'[b].mxml, held'[p].strays)
  <2> SUFFICES ASSUME NEW l \in Keys \ held'[p].strays, es[l] # None, trees'[b].mxml[es[l].name] # None
               PROVE  trees'[b].mxml[es[l].name].compiler = es[l].compiler
    BY DEF Agree
  <2>1. CASE l = k
    BY <1>2, <1>3, <1>4, <1>5, <1>11, <1>12, <2>1
  <2>2. CASE l # k
    <3>1. es[l] = run[p].entries[l] /\ es[l].name \in Names /\ l \notin held[p].strays
      BY <1>2, <1>10, <1>11, <2>2 DEF Entry
    <3>2. CASE es[l].name = j.name
      <4>1. l \in held[p].ours
        BY <1>10, <2>2, <3>1, <3>2 DEF Named
      <4> QED BY <1>2, <1>3, <1>4, <1>5, <1>13, <3>1, <3>2, <4>1 DEF Own
    <3>3. CASE es[l].name # j.name
      <4>1. trees'[b].mxml[es[l].name] = trees[b].mxml[es[l].name]
        BY <1>2, <1>5, <3>1, <3>3
      <4> QED BY <1>2, <1>13, <3>1, <4>1 DEF Own, Agree
    <3> QED BY <3>2, <3>3
  <2> QED BY <2>1, <2>2
<1>15. \A l \in held'[p].ours : es[l].compiler = run[p].compiler
  BY <1>2, <1>3, <1>10, <1>11, <1>12, <1>13 DEF Own, HistoryTyped
<1>16. \A l \in DOMAIN Without(run[p].jobs, k) :
         Without(run[p].jobs, k)[l] = run[p].jobs[l] /\ l \in DOMAIN run[p].jobs
  BY DEF Without
<1>17. Own(run'[p], held'[p], trees'[run'[p].build].mxml)
  BY <1>2, <1>9, <1>13, <1>14, <1>15, <1>16 DEF Own
<1> QED BY <1>7, <1>8, <1>17 DEF CompilersTrue

(* What a plan leaves: nothing to do, or jobs that have not begun.         *)
LEMMA PlannedRun ==
  ASSUME Typed, NEW p \in Processes, Plan(p)
  PROVE  \E jobs :
           /\ \A k \in DOMAIN jobs : jobs[k].phase = "todo"
           /\ run'[p] = Idle \/
              run'[p] = [pc |-> "producing", build |-> run[p].build, compiler |-> run[p].compiler,
                         entries |-> Tree_(p).manifest, jobs |-> jobs]
<1> DEFINE tree   == Tree_(p)
           Found  == {k \in run[p].want : Resolve(run[p].listing, k) # None}
           At(k)  == Resolve(run[p].listing, k)
           Todo   == {k \in Found :
                        \/ run[p].force
                        \/ ~Reusable(tree.manifest[k], tree, paks[At(k).pak].stamp,
                                     run[p].compiler)}
           jobs   == [k \in Todo |-> [pak |-> At(k).pak, name |-> At(k).name,
                                      stamp |-> paks[At(k).pak].stamp,
                                      phase |-> "todo", data |-> None, made |-> None]]
           r == [pc |-> "producing", build |-> run[p].build, compiler |-> run[p].compiler,
                 entries |-> tree.manifest, jobs |-> jobs]
<1>1. run' = IF Todo = {} THEN [run EXCEPT ![p] = Idle] ELSE [run EXCEPT ![p] = r]
  BY DEF Plan
<1>2. \A k \in DOMAIN jobs : jobs[k].phase = "todo"
  OBVIOUS
<1> HIDE DEF Found, At, Todo, tree, jobs
<1>3. run'[p] = Idle \/ run'[p] = r
  BY <1>1 DEF Typed
<1> QED BY <1>2, <1>3 DEF tree

LEMMA StepCompilers ==
  ASSUME Typed, HistoryTyped, CompilersTrue, [Next]_vars
  PROVE  CompilersTrue'
<1>1. ASSUME NEW p \in Processes, UNCHANGED <<trees, strays>>,
             \A q \in Processes \ {p} : run'[q] = run[q] /\ held'[q] = held[q],
             run'[p].pc # "producing"
      PROVE  CompilersTrue'
  <2>1. Own(run'[p], held'[p], trees'[run'[p].build].mxml)
    BY <1>1 DEF Own
  <2> QED BY <1>1, <2>1, OwnStep DEF CompilersTrue
<1>2. ASSUME NEW p \in Processes, Begin(p) \/ RebuildIndex(p) PROVE CompilersTrue'
  <2>1. \E build_, v, want, force, listing, reread, dirty :
          run' = [run EXCEPT ![p] = [pc |-> "listing", build |-> build_, compiler |-> v, want |-> want,
                   force |-> force, listing |-> listing, reread |-> reread, dirty |-> dirty]]
    BY <1>2 DEF Begin, RebuildIndex, Listing
  <2>2. run'[p].pc = "listing" /\ \A q \in Processes \ {p} : run'[q] = run[q]
    BY <2>1 DEF Typed
  <2>3. UNCHANGED <<trees, history>>
    BY <1>2 DEF Begin, RebuildIndex
  <2> QED BY <1>1, <2>2, <2>3 DEF history
<1>3. ASSUME NEW p \in Processes, ListPak(p) PROVE CompilersTrue'
  <2>1. IsListing(run[p]) /\ run[p].pc = "listing"
    BY <1>3, ListingRun DEF ListPak, Running, Typed
  <2>2. run'[p].pc = "listing" /\ \A q \in Processes \ {p} : run'[q] = run[q]
    BY <1>3, <2>1 DEF ListPak, IsListing, Typed
  <2> QED BY <1>1, <1>3, <2>2 DEF ListPak, history
<1>4. ASSUME NEW p \in Processes, SaveIndex(p) PROVE CompilersTrue'
  <2>1. IsListing(run[p])
    BY <1>4, ListingRun DEF SaveIndex, Typed
  <2>2. run'[p].pc = "planning" /\ \A q \in Processes \ {p} : run'[q] = run[q]
    BY <1>4, <2>1 DEF SaveIndex, IsListing, Typed
  <2> QED BY <1>1, <1>4, <2>2 DEF SaveIndex, history
<1>5. ASSUME NEW p \in Processes, GiveUp(p) \/ Stop(p) PROVE CompilersTrue'
  <2>1. run'[p] = Idle /\ UNCHANGED <<trees, strays>>
        /\ \A q \in Processes \ {p} : run'[q] = run[q] /\ held'[q] = held[q]
    BY <1>5 DEF GiveUp, Stop, Typed, HistoryTyped, history
  <2> QED BY <1>1, <2>1 DEF Idle
<1>6. ASSUME NEW p \in Processes, Plan(p) PROVE CompilersTrue'
  <2>1. UNCHANGED <<trees, strays>> /\ \A q \in Processes \ {p} : run'[q] = run[q] /\ held'[q] = held[q]
    BY <1>6 DEF Plan
  <2>2. run[p].build \in BuildIds
    BY <1>6, ListingRun DEF Plan, Typed, IsListing
  <2>3. PICK jobs :
          /\ \A k \in DOMAIN jobs : jobs[k].phase = "todo"
          /\ run'[p] = Idle \/
             run'[p] = [pc |-> "producing", build |-> run[p].build, compiler |-> run[p].compiler,
                        entries |-> Tree_(p).manifest, jobs |-> jobs]
    BY <1>6, PlannedRun
  <2>4. CASE run'[p] = Idle
    BY <1>1, <2>1, <2>4 DEF Idle
  <2>5. CASE run'[p] # Idle
    <3>1. held'[p] = [ours |-> {}, strays |-> strays[run[p].build]]
      BY <1>6, <2>5 DEF Plan, HistoryTyped
    <3>2. Own(run'[p], held'[p], trees'[run'[p].build].mxml)
      BY <2>1, <2>2, <2>3, <2>5, <3>1 DEF Own, CompilersTrue, Tree_
    <3> QED BY <2>1, <3>2, OwnStep DEF CompilersTrue
  <2> QED BY <2>4, <2>5
<1>7. ASSUME NEW p \in Processes, Extract(p) \/ WriteRaw(p) \/ Decompile(p) \/ Miss(p)
      PROVE  /\ Running(p, "producing") /\ UNCHANGED history /\ IsProducing(run[p])
             /\ run[p].build \in BuildIds /\ trees[run[p].build] \in Tree
             /\ \A k \in DOMAIN run[p].jobs :
                  /\ run[p].jobs[k] \in Job
                  /\ run[p].jobs[k].phase = "scratch" => run[p].jobs[k].made.compiler = run[p].compiler
  <2>1. Running(p, "producing") /\ UNCHANGED history
    BY <1>7 DEF Extract, WriteRaw, Decompile, Miss
  <2> QED BY <2>1, ProducingRun DEF Running, Typed, IsProducing, CompilersTrue, Own
<1>8. ASSUME NEW p \in Processes, NEW k \in DOMAIN run[p].jobs, NEW j,
             Extract(p) \/ WriteRaw(p) \/ Decompile(p),
             run' = [run EXCEPT ![p].jobs[k] = j],
             j.phase = "scratch" => j.made.compiler = run[p].compiler
      PROVE  CompilersTrue'
  <2> DEFINE js == [run[p].jobs EXCEPT ![k] = j]
  <2>1. run' = [run EXCEPT ![p].jobs = js]
    BY <1>8
  <2>2. \A l \in DOMAIN js : js[l].phase = "scratch" => js[l].made.compiler = run[p].compiler
    BY <1>7, <1>8
  <2>3. \A b \in BuildIds : trees'[b].mxml = trees[b].mxml /\ trees'[b].manifest = trees[b].manifest
    <3>1. CASE Extract(p)
      <4>1. PICK n : trees' = [trees EXCEPT ![run[p].build].raw[n] = Torn]
        BY <3>1, Zenon DEF Extract
      <4> QED BY <1>7, <1>8, <4>1 DEF Typed, Tree
    <3>2. CASE WriteRaw(p)
      <4>1. PICK n, raw : trees' = [trees EXCEPT ![run[p].build].raw[n] = raw]
        BY <3>2, Zenon DEF WriteRaw
      <4> QED BY <1>7, <1>8, <4>1 DEF Typed, Tree
    <3>3. CASE Decompile(p)
      BY <3>3 DEF Decompile
    <3> QED BY <1>8, <3>1, <3>2, <3>3
  <2>4. Running(p, "producing") /\ UNCHANGED history
    BY <1>7, <1>8
  <2> HIDE DEF js
  <2> QED BY <2>1, <2>2, <2>3, <2>4, OwnJobs
<1>9. ASSUME NEW p \in Processes, Extract(p) PROVE CompilersTrue'
  <2>1. PICK k \in DOMAIN run[p].jobs :
          LET j == run[p].jobs[k]
          IN  run' = [run EXCEPT ![p].jobs[k].phase = "writing",
                        ![p].jobs[k].data = [pak |-> j.pak, stamp |-> paks[j.pak].stamp]]
    BY <1>9 DEF Extract
  <2> DEFINE j == run[p].jobs[k]
             n == [j EXCEPT !.phase = "writing", !.data = [pak |-> j.pak, stamp |-> paks[j.pak].stamp]]
  <2>2. n.phase = "writing"
    BY <1>7, <1>9 DEF Job
  <2>3. run' = [run EXCEPT ![p].jobs[k] = n]
    BY <2>1
  <2> HIDE DEF n
  <2> QED BY <1>8, <1>9, <2>2, <2>3
<1>10. ASSUME NEW p \in Processes, WriteRaw(p) PROVE CompilersTrue'
  <2>1. PICK k \in DOMAIN run[p].jobs : run' = [run EXCEPT ![p].jobs[k].phase = "raw"]
    BY <1>10 DEF WriteRaw, Started
  <2> DEFINE n == [run[p].jobs[k] EXCEPT !.phase = "raw"]
  <2>2. n.phase = "raw"
    BY <1>7, <1>10 DEF Job
  <2>3. run' = [run EXCEPT ![p].jobs[k] = n]
    BY <2>1
  <2> HIDE DEF n
  <2> QED BY <1>8, <1>10, <2>2, <2>3
<1>11. ASSUME NEW p \in Processes, Decompile(p) PROVE CompilersTrue'
  <2>1. PICK k \in Started(p) : DecompileOf(p, k)
    BY <1>11, DecompileStep
  <2> DEFINE j == run[p].jobs[k]
             n == [j EXCEPT !.phase = "scratch",
                            !.made = [data |-> Tree_(p).raw[j.name], compiler |-> run[p].compiler]]
  <2>2. k \in DOMAIN run[p].jobs
    BY DEF Started
  <2>3. n.made.compiler = run[p].compiler
    BY <1>7, <1>11, <2>2 DEF Job
  <2>4. run' = [run EXCEPT ![p].jobs[k] = n]
    BY <2>1 DEF DecompileOf
  <2> HIDE DEF n
  <2> QED BY <1>8, <1>11, <2>2, <2>3, <2>4
<1>12. ASSUME NEW p \in Processes, Miss(p) PROVE CompilersTrue'
  <2>1. PICK k \in DOMAIN run[p].jobs : run' = [run EXCEPT ![p].jobs = Without(@, k)]
    BY <1>12 DEF Miss
  <2> DEFINE js == Without(run[p].jobs, k)
  <2>2. \A l \in DOMAIN js : l \in DOMAIN run[p].jobs /\ js[l] = run[p].jobs[l]
    BY DEF Without
  <2>3. run' = [run EXCEPT ![p].jobs = js] /\ UNCHANGED trees
    BY <1>12, <2>1 DEF Miss
  <2> HIDE DEF js
  <2>4. Running(p, "producing") /\ UNCHANGED history
    BY <1>7, <1>12
  <2>5. \A l \in DOMAIN js : js[l].phase = "scratch" => js[l].made.compiler = run[p].compiler
    BY <1>7, <1>12, <2>2
  <2>6. \A b \in BuildIds : trees'[b].mxml = trees[b].mxml /\ trees'[b].manifest = trees[b].manifest
    BY <2>3
  <2> QED BY <2>3, <2>4, <2>5, <2>6, OwnJobs
<1>13. ASSUME NEW p \in Processes, SaveManifest(p) PROVE CompilersTrue'
  <2> DEFINE b == run[p].build
  <2>1. /\ run'[p] = Idle /\ Running(p, "producing")
        /\ \A q \in Processes \ {p} : run'[q] = run[q] /\ held'[q] = held[q]
    BY <1>13 DEF SaveManifest, Typed, HistoryTyped
  <2>2. b \in BuildIds /\ trees[b] \in Tree /\ Agree(run[p].entries, trees[b].mxml, held[p].strays)
    BY <2>1, ProducingRun DEF Typed, IsProducing, CompilersTrue, Own, Running
  <2>3. \A c \in BuildIds : /\ trees'[c].mxml = trees[c].mxml
                            /\ trees'[c].manifest = IF c = b THEN run[p].entries ELSE trees[c].manifest
                            /\ strays'[c] = IF c = b THEN held[p].strays ELSE strays[c]
    BY <1>13, <2>2 DEF SaveManifest, WithManifest, Typed, HistoryTyped, Tree
  <2>4. \A c \in BuildIds : Agree(trees'[c].manifest, trees[c].mxml, strays'[c])
    BY <2>2, <2>3 DEF CompilersTrue
  <2>5. Own(run'[p], held'[p], trees'[run'[p].build].mxml)
    BY <2>1 DEF Own, Idle
  <2> QED BY <2>1, <2>3, <2>4, <2>5, OwnStep
<1>14. CASE ClearCache
  <2>1. UNCHANGED <<run, held>> /\ \A b \in BuildIds :
          trees'[b] = EmptyTree \/ (trees'[b] = trees[b] /\ strays'[b] = strays[b])
    BY <1>14 DEF ClearCache, Typed, HistoryTyped
  <2>2. \A entries, astray : Agree(EmptyTree.manifest, EmptyTree.mxml, astray)
    BY DEF Agree, EmptyTree
  <2>3. ASSUME NEW p \in Processes PROVE Own(run[p], held[p], trees'[run[p].build].mxml)
    <3> SUFFICES ASSUME run[p].pc = "producing" PROVE Own(run[p], held[p], trees'[run[p].build].mxml)
      BY DEF Own
    <3>1. run[p].build \in BuildIds /\ run[p].entries \in [Keys -> Entry \union {None}]
      BY ProducingRun DEF Typed, Running, IsProducing
    <3>2. Own(run[p], held[p], trees[run[p].build].mxml)
      BY DEF CompilersTrue
    <3>3. Agree(run[p].entries, EmptyTree.mxml, held[p].strays)
      BY <3>1 DEF Agree, EmptyTree, Entry
    <3> QED BY <2>1, <3>1, <3>2, <3>3 DEF Own
  <2> QED BY <2>1, <2>2, <2>3 DEF CompilersTrue
<1>15. CASE SteamReplaces \/ UNCHANGED vars
  BY <1>15 DEF SteamReplaces, vars, history, CompilersTrue
<1> QED BY <1>2, <1>5, <1>6, <1>3, <1>4, <1>9, <1>10, <1>11, <1>12, <1>13, <1>14, <1>15,
           PlaceCompilers DEF Next, Proceed

(* With one program, and every path in one archive: what the manifest      *)
(* hands out was made from what the archive holds now, whenever Steam      *)
(* replaced it and wherever a run was killed; and by the compiler it is    *)
(* handed out under, unless its key strays.                                *)
THEOREM ReuseIsCurrent == OneProgram /\ OneHome => (Spec => []ReusedDataIsCurrent)
<1> SUFFICES ASSUME OneProgram, OneHome PROVE Spec => []ReusedDataIsCurrent
  OBVIOUS
<1>1. Typed /\ IndexTrue /\ Shipped /\ ReuseTrue /\ CompilersTrue => ReusedDataIsCurrent
  <2> SUFFICES ASSUME Typed, IndexTrue, Shipped, ReuseTrue, CompilersTrue,
                      NEW b \in BuildIds, NEW k \in Keys, NEW v \in Compilers, WouldReuse(b, k, v)
               PROVE  /\ Reused(b, k).data.stamp = paks[Resolve(Actual, k).pak].stamp
                      /\ k \notin strays[b] => Reused(b, k).compiler = v
    BY DEF ReusedDataIsCurrent
  <2> DEFINE at == Resolve(Actual, k)
             e == trees[b].manifest[k]
             d == trees[b].mxml[e.name].data
  <2>1. at # None /\ e # None /\ e.stamp = paks[at.pak].stamp /\ trees[b].mxml[e.name] # None
    BY DEF WouldReuse, Reusable
  <2>2. Actual \in Listings
    BY DEF Actual, Listings, Record, Typed
  <2>3. at.pak \in Paks
    BY <2>1, <2>2, ResolveType DEF Places
  <2>4. Mark(paks, e.name, e.stamp) /\ ReadSince(paks, d, e.name, e.stamp)
    BY <2>1 DEF ReuseTrue, TreeTrue, Vouched
  <2>5. e.name \in Names /\ d \in Data
    <3>1. trees[b] \in Tree
      BY DEF Typed
    <3>2. e \in Entry
      BY <2>1, <3>1 DEF Tree
    <3>3. e.name \in Names
      BY <3>2 DEF Entry
    <3> QED BY <2>1, <3>1, <3>3 DEF Tree, Mxml
  <2>6. at.pak \in HomesOf[e.name]
    BY <2>1, <2>3, <2>4 DEF Mark
  <2>7. d.pak = at.pak
    BY <2>4, <2>5, <2>6 DEF ReadSince, OneHome
  <2>8. d.stamp \in Nat /\ paks[at.pak].stamp \in Nat
    BY <2>3, <2>5 DEF Data, Typed
  <2>9. Reused(b, k).data.stamp = paks[at.pak].stamp
    BY <2>1, <2>4, <2>7, <2>8 DEF ReadSince, Reused
  <2>10. k \notin strays[b] => Reused(b, k).compiler = v
    BY <2>1 DEF WouldReuse, Reusable, Reused, CompilersTrue, Agree
  <2> QED BY <2>9, <2>10
<1>2. Init => Shipped /\ ReuseTrue
  BY InitReuse
<1>3. Typed /\ IndexTrue /\ Shipped /\ ReuseTrue /\ [Next]_vars => Shipped' /\ ReuseTrue'
  BY StepTyped, StepShipped, StepReuse
<1>4. Typed /\ IndexTrue /\ [Next]_vars => IndexTrue'
  BY StepIndexTrue
<1>5. Init => CompilersTrue
  BY DEF Init, CompilersTrue, Own, Agree, EmptyTree, Idle
<1>6. Typed /\ HistoryTyped /\ CompilersTrue /\ [Next]_vars => CompilersTrue'
  BY StepCompilers
<1> QED BY <1>1, <1>2, <1>3, <1>4, <1>5, <1>6, InitIndexTrue, AlwaysTyped, AlwaysHistory, PTL DEF Spec

=============================================================================
