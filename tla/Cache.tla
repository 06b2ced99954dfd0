-------------------------------- MODULE Cache --------------------------------
(* The pristine files of a build: the index of the game's archives           *)
(* (hgpak/index.go), the cache of extracted and decompiled files              *)
(* (build/cache/cache.go) and the operations that clear them                  *)
(* (core/cacheops.go).  Steam replaces archives at any moment, a process may  *)
(* stop between any two steps, and two processes may build at once.           *)
(*                                                                            *)
(* An archive is a stamp, its size and mtime, and the files it holds; what a  *)
(* file contains is named by the archive and the stamp it was read at.  What  *)
(* MBINCompiler makes of it is named by that and by the compiler's version.   *)
EXTENDS Naturals, FiniteSets, FiniteSetsExt

CONSTANTS
  Processes,   \* programs that build: the GUI, the CLI
  Keys,        \* sources as scripts spell them, after Key()
  Names,       \* paths inside the archives
  PathOf,      \* the path a key spells, when it spells one exactly
  BaseOf,      \* the base name of a key and of a path
  HomesOf,     \* the archives the game ever ships a path in
  PakCount,    \* archives, in the order PakFiles sorts them
  BuildIds,    \* Steam build ids, each with a cache tree
  Compilers,   \* versions of MBINCompiler
  Workers,     \* how many files one process works on at once
  None,        \* no file, no entry
  Torn,        \* a file that is being written
  MaxUpdates,  \* bound: archives Steam replaces
  MaxRuns,     \* bound: runs of Ensure
  MayStop      \* whether processes are killed

Paks == 1..PakCount

ASSUME CacheAssumption ==
  /\ PakCount \in Nat \ {0} /\ Workers \in Nat \ {0}
  /\ MaxUpdates \in Nat /\ MaxRuns \in Nat /\ MayStop \in BOOLEAN
  /\ PathOf \in [Keys -> Names \union {None}]
  /\ HomesOf \in [Names -> SUBSET Paks]
  /\ None \notin Names \union Processes \union Compilers /\ Torn # None

VARIABLES
  paks,       \* PCBANKS: each archive's stamp and the files it holds
  build,      \* the build id of the installed game
  clock,      \* the last stamp the file system gave out
  indexFile,  \* pak-index.json: each archive's stamp and listed names
  trees,      \* cache/game/<build id>: manifest.json, raw/ and mxml/
  run,        \* each process's Ensure
  runs,       \* how many have begun
  strays,     \* history: keys of a tree whose MXML has been overwritten since
  held        \* history: the same of the entries a run holds, and its own keys

history == <<strays, held>>
vars == <<paks, build, clock, indexFile, trees, run, runs, history>>

(* What an archive can hold.                                                  *)
Shippable(i) == {n \in Names : i \in HomesOf[n]}

(***************************************************************************)
(* The index                                                               *)
(***************************************************************************)

Record == [stamp : Nat, names : SUBSET Names]
NoIndex == [i \in Paks |-> None]

(* The archives of a listing that hold a path: the first of them wins.       *)
Holders(listing, n) == {i \in Paks : listing[i] # None /\ n \in listing[i].names}

(* Where Resolve finds a key: by its exact path, else by base name in the     *)
(* first archive that has one, else nowhere.                                  *)
Resolve(listing, k) ==
  LET ByPath == IF PathOf[k] = None THEN {} ELSE Holders(listing, PathOf[k])
      Same   == {n \in Names : BaseOf[n] = BaseOf[k]}
      ByBase == UNION {Holders(listing, n) : n \in Same}
  IN  CASE ByPath # {} -> [pak |-> Min(ByPath), name |-> PathOf[k]]
        [] ByPath = {} /\ ByBase # {} ->
             LET i == Min(ByBase)
             IN  [pak |-> i, name |-> CHOOSE n \in Same : n \in listing[i].names]
        [] OTHER -> None

(* A stored record is current while its archive still has its stamp.          *)
Current(index, i) == index[i] # None /\ index[i].stamp = paks[i].stamp

(* What IndexFreshness counts: archives unseen, or seen with another stamp.   *)
Stale(index) == {i \in Paks : ~Current(index, i)}

(* The records BuildIndex starts from: the stored one of every current        *)
(* archive, an empty one under today's stamp for the others.                  *)
Statted(index) ==
  [i \in Paks |-> IF Current(index, i) THEN index[i]
                  ELSE [stamp |-> paks[i].stamp, names |-> {}]]

(* What an archive lists when it is opened: what it holds by then.            *)
Listed(i) == paks[i].holds

(* The index file is rewritten whole, and only when an archive was read.      *)
Rewritten(listing, dirty) == IF dirty THEN listing ELSE indexFile

(***************************************************************************)
(* The cache trees and the processes                                       *)
(***************************************************************************)

Entry == [name : Names, stamp : Nat, compiler : Compilers]
Data == [pak : Paks, stamp : Nat]
Mxml == [data : Data, compiler : Compilers]
Job == [pak : Paks, name : Names, stamp : Nat,
        phase : {"todo", "writing", "raw", "scratch"},
        data : Data \union {None}, made : Mxml \union {None}]
Tree == [manifest : [Keys -> Entry \union {None}],
         raw : [Names -> Data \union {None, Torn}],
         mxml : [Names -> Mxml \union {None}]]
EmptyTree == [manifest |-> [k \in Keys |-> None],
              raw |-> [n \in Names |-> None], mxml |-> [n \in Names |-> None]]
Idle == [pc |-> "idle"]

Running(p, pc) == run[p].pc = pc
Tree_(p) == trees[run[p].build]
Started(p) == {k \in DOMAIN run[p].jobs : run[p].jobs[k].phase # "todo"}

(* A stored entry that Ensure hands out as it is: its stamp is the archive's, *)
(* its compiler the one in use, and its MXML exists.  The archive's name and  *)
(* the path inside it are not compared.                                       *)
Reusable(e, tree, stamp, compiler) ==
  /\ e # None
  /\ e.stamp = stamp
  /\ e.compiler = compiler
  /\ tree.mxml[e.name] # None

(***************************************************************************)
(* A run of Ensure, after the index of its session                         *)
(***************************************************************************)

(* BuildIndex stats every archive against an index file.                      *)
Listing(p, index, v, want, force) ==
  /\ Running(p, "idle")
  /\ runs < MaxRuns
  /\ runs' = runs + 1
  /\ run' = [run EXCEPT ![p] =
               [pc |-> "listing", build |-> build, compiler |-> v, want |-> want,
                force |-> force, listing |-> Statted(index), reread |-> Stale(index),
                dirty |-> Stale(index) # {}]]

(* A build opens its session: the compiler is located, the build id and with  *)
(* it the cache tree are fixed, and the index is brought up to date.          *)
Begin(p) ==
  /\ \E v \in Compilers, want \in (SUBSET Keys) \ {{}}, force \in BOOLEAN :
       Listing(p, indexFile, v, want, force)
  /\ UNCHANGED <<paks, build, clock, indexFile, trees, history>>

(* RebuildIndex deletes the index file and lists every archive; it produces   *)
(* no file.                                                                   *)
RebuildIndex(p) ==
  /\ \E v \in Compilers : Listing(p, NoIndex, v, {}, FALSE)
  /\ indexFile' = NoIndex
  /\ UNCHANGED <<paks, build, clock, trees, history>>

(* A worker reads one archive's own listing, whatever it is by now.           *)
ListPak(p) ==
  /\ Running(p, "listing")
  /\ \E i \in run[p].reread :
       run' = [run EXCEPT ![p].listing[i].names = Listed(i),
                          ![p].reread = @ \ {i}]
  /\ UNCHANGED <<paks, build, clock, indexFile, trees, runs, history>>

(* Mutant: a listing that was cut short is stored as if it were complete.     *)
SaveHalfIndex(p) ==
  /\ Running(p, "listing")
  /\ indexFile' = Rewritten(run[p].listing, run[p].dirty)
  /\ run' = [run EXCEPT ![p].pc = "planning"]
  /\ UNCHANGED <<paks, build, clock, trees, runs, history>>

(* The listing is complete; the index file is replaced only when an archive   *)
(* was read.                                                                  *)
SaveIndex(p) ==
  /\ Running(p, "listing")
  /\ run[p].reread = {}
  /\ indexFile' = Rewritten(run[p].listing, run[p].dirty)
  /\ run' = [run EXCEPT ![p].pc = "planning"]
  /\ UNCHANGED <<paks, build, clock, trees, runs, history>>

(* Ensure reads the manifest, resolves every source, stats its archive and    *)
(* splits the sources into those it reuses and those it has to produce.  The  *)
(* stamp of the new entry is taken here, before the archive is read.          *)
Plan(p) ==
  /\ Running(p, "planning")
  /\ LET tree   == Tree_(p)
         Found  == {k \in run[p].want : Resolve(run[p].listing, k) # None}
         At(k)  == Resolve(run[p].listing, k)
         Todo   == {k \in Found :
                      \/ run[p].force
                      \/ ~Reusable(tree.manifest[k], tree, paks[At(k).pak].stamp,
                                   run[p].compiler)}
         jobs   == [k \in Todo |-> [pak |-> At(k).pak, name |-> At(k).name,
                                    stamp |-> paks[At(k).pak].stamp,
                                    phase |-> "todo", data |-> None, made |-> None]]
     IN  run' = IF Todo = {} THEN [run EXCEPT ![p] = Idle]
                ELSE [run EXCEPT ![p] =
                        [pc |-> "producing", build |-> @.build, compiler |-> @.compiler,
                         entries |-> tree.manifest, jobs |-> jobs]]
  /\ held' = [held EXCEPT ![p] =
                [ours |-> {}, strays |-> IF run'[p] = Idle THEN {} ELSE strays[run[p].build]]]
  /\ UNCHANGED <<paks, build, clock, indexFile, trees, runs, strays>>

(* A worker takes a job, reads the file out of the archive and opens the raw  *)
(* copy for writing, which empties it.                                        *)
Extract(p) ==
  /\ Running(p, "producing")
  /\ Cardinality(Started(p)) < Workers
  /\ \E k \in DOMAIN run[p].jobs :
       LET j == run[p].jobs[k]
       IN  /\ j.phase = "todo"
           /\ j.name \in paks[j.pak].holds
           /\ run' = [run EXCEPT ![p].jobs[k].phase = "writing",
                        ![p].jobs[k].data = [pak |-> j.pak, stamp |-> paks[j.pak].stamp]]
           /\ trees' = [trees EXCEPT ![run[p].build].raw[j.name] = Torn]
  /\ UNCHANGED <<paks, build, clock, indexFile, runs, history>>

WriteRaw(p) ==
  /\ Running(p, "producing")
  /\ \E k \in Started(p) :
       LET j == run[p].jobs[k]
       IN  /\ j.phase = "writing"
           /\ run' = [run EXCEPT ![p].jobs[k].phase = "raw"]
           /\ trees' = [trees EXCEPT ![run[p].build].raw[j.name] = j.data]
  /\ UNCHANGED <<paks, build, clock, indexFile, runs, history>>

(* MBINCompiler reads the raw copy, whoever wrote it last, and leaves its     *)
(* MXML in a scratch directory of this job.                                   *)
Decompile(p) ==
  /\ Running(p, "producing")
  /\ \E k \in Started(p) :
       LET j   == run[p].jobs[k]
           raw == Tree_(p).raw[j.name]
       IN  /\ j.phase = "raw"
           /\ raw \notin {None, Torn}
           /\ run' = [run EXCEPT ![p].jobs[k].phase = "scratch",
                        ![p].jobs[k].made = [data |-> raw, compiler |-> run[p].compiler]]
  /\ UNCHANGED <<paks, build, clock, indexFile, trees, runs, history>>

Without(f, k) == [x \in DOMAIN f \ {k} |-> f[x]]

(* History of a move to path n: an entry that names n, in the manifest or     *)
(* among those a run has read, strays from the MXML there, unless this run    *)
(* made it.                                                                   *)
Named(entries, n) == {k \in Keys : entries[k] # None /\ entries[k].name = n}
Overwritten(p, k, n) ==
  /\ strays' = [strays EXCEPT ![run[p].build] = @ \union Named(Tree_(p).manifest, n)]
  /\ held' = [q \in Processes |->
       CASE q = p -> [ours   |-> held[p].ours \union {k},
                      strays |-> (held[p].strays \union (Named(run[p].entries, n) \ held[p].ours)) \ {k}]
         [] q # p /\ Running(q, "producing") /\ run[q].build = run[p].build ->
              [held[q] EXCEPT !.strays = @ \union Named(run[q].entries, n)]
         [] OTHER -> held[q]]

(* The MXML of a job is moved to the place its path names, and an entry made. *)
Moved(p, k, entry) ==
  LET j == run[p].jobs[k]
  IN  /\ j.phase = "scratch"
      /\ trees' = [trees EXCEPT ![run[p].build].mxml[j.name] = j.made]
      /\ run' = [run EXCEPT ![p].jobs = Without(@, k), ![p].entries[k] = entry]
      /\ Overwritten(p, k, j.name)

EntryOf(name, stamp, compiler) == [name |-> name, stamp |-> stamp, compiler |-> compiler]

(* Mutants: the entry is labelled with the archive as it is by now; the entry *)
(* is filed where the script says the file lives.                             *)
PlaceRestamped(p) ==
  /\ Running(p, "producing")
  /\ \E k \in Started(p) :
       LET j == run[p].jobs[k]
       IN  Moved(p, k, EntryOf(j.name, paks[j.pak].stamp, run[p].compiler))
  /\ UNCHANGED <<paks, build, clock, indexFile, runs>>
PlaceAsSpelled(p) ==
  /\ Running(p, "producing")
  /\ \E k \in Started(p) :
       LET j == run[p].jobs[k]
       IN  Moved(p, k, EntryOf(PathOf[k], j.stamp, run[p].compiler))
  /\ UNCHANGED <<paks, build, clock, indexFile, runs>>

(* The entry has the job's path and stamp, and the run's compiler.            *)
Place(p) ==
  /\ Running(p, "producing")
  /\ \E k \in Started(p) :
       LET j == run[p].jobs[k]
       IN  Moved(p, k, EntryOf(j.name, j.stamp, run[p].compiler))
  /\ UNCHANGED <<paks, build, clock, indexFile, runs>>

(* Mutants: a file that left its archive is waited for; a job that failed     *)
(* after it was read is recorded with those that succeeded.                   *)
MissOnlyRefused(p) ==
  /\ Running(p, "producing")
  /\ \E k \in DOMAIN run[p].jobs :
       /\ run[p].jobs[k].phase = "raw"
       /\ run' = [run EXCEPT ![p].jobs = Without(@, k)]
  /\ UNCHANGED <<paks, build, clock, indexFile, trees, runs, history>>
MissRecorded(p) ==
  /\ Running(p, "producing")
  /\ \E k \in DOMAIN run[p].jobs :
       LET j == run[p].jobs[k]
       IN  run' = [run EXCEPT ![p].jobs = Without(@, k),
                     ![p].entries[k] = IF j.phase = "todo" THEN @
                                       ELSE EntryOf(j.name, j.stamp, run[p].compiler)]
  /\ UNCHANGED <<paks, build, clock, indexFile, trees, runs, history>>

(* A file the archive no longer holds, a write or a move that fails, or a raw *)
(* copy MBINCompiler refuses or finds torn: the source is a miss, what it     *)
(* wrote stays, and the others go on.  A run that is cancelled drops the jobs *)
(* it has not started and kills its compilers.                                *)
Miss(p) ==
  /\ Running(p, "producing")
  /\ \E k \in DOMAIN run[p].jobs : run' = [run EXCEPT ![p].jobs = Without(@, k)]
  /\ UNCHANGED <<paks, build, clock, indexFile, trees, runs, history>>

(* The manifest file is replaced in one rename by this process's own copy.    *)
WithManifest(tree, entries) == [tree EXCEPT !.manifest = entries]

NothingHeld == [ours |-> {}, strays |-> {}]

(* Every job has ended: what was produced joins the entries read before, and  *)
(* they replace the manifest, also when the run was cancelled and whatever    *)
(* another process stored in between.                                         *)
SaveManifest(p) ==
  /\ Running(p, "producing")
  /\ run[p].jobs = <<>>
  /\ trees' = [trees EXCEPT ![run[p].build] = WithManifest(@, run[p].entries)]
  /\ run' = [run EXCEPT ![p] = Idle]
  /\ strays' = [strays EXCEPT ![run[p].build] = held[p].strays]
  /\ held' = [held EXCEPT ![p] = NothingHeld]
  /\ UNCHANGED <<paks, build, clock, indexFile, runs>>

(* A listing that is cancelled, or meets an archive it cannot read, is given  *)
(* up and not stored.                                                         *)
GiveUp(p) ==
  /\ Running(p, "listing")
  /\ run[p].dirty
  /\ run' = [run EXCEPT ![p] = Idle]
  /\ UNCHANGED <<paks, build, clock, indexFile, trees, runs, history>>

(* The process is killed, or the index or the manifest cannot be written and  *)
(* that error ends the run.                                                   *)
Stop(p) ==
  /\ MayStop
  /\ ~Running(p, "idle")
  /\ run' = [run EXCEPT ![p] = Idle]
  /\ held' = [held EXCEPT ![p] = NothingHeld]
  /\ UNCHANGED <<paks, build, clock, indexFile, trees, runs, strays>>

(***************************************************************************)
(* The user's and Steam's steps                                            *)
(***************************************************************************)

(* ClearCache deletes the trees of the installed build, or of every build,    *)
(* and the index when asked to.                                               *)
ClearCache ==
  /\ \E ids \in {{build}, BuildIds}, index \in BOOLEAN :
       /\ trees' = [b \in BuildIds |-> IF b \in ids THEN EmptyTree ELSE trees[b]]
       /\ indexFile' = IF index THEN NoIndex ELSE indexFile
       /\ strays' = [b \in BuildIds |-> IF b \in ids THEN {} ELSE strays[b]]
  /\ UNCHANGED <<paks, build, clock, run, runs, held>>

(* Steam replaces one archive of an update, or rolls one back; the build id   *)
(* in its manifest changes before, after or not at all.                       *)
SteamReplaces ==
  /\ clock < PakCount + MaxUpdates
  /\ clock' = clock + 1
  /\ \E i \in Paks : \E holds \in SUBSET Shippable(i) :
       paks' = [paks EXCEPT ![i] = [stamp |-> clock', holds |-> holds]]
  /\ build' \in BuildIds
  /\ UNCHANGED <<indexFile, trees, run, runs, history>>

Init ==
  /\ paks = [i \in Paks |-> [stamp |-> i, holds |-> Shippable(i)]]
  /\ build \in BuildIds
  /\ clock = PakCount
  /\ indexFile = NoIndex
  /\ trees = [b \in BuildIds |-> EmptyTree]
  /\ run = [p \in Processes |-> Idle]
  /\ runs = 0
  /\ strays = [b \in BuildIds |-> {}]
  /\ held = [p \in Processes |-> NothingHeld]

(* What a running build does by itself.                                       *)
Proceed(p) ==
  \/ ListPak(p) \/ SaveIndex(p) \/ GiveUp(p) \/ Plan(p)
  \/ Extract(p) \/ WriteRaw(p) \/ Decompile(p) \/ Place(p) \/ Miss(p)
  \/ SaveManifest(p)

Next ==
  \/ \E p \in Processes : Begin(p) \/ RebuildIndex(p) \/ Proceed(p) \/ Stop(p)
  \/ ClearCache
  \/ SteamReplaces

Spec == Init /\ [][Next]_vars

(* A build that is running keeps going: its workers are goroutines, and every *)
(* MBINCompiler process ends or is killed.                                    *)
FairSpec == Spec /\ \A p \in Processes : WF_vars(Proceed(p))

(***************************************************************************)
(* Properties                                                              *)
(***************************************************************************)

IsListing(r) ==
  r \in [pc : {"listing", "planning"}, build : BuildIds, compiler : Compilers,
         want : SUBSET Keys, force : BOOLEAN, listing : [Paks -> Record],
         reread : SUBSET Paks, dirty : BOOLEAN]
IsProducing(r) ==
  /\ r = [pc |-> "producing", build |-> r.build, compiler |-> r.compiler,
          entries |-> r.entries, jobs |-> r.jobs]
  /\ r.build \in BuildIds /\ r.compiler \in Compilers
  /\ r.entries \in [Keys -> Entry \union {None}]
  /\ DOMAIN r.jobs \subseteq Keys
  /\ \A k \in DOMAIN r.jobs : r.jobs[k] \in Job

(* Every variable has its type.                                               *)
TypeOK ==
  /\ paks \in [Paks -> [stamp : Nat, holds : SUBSET Names]]
  /\ build \in BuildIds /\ clock \in Nat /\ runs \in Nat
  /\ indexFile \in [Paks -> Record \union {None}]
  /\ trees \in [BuildIds -> Tree]
  /\ DOMAIN run = Processes
  /\ \A p \in Processes : CASE run[p].pc = "idle" -> run[p] = Idle
                               [] run[p].pc = "producing" -> IsProducing(run[p])
                               [] OTHER -> IsListing(run[p])
  /\ strays \in [BuildIds -> SUBSET Keys]
  /\ held \in [Processes -> [ours : SUBSET Keys, strays : SUBSET Keys]]

(* The archives as they are, in the form of a listing.                        *)
Actual == [i \in Paks |-> [stamp |-> paks[i].stamp, names |-> paks[i].holds]]

(* When IndexFreshness counts no stale archive, the index resolves every      *)
(* source to the archive and path the archives themselves would: an archive   *)
(* that Steam replaces between the stat and the reading of its listing is     *)
(* never stored under its new stamp with its old names, nor the reverse.      *)
FreshIndexResolves ==
  Stale(indexFile) = {} => \A k \in Keys : Resolve(indexFile, k) = Resolve(Actual, k)

(* What the manifest would hand out for a key now, were it asked with this    *)
(* compiler.                                                                  *)
WouldReuse(b, k, v) ==
  LET at == Resolve(Actual, k)
  IN  at # None /\ Reusable(trees[b].manifest[k], trees[b], paks[at.pak].stamp, v)
Reused(b, k) == trees[b].mxml[trees[b].manifest[k].name]

(* A reused MXML was made from what the archive holds now: never from what it *)
(* held before an update, even when runs are killed between placing the MXML  *)
(* and storing the manifest, and when Steam replaces the archive in between.  *)
(* And it was made by the compiler it is reused under, unless its key strays: *)
(* some run has since placed an MXML at the path of its entry and stored no   *)
(* entry for that key with it, because it was killed before the manifest was  *)
(* saved, was asked for the file by another key only, missed this key, or was *)
(* overtaken by another program.  Then the entry vouches for an MXML of       *)
(* another compiler, which cache.go:60 rules out (README.md, Divergences).    *)
ReusedDataIsCurrent ==
  \A b \in BuildIds, k \in Keys, v \in Compilers :
    WouldReuse(b, k, v) =>
      /\ Reused(b, k).data.stamp = paks[Resolve(Actual, k).pak].stamp
      /\ k \notin strays[b] => Reused(b, k).compiler = v

(* Every run of Ensure comes to an end, whatever Steam, the user and the      *)
(* other process do meanwhile.                                                *)
EnsureEnds == \A p \in Processes : ~Running(p, "idle") ~> Running(p, "idle")
=============================================================================
