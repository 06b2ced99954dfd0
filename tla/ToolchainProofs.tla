---------------------------- MODULE ToolchainProofs ---------------------------
(***************************************************************************)
(* Theorems about Toolchain, for any releases, any limit and any number of *)
(* sessions.  See README.md for the argument.                              *)
(***************************************************************************)
EXTENDS Toolchain, FiniteSetTheorems, TLAPS

USE ToolchainAssumption

(***************************************************************************)
(* A non-empty set of releases has a highest one.                          *)
(***************************************************************************)
LEMMA HighestExists ==
  ASSUME NEW S \in SUBSET Tags, S # {}
  PROVE  \E t \in S : \A u \in S : t >= u
<1> DEFINE Highest(U) == \E t \in U : \A u \in U : t >= u
           T == {U \in SUBSET Tags : U # {} /\ ~Highest(U)}
<1> SUFFICES ASSUME S \in T PROVE FALSE
  OBVIOUS
<1>1. IsFiniteSet(Tags)
  BY FS_Interval DEF Tags
<1>2. T \subseteq FiniteSubsetsOf(Tags)
  BY <1>1, FS_Subset DEF FiniteSubsetsOf
<1>3. PICK U \in T : \A V \in T : <<V, U>> \notin StrictSubsetOrdering(Tags)
  <2> HIDE DEF T
  <2> QED BY <1>2, WFMin, FS_StrictSubsetOrderingWellFounded
<1>4. PICK x \in U : TRUE
  OBVIOUS
<1>5. <<U \ {x}, U>> \in StrictSubsetOrdering(Tags)
  BY <1>4 DEF StrictSubsetOrdering
<1>6. U \ {x} \notin T
  BY <1>3, <1>5
<1>7. CASE U \ {x} = {}
  BY <1>4, <1>7 DEF Tags
<1>8. CASE Highest(U \ {x})
  <2>1. PICK m \in U \ {x} : \A u \in U \ {x} : m >= u
    BY <1>8
  <2>2. CASE m >= x
    BY <2>1, <2>2
  <2>3. CASE ~(m >= x)
    BY <1>4, <2>1, <2>3 DEF Tags
  <2> QED BY <2>2, <2>3
<1> QED BY <1>6, <1>7, <1>8

(* Max picks it.                                                           *)
LEMMA MaxInSet ==
  ASSUME NEW S \in SUBSET Tags, S # {}
  PROVE  Max(S) \in S
BY HighestExists DEF Max

(* What is chosen or located is a release, or nothing.                     *)
LEMMA SelectType ==
  ASSUME NEW releases \in SUBSET Tags, releases # {}, NEW p \in Tags \union {None}, NEW game
  PROVE  Select(releases, p, game) \in Tags \union {None}
<1> DEFINE matching == {t \in releases : GameOf[t] = game}
<1>1. matching # {} => Max(matching) \in Tags
  BY MaxInSet
<1>2. Max(releases) \in Tags
  BY MaxInSet
<1> QED BY <1>1, <1>2 DEF Select

LEMMA LocateType ==
  ASSUME NEW ds, NEW p
  PROVE  Locate(ds, p) \in Tags \union {None}
BY MaxInSet DEF Locate

(***************************************************************************)
(* The operation and the files it works on.                                *)
(***************************************************************************)
Dirs == [Tags -> [bin : [Flavors -> {None, "runs", "broken"}],
                  lib : SUBSET Flavors, mapping : BOOLEAN]]
Orders == {<<>>, <<"dotnet10">>, <<"self-contained">>,
           <<"dotnet10", "self-contained">>, <<"self-contained", "dotnet10">>}
Ensures ==
  [pc : {"unpinned", "asking", "listing", "choosing", "verify", "verifying", "flavor", "bin", "lib",
         "trying", "mapping"},
   pin : Tags \union {None}, offline : BOOLEAN, install : BOOLEAN,
   game : Games \union {None}, releases : SUBSET Tags, tag : Tags \union {None},
   todo : Orders, cancelled : BOOLEAN]
Removals == [pc : {"removing"}, tag : Tags]

(* The stages with a release, those with a flavor in hand, those with an   *)
(* MBINCompiler to run.                                                    *)
AtRelease == op.pc \in {"verify", "verifying", "flavor", "bin", "lib", "trying", "mapping"}
AtFlavor == op.pc \in {"verifying", "bin", "lib", "trying"}
Compiles == op.pc \in {"asking", "verifying", "trying"}

OpOK ==
  /\ op \in {NoOp} \union Ensures \union Removals
  /\ op.pc = "choosing" => op.releases # {}
  /\ AtRelease => op.tag \in Tags
  /\ AtFlavor => op.todo # <<>>

Files ==
  /\ published \in SUBSET Tags /\ published # {} /\ listing \in SUBSET Tags
  /\ pin \in Tags \union {None}
  /\ dirs \in Dirs
  /\ job \in [Users -> Tags \union {None}]

(* A user that has or waits for a slot is one that runs an MBINCompiler.   *)
Slots ==
  /\ slots \in [Users -> [sem : 0..MaxOpens, held : BOOLEAN] \union {None}]
  /\ sem \in 0..MaxOpens
  /\ tokens \in [0..MaxOpens -> 0..Limit]
  /\ slots["tools"] # None => Compiles

Bookkept == OpOK /\ Files /\ Slots

(* The rest of an order in which flavors are tried.                        *)
Listed(order) == {order[i] : i \in DOMAIN order}
LEMMA OrdersType ==
  ASSUME NEW o \in Orders, o # <<>>
  PROVE  /\ Head(o) \in Flavors /\ Tail(o) \in Orders
         /\ Listed(o) \subseteq {Head(o)} \union Listed(Tail(o))
<1>1. CASE o = <<"dotnet10">> \/ o = <<"self-contained">>
  <2>1. PICK f \in Flavors : o = <<f>>
    BY <1>1 DEF Flavors
  <2>2. Tail(<<f>>) = <<>>
    OBVIOUS
  <2>3. Head(o) = f /\ Listed(o) = {f}
    BY <2>1 DEF Listed
  <2> QED BY <2>1, <2>2, <2>3 DEF Orders
<1>2. CASE o = <<"dotnet10", "self-contained">>
  <2>1. Tail(o) = <<"self-contained">> /\ Head(o) = "dotnet10"
    BY <1>2
  <2> QED BY <1>2, <2>1 DEF Orders, Flavors, Listed
<1>3. CASE o = <<"self-contained", "dotnet10">>
  <2>1. Tail(o) = <<"dotnet10">> /\ Head(o) = "self-contained"
    BY <1>3
  <2> QED BY <1>3, <2>1 DEF Orders, Flavors, Listed
<1>4. \/ o = <<"dotnet10">> \/ o = <<"self-contained">>
      \/ o = <<"dotnet10", "self-contained">> \/ o = <<"self-contained", "dotnet10">>
  BY Zenon DEF Orders
<1> QED BY <1>1, <1>2, <1>3, <1>4, Zenon

LEMMA EnsuringType ==
  ASSUME NEW pc \in {"unpinned", "asking"}, NEW p \in Tags \union {None},
         NEW offline \in BOOLEAN, NEW install \in BOOLEAN
  PROVE  Ensuring(pc, p, offline, install) \in Ensures
BY DEF Ensuring, Ensures, Orders

LEMMA AskVersionKeeps ==
  ASSUME Bookkept, sem' \in 0..MaxOpens, ~Compiles, NEW begun \in Ensures, AskVersion(begun)
  PROVE  /\ OpOK'
         /\ slots' \in [Users -> [sem : 0..MaxOpens, held : BOOLEAN] \union {None}]
         /\ slots'["tools"] # None => Compiles'
<1>1. CASE op' = [begun EXCEPT !.pc = "listing"] /\ UNCHANGED slots
  BY <1>1 DEF Bookkept, OpOK, Slots, Compiles, Ensures, AtRelease, AtFlavor
<1>2. CASE op' = [begun EXCEPT !.pc = "asking"] /\ Ask("tools", sem')
  BY <1>2 DEF Bookkept, OpOK, Slots, Compiles, Ensures, AtRelease, AtFlavor, Ask, Users
<1> QED BY <1>1, <1>2 DEF AskVersion

LEMMA InitBookkept == Init => Bookkept
<1> SUFFICES ASSUME Init PROVE Bookkept
  OBVIOUS
<1>1. OpOK
  BY DEF Init, OpOK, NoOp, AtRelease, AtFlavor
<1>2. Files
  BY DEF Init, Files, Dirs, NoDir, Tags
<1>3. Slots
  BY DEF Init, Slots, Users
<1> QED BY <1>1, <1>2, <1>3 DEF Bookkept

(***************************************************************************)
(* Every step keeps it.                                                    *)
(***************************************************************************)
LEMMA BeginKeeps ==
  ASSUME Bookkept, BeginEnsure \/ BeginListReleases \/ Pin \/ BeginRemove
  PROVE  Bookkept'
<1>1. sem' \in 0..MaxOpens /\ op = NoOp /\ tokens' = tokens
  <2>1. Open /\ op = NoOp /\ tokens' = tokens
    BY Zenon DEF BeginEnsure, BeginListReleases, Pin, BeginRemove
  <2> QED BY <2>1 DEF Open, Bookkept, Slots
<1>2. Files'
  BY DEF BeginEnsure, BeginListReleases, Pin, BeginRemove, Bookkept, Files, files
<1>0. ~Compiles
  BY <1>1 DEF Compiles, NoOp
<1>3. CASE BeginEnsure
  <2>1. PICK offline \in BOOLEAN, p \in {pin} \union Tags :
          AskVersion(Ensuring("asking", p, offline, TRUE))
    BY <1>3 DEF BeginEnsure
  <2>2. p \in Tags \union {None}
    BY DEF Bookkept, Files
  <2>3. Ensuring("asking", p, offline, TRUE) \in Ensures
    BY <2>2, EnsuringType
  <2> QED BY <1>0, <1>1, <1>2, <2>1, <2>3, AskVersionKeeps DEF Bookkept, Slots
<1>4. CASE BeginListReleases
  <2>1. PICK offline \in BOOLEAN : AskVersion(Ensuring("asking", pin, offline, FALSE))
    BY <1>4 DEF BeginListReleases
  <2>2. pin \in Tags \union {None}
    BY DEF Bookkept, Files
  <2>3. Ensuring("asking", pin, offline, FALSE) \in Ensures
    BY <2>2, EnsuringType
  <2> QED BY <1>0, <1>1, <1>2, <2>1, <2>3, AskVersionKeeps DEF Bookkept, Slots
<1>5. CASE Pin
  <2>1. op' = op \/ op' \in {Ensuring("unpinned", None, offline, TRUE) : offline \in BOOLEAN}
    BY <1>5, Zenon DEF Pin
  <2>2. CASE op' = op
    BY <1>1, <1>2, <1>5, <2>2 DEF Pin, Bookkept, Slots, OpOK, Compiles, AtRelease, AtFlavor
  <2>3. ASSUME NEW offline \in BOOLEAN, op' = Ensuring("unpinned", None, offline, TRUE)
        PROVE  Bookkept'
    <3>1. op' \in Ensures /\ op'.pc = "unpinned"
      BY <2>3, EnsuringType DEF Ensuring
    <3>2. OpOK'
      BY <3>1 DEF OpOK, AtRelease, AtFlavor
    <3> QED BY <1>0, <1>1, <1>2, <1>5, <3>2 DEF Pin, Bookkept, Slots
  <2> QED BY <2>1, <2>2, <2>3
<1>6. CASE BeginRemove
  <2>1. OpOK' /\ slots["tools"] = None
    BY <1>1, <1>6 DEF BeginRemove, OpOK, Removals, AtRelease, AtFlavor, Bookkept, Slots, Compiles, NoOp
  <2> QED BY <1>1, <1>2, <1>6, <2>1 DEF BeginRemove, Bookkept, Slots
<1> QED BY <1>3, <1>4, <1>5, <1>6

(* What an MBINCompiler that ends leaves: one slot less, or none at all.   *)
LEMMA ReleaseKeeps ==
  ASSUME Slots, NEW u \in Users, Release(u) \/ Leave(u), slots' = [slots EXCEPT ![u] = None],
         sem' = sem, u = "tools" \/ op' = op
  PROVE  Slots'
<1>1. tokens' \in [0..MaxOpens -> 0..Limit]
  BY DEF Slots, Release, Leave, Holding
<1>2. slots' \in [Users -> [sem : 0..MaxOpens, held : BOOLEAN] \union {None}]
  BY DEF Slots
<1>3. slots'["tools"] # None => Compiles'
  BY DEF Slots, Compiles, Users
<1> QED BY <1>1, <1>2, <1>3 DEF Slots

(* A step that takes no slot and gives none back.                          *)
LEMMA SameSlots ==
  ASSUME Slots, UNCHANGED <<slots, sem, tokens>>, Compiles => Compiles'
  PROVE  Slots'
BY DEF Slots

(* The tools operation asks for a slot and then runs its MBINCompiler.     *)
LEMMA AskKeeps ==
  ASSUME Slots, Ask("tools", sem), Compiles', UNCHANGED <<sem, tokens>>
  PROVE  Slots'
BY DEF Slots, Ask, Users

LEMMA AcquireKeeps ==
  ASSUME Bookkept, NEW u \in Users, Acquire(u)
  PROVE  Bookkept'
<1>1. tokens' \in [0..MaxOpens -> 0..Limit]
  BY DEF Bookkept, Slots, Acquire, Waiting
<1>2. slots' \in [Users -> [sem : 0..MaxOpens, held : BOOLEAN] \union {None}]
  BY DEF Bookkept, Slots, Acquire, Waiting
<1>3. slots'["tools"] # None => slots["tools"] # None
  BY DEF Bookkept, Slots, Acquire, Waiting, Users
<1>4. Slots'
  BY <1>1, <1>2, <1>3 DEF Acquire, Bookkept, Slots, Compiles
<1> QED BY <1>4 DEF Acquire, Bookkept, OpOK, Files, AtRelease, AtFlavor

LEMMA OthersKeep ==
  ASSUME Bookkept, NEW u \in Others, Locates(u) \/ Convert(u) \/ Converted(u)
  PROVE  Bookkept'
<1> USE DEF Others
<1>1. OpOK'
  BY DEF Bookkept, OpOK, Locates, Convert, Converted, AtRelease, AtFlavor
<1>2. CASE Locates(u)
  <2>1. Files'
    BY <1>2, LocateType DEF Locates, Bookkept, Files, files
  <2>2. sem' \in 0..MaxOpens
    BY <1>2 DEF Locates, Open, Bookkept, Slots
  <2>3. Slots'
    BY <1>2, <2>2 DEF Locates, Bookkept, Slots, Compiles
  <2> QED BY <1>1, <2>1, <2>3 DEF Bookkept
<1>3. CASE Convert(u)
  <2>1. Files'
    BY <1>3 DEF Convert, Bookkept, Files, files
  <2>2. Slots'
    BY <1>3 DEF Convert, Ask, Bookkept, Slots, Compiles, Users
  <2> QED BY <1>1, <2>1, <2>2 DEF Bookkept
<1>4. CASE Converted(u)
  <2>1. Files'
    BY <1>4 DEF Converted, Bookkept, Files, files
  <2>2. Slots'
    BY <1>4, ReleaseKeeps DEF Converted, Bookkept
  <2> QED BY <1>1, <2>1, <2>2 DEF Bookkept
<1> QED BY <1>2, <1>3, <1>4

(* The tools operation in each stage is an ensure.                         *)
LEMMA EnsureInHand ==
  ASSUME OpOK, op # NoOp, op.pc # "removing"
  PROVE  op \in Ensures
BY DEF OpOK, NoOp, Removals

LEMMA PlanKeeps ==
  ASSUME Bookkept, List \/ Choose \/ TryFlavor \/ Cancel
  PROVE  Bookkept'
<1>1. op \in Ensures
  <2>1. CASE Cancel
    BY <2>1, EnsureInHand DEF Bookkept, Cancel
  <2>2. CASE List \/ Choose \/ TryFlavor
    <3>1. op.pc \in {"listing", "choosing", "flavor"}
      BY <2>2, Zenon DEF List, Choose, TryFlavor
    <3> QED BY <3>1, EnsureInHand DEF Bookkept, NoOp
  <2> QED BY <2>1, <2>2
<1>2. CASE List
  <2>1. Files'
    BY <1>2 DEF List, Stored, Bookkept, Files
  <2>2. PICK releases \in {listing, published} :
          op' = IF releases = {} \/ ~op.install THEN NoOp
                ELSE [op EXCEPT !.pc = "choosing", !.releases = releases]
    BY <1>2 DEF List
  <2>3. releases \in SUBSET Tags
    BY <2>2 DEF Bookkept, Files
  <2>4. OpOK'
    BY <1>1, <2>2, <2>3 DEF OpOK, Ensures, NoOp, AtRelease, AtFlavor
  <2>5. Slots'
    BY <1>2, SameSlots DEF List, limit, Compiles, Bookkept
  <2> QED BY <2>1, <2>4, <2>5 DEF Bookkept
<1>3. CASE Choose
  <2> DEFINE t == Select(op.releases, op.pin, op.game)
  <2>1. t \in Tags \union {None}
    BY <1>1, <1>3, SelectType DEF Choose, Ensures, Bookkept, OpOK
  <2>2. op' = IF t = None THEN NoOp ELSE Chosen(t, <<"dotnet10", "self-contained">>)
    BY <1>3 DEF Choose
  <2> HIDE DEF t
  <2>3. OpOK'
    BY <1>1, <2>1, <2>2
    DEF OpOK, Ensures, NoOp, AtRelease, AtFlavor, Chosen, Ensuring, Orders
  <2>4. Slots'
    BY <1>3, SameSlots DEF Choose, limit, Compiles, Bookkept
  <2> QED BY <1>3, <2>3, <2>4 DEF Bookkept, Choose, Files, files
<1>4. CASE TryFlavor
  <2>1. OpOK'
    <3>1. CASE op.todo = <<>>
      BY <1>4, <3>1 DEF TryFlavor, OpOK, NoOp, AtRelease, AtFlavor
    <3>2. CASE op.todo # <<>>
      <4>1. Tail(op.todo) \in Orders
        BY <1>1, <3>2, OrdersType DEF Ensures
      <4>2. op' = [op EXCEPT !.pc = "bin"] \/ op' = [op EXCEPT !.todo = Tail(@)]
        BY <1>4, <3>2 DEF TryFlavor
      <4> QED BY <1>1, <1>4, <3>2, <4>1, <4>2
              DEF TryFlavor, Bookkept, OpOK, Ensures, AtRelease, AtFlavor
    <3> QED BY <3>1, <3>2
  <2>2. Slots'
    BY <1>4, SameSlots DEF TryFlavor, limit, Compiles, Bookkept
  <2> QED BY <1>4, <2>1, <2>2 DEF Bookkept, TryFlavor, Files, files
<1>5. CASE Cancel
  <2>1. OpOK'
    BY <1>1, <1>5 DEF Cancel, Bookkept, OpOK, Ensures, AtRelease, AtFlavor
  <2>2. Slots'
    BY <1>1, <1>5, SameSlots DEF Cancel, Ensures, limit, Compiles, Bookkept
  <2> QED BY <1>5, <2>1, <2>2 DEF Bookkept, Cancel, Files, files
<1> QED BY <1>2, <1>3, <1>4, <1>5

LEMMA UnpinnedKeeps ==
  ASSUME Bookkept, EnsureUnpinned
  PROVE  Bookkept'
<1>1. op \in Ensures /\ ~Compiles
  BY EnsureInHand DEF EnsureUnpinned, Bookkept, NoOp, Compiles
<1>2. Files'
  BY DEF EnsureUnpinned, Bookkept, Files, files
<1>3. CASE Open /\ AskVersion(op)
  <2>1. sem' \in 0..MaxOpens
    BY <1>3 DEF Open, Bookkept, Slots
  <2> QED BY <1>1, <1>2, <1>3, <2>1, AskVersionKeeps DEF EnsureUnpinned, Bookkept, Slots
<1>4. CASE op' = NoOp /\ UNCHANGED <<slots, sem>>
  <2>1. OpOK'
    BY <1>4 DEF OpOK, NoOp, AtRelease, AtFlavor
  <2>2. Slots'
    BY <1>1, <1>4, SameSlots DEF EnsureUnpinned, Bookkept
  <2> QED BY <1>2, <2>1, <2>2 DEF Bookkept
<1> QED BY <1>3, <1>4 DEF EnsureUnpinned

LEMMA VerifyKeeps ==
  ASSUME Bookkept, VersionRead \/ Verify \/ Verified
  PROVE  Bookkept'
<1>1. op \in Ensures
  <2>1. op.pc \in {"asking", "verify", "verifying"}
    BY Zenon DEF VersionRead, Verify, Verified
  <2> QED BY <2>1, EnsureInHand DEF Bookkept, NoOp
<1>2. Files'
  BY DEF VersionRead, Verify, Verified, Bookkept, Files, files
<1>3. CASE VersionRead
  <2>1. OpOK'
    BY <1>1, <1>3 DEF VersionRead, Bookkept, OpOK, Ensures, AtRelease, AtFlavor
  <2>2. Release("tools") \/ Leave("tools")
    BY <1>3 DEF VersionRead, Ended
  <2>3. Slots'
    BY <1>3, <2>2, ReleaseKeeps DEF VersionRead, Bookkept, Users
  <2> QED BY <1>2, <2>1, <2>3 DEF Bookkept
<1>4. CASE Verify
  <2>1. CASE op.todo = <<>>
    <3>1. PICK order \in {<<"dotnet10", "self-contained">>, <<"self-contained", "dotnet10">>} :
            op' = [op EXCEPT !.pc = "flavor", !.todo = order]
      BY <1>4, <2>1 DEF Verify
    <3>0. order \in Orders
      BY Zenon DEF Orders
    <3>2. OpOK'
      BY <1>1, <1>4, <3>0, <3>1 DEF Verify, Bookkept, OpOK, Ensures, AtRelease, AtFlavor
    <3>3. Slots'
      BY <1>4, <2>1, SameSlots DEF Verify, Compiles, Bookkept
    <3> QED BY <1>2, <3>2, <3>3 DEF Bookkept
  <2>2. CASE op.todo # <<>> /\ Head(op.todo) \in Complete(dirs[op.tag])
    <3>1. op' = [op EXCEPT !.pc = "verifying"] /\ Ask("tools", sem)
      BY <1>4, <2>2 DEF Verify
    <3>2. OpOK'
      BY <1>1, <1>4, <2>2, <3>1 DEF Verify, Bookkept, OpOK, Ensures, AtRelease, AtFlavor
    <3>3. Compiles'
      BY <1>1, <3>1 DEF Compiles, Ensures
    <3>4. Slots'
      BY <1>4, <3>1, <3>3, AskKeeps DEF Verify, Bookkept
    <3> QED BY <1>2, <3>2, <3>4 DEF Bookkept
  <2>3. CASE op.todo # <<>> /\ Head(op.todo) \notin Complete(dirs[op.tag])
    <3>1. op' = [op EXCEPT !.todo = Tail(@)] /\ UNCHANGED slots
      BY <1>4, <2>3 DEF Verify
    <3>2. Tail(op.todo) \in Orders
      BY <1>1, <2>3, OrdersType DEF Ensures
    <3>3. OpOK'
      BY <1>1, <1>4, <3>1, <3>2 DEF Verify, Bookkept, OpOK, Ensures, AtRelease, AtFlavor
    <3>4. Slots'
      BY <1>1, <1>4, <3>1, SameSlots DEF Verify, Compiles, Bookkept, Ensures
    <3> QED BY <1>2, <3>3, <3>4 DEF Bookkept
  <2> QED BY <2>1, <2>2, <2>3
<1>5. CASE Verified
  <2>1. op' = [op EXCEPT !.pc = "mapping"] \/ op' = [op EXCEPT !.pc = "verify", !.todo = Tail(@)]
    BY <1>5 DEF Verified
  <2>2. Tail(op.todo) \in Orders
    BY <1>1, <1>5, OrdersType DEF Ensures, Verified, Bookkept, OpOK, AtFlavor
  <2>3. OpOK'
    BY <1>1, <1>5, <2>1, <2>2 DEF Verified, Bookkept, OpOK, Ensures, AtRelease, AtFlavor
  <2>4. Release("tools") \/ Leave("tools")
    BY <1>5 DEF Verified, Ended
  <2>5. Slots'
    BY <1>5, <2>4, ReleaseKeeps DEF Verified, Bookkept, Users
  <2> QED BY <1>2, <2>3, <2>5 DEF Bookkept
<1> QED BY <1>3, <1>4, <1>5

LEMMA DirsType ==
  ASSUME dirs \in Dirs, NEW t \in Tags, NEW f \in Flavors
  PROVE  /\ \A q \in {"runs", "broken"} : [dirs EXCEPT ![t].bin[f] = q] \in Dirs
         /\ [dirs EXCEPT ![t].lib = @ \union {f}] \in Dirs
         /\ [dirs EXCEPT ![t].mapping = TRUE] \in Dirs
         /\ [dirs EXCEPT ![t] = NoDir] \in Dirs
BY DEF Dirs, NoDir

LEMMA DownloadKeeps ==
  ASSUME Bookkept, DownloadBinary \/ DownloadLibrary \/ DownloadFails \/ Tried
  PROVE  Bookkept'
<1>1. op \in Ensures /\ op.pc \in {"bin", "lib", "trying"}
  <2>1. op.pc \in {"bin", "lib", "trying"}
    BY DEF DownloadBinary, DownloadLibrary, DownloadFails, Tried
  <2> QED BY <2>1, EnsureInHand DEF Bookkept, NoOp
<1>2. op.tag \in Tags /\ op.todo \in Orders /\ op.todo # <<>>
  BY <1>1 DEF Bookkept, OpOK, AtRelease, AtFlavor, Ensures
<1>3. Head(op.todo) \in Flavors /\ Tail(op.todo) \in Orders
  BY <1>2, OrdersType
<1>4. UNCHANGED <<published, listing, pin, job>>
  BY DEF DownloadBinary, DownloadLibrary, DownloadFails, Tried
<1>5. dirs' \in Dirs
  <2>1. dirs \in Dirs
    BY DEF Bookkept, Files
  <2>2. \/ \E q \in {"runs", "broken"} : dirs' = [dirs EXCEPT ![op.tag].bin[Head(op.todo)] = q]
        \/ dirs' = [dirs EXCEPT ![op.tag].lib = @ \union {Head(op.todo)}]
        \/ dirs' = [dirs EXCEPT ![op.tag] = NoDir]
        \/ dirs' = dirs
    BY Zenon DEF DownloadBinary, DownloadLibrary, DownloadFails, Tried, Discard
  <2> DEFINE t == op.tag
             f == Head(op.todo)
  <2>3. /\ \A q \in {"runs", "broken"} : [dirs EXCEPT ![t].bin[f] = q] \in Dirs
        /\ [dirs EXCEPT ![t].lib = @ \union {f}] \in Dirs
        /\ [dirs EXCEPT ![t] = NoDir] \in Dirs
    BY <1>2, <1>3, <2>1, DirsType
  <2> QED BY <2>1, <2>2, <2>3, Zenon
<1>6. Files'
  BY <1>4, <1>5 DEF Bookkept, Files
<1>7. ASSUME Discard PROVE OpOK' /\ ~Compiles'
  BY <1>1, <1>2, <1>3, <1>7 DEF Discard, OpOK, Ensures, AtRelease, AtFlavor, Compiles
<1>8. CASE DownloadBinary
  <2>1. OpOK'
    BY <1>1, <1>2, <1>8 DEF DownloadBinary, OpOK, Ensures, AtRelease, AtFlavor
  <2>2. Slots'
    BY <1>8, SameSlots DEF DownloadBinary, limit, Compiles, Bookkept
  <2> QED BY <1>6, <2>1, <2>2 DEF Bookkept
<1>9. CASE DownloadLibrary
  <2>1. OpOK' /\ Compiles'
    BY <1>1, <1>2, <1>9 DEF DownloadLibrary, OpOK, Ensures, AtRelease, AtFlavor, Compiles
  <2>2. Slots'
    BY <1>9, <2>1, AskKeeps DEF DownloadLibrary, Bookkept
  <2> QED BY <1>6, <2>1, <2>2 DEF Bookkept
<1>10. CASE DownloadFails
  <2>1. Slots'
    BY <1>10, SameSlots DEF DownloadFails, limit, Compiles, Bookkept
  <2> QED BY <1>6, <1>7, <1>10, <2>1 DEF Bookkept, DownloadFails
<1>11. CASE Tried
  <2>1. OpOK'
    <3>1. CASE op' = [op EXCEPT !.pc = "mapping"]
      BY <1>1, <1>2, <3>1 DEF OpOK, Ensures, AtRelease, AtFlavor
    <3> QED BY <1>7, <1>11, <3>1 DEF Tried
  <2>2. Release("tools") \/ Leave("tools")
    BY <1>11 DEF Tried, Ended
  <2>3. Slots'
    BY <1>11, <2>2, ReleaseKeeps DEF Tried, Bookkept, Users
  <2> QED BY <1>6, <2>1, <2>3 DEF Bookkept
<1> QED BY <1>8, <1>9, <1>10, <1>11

LEMMA EndKeeps ==
  ASSUME Bookkept, FetchMapping \/ Remove \/ Stop \/ Publish
  PROVE  Bookkept'
<1>1. CASE FetchMapping
  <2>1. op.tag \in Tags
    BY <1>1 DEF FetchMapping, Bookkept, OpOK, AtRelease
  <2>2. Files'
    BY <1>1, <2>1, DirsType DEF FetchMapping, Bookkept, Files, Flavors
  <2>3. Slots'
    BY <1>1, SameSlots DEF FetchMapping, limit, Compiles, Bookkept
  <2> QED BY <1>1, <2>2, <2>3 DEF FetchMapping, Bookkept, OpOK, NoOp, AtRelease, AtFlavor
<1>2. CASE Remove
  <2>1. op.tag \in Tags
    BY <1>2 DEF Remove, Bookkept, OpOK, NoOp, Ensures, Removals
  <2>2. Files'
    BY <1>2, <2>1, DirsType DEF Remove, Bookkept, Files, Flavors
  <2>3. Slots'
    BY <1>2, SameSlots DEF Remove, limit, Compiles, Bookkept
  <2> QED BY <1>2, <2>2, <2>3 DEF Remove, Bookkept, OpOK, NoOp, AtRelease, AtFlavor
<1>3. CASE Stop
  <2>1. OpOK'
    BY <1>3 DEF Stop, OpOK, NoOp, AtRelease, AtFlavor
  <2>2. Files'
    BY <1>3 DEF Stop, Bookkept, Files, files
  <2>3. Slots'
    BY <1>3 DEF Stop, Bookkept, Slots, Users
  <2> QED BY <2>1, <2>2, <2>3 DEF Bookkept
<1>4. CASE Publish
  <2>1. Files'
    BY <1>4 DEF Publish, Bookkept, Files
  <2>2. Slots'
    BY <1>4, SameSlots DEF Publish, limit, Compiles, Bookkept
  <2> QED BY <1>4, <2>1, <2>2 DEF Publish, Bookkept, OpOK, AtRelease, AtFlavor
<1> QED BY <1>1, <1>2, <1>3, <1>4

LEMMA StepBookkept ==
  ASSUME Bookkept, [Next]_vars
  PROVE  Bookkept'
<1>1. CASE UNCHANGED vars
  BY <1>1 DEF vars, Bookkept, OpOK, Files, Slots, AtRelease, AtFlavor, Compiles
<1> QED BY <1>1, BeginKeeps, UnpinnedKeeps, AcquireKeeps, OthersKeep, PlanKeeps, VerifyKeeps,
           DownloadKeeps, EndKeeps
        DEF Next, ToolsStep

(* The operation, the files and the semaphores are always well formed, and *)
(* nothing but a tools operation that runs MBINCompiler has or waits for   *)
(* the slot of the tools operation.                                        *)
THEOREM ToolchainBookkept == Spec => []Bookkept
BY InitBookkept, StepBookkept, PTL DEF Spec

(* Types: in particular no semaphore ever has more tokens than the limit.  *)
THEOREM ToolchainTypes == Spec => []TypeOK
<1>1. Bookkept => TypeOK
  BY DEF Bookkept, OpOK, Files, Slots, TypeOK, Dirs, NoOp, Ensures, Removals
<1> QED BY <1>1, ToolchainBookkept, PTL

(***************************************************************************)
(* Slots: who holds them and what the semaphores count.                    *)
(***************************************************************************)
Holders(g) == {u \in Users : Holding(u) /\ slots[u].sem = g}

LEMMA HoldersFinite ==
  ASSUME NEW g
  PROVE  IsFiniteSet(Holders(g)) /\ IsFiniteSet(Users)
<1>1. IsFiniteSet({"tools"} \union {"build"} \union {"check"})
  BY FS_Singleton, FS_Union
<1>2. Users = {"tools"} \union {"build"} \union {"check"}
  BY DEF Users
<1> QED BY <1>1, <1>2, FS_Subset DEF Holders

LEMMA SameHolders ==
  ASSUME SlotsAccounted, tokens' = tokens, \A g \in 0..MaxOpens : Holders(g)' = Holders(g)
  PROVE  SlotsAccounted'
BY DEF SlotsAccounted, Holders

(* Asking for a slot and going without one change no holder.               *)
LEMMA AskAccounted ==
  ASSUME Bookkept, SlotsAccounted, NEW u \in Users, NEW g, ~Holding(u), tokens' = tokens,
         Ask(u, g) \/ slots' = [slots EXCEPT ![u] = None] \/ slots' = slots
  PROVE  SlotsAccounted'
<1>1. \A v \in Users : Holding(v)' <=> Holding(v)
  BY DEF Bookkept, Slots, Ask, Holding
<1>2. \A v \in Users : Holding(v) => slots'[v] = slots[v]
  BY DEF Bookkept, Slots, Ask
<1>3. \A h \in 0..MaxOpens : Holders(h)' = Holders(h)
  BY <1>1, <1>2 DEF Holders
<1> QED BY <1>3, SameHolders

LEMMA AcquireAccounted ==
  ASSUME Bookkept, SlotsAccounted, NEW u \in Users, Acquire(u)
  PROVE  SlotsAccounted'
<1>0. PICK h \in 0..MaxOpens : h = slots[u].sem
  BY DEF Acquire, Waiting, Bookkept, Slots
<1>1. h = slots[u].sem /\ ~Holding(u) /\ slots[u] # None
  BY <1>0 DEF Acquire, Waiting, Holding
<1>2. slots' = [slots EXCEPT ![u].held = TRUE]
  BY DEF Acquire
<1>3. Holding(u)' /\ slots'[u].sem = h
  BY <1>1, <1>2 DEF Holding, Bookkept, Slots
<1>4. \A v \in Users \ {u} : slots'[v] = slots[v]
  BY <1>2 DEF Bookkept, Slots
<1>5. Holders(h)' = Holders(h) \union {u} /\ u \notin Holders(h)
  BY <1>1, <1>3, <1>4 DEF Holders, Holding
<1>6. \A g \in 0..MaxOpens \ {h} : Holders(g)' = Holders(g)
  BY <1>1, <1>3, <1>4 DEF Holders, Holding
<1>7. Cardinality(Holders(h)') = Cardinality(Holders(h)) + 1
  BY <1>5, HoldersFinite, FS_AddElement
<1>8. tokens' = [tokens EXCEPT ![h] = @ + 1]
  BY <1>1 DEF Acquire
<1>9. ASSUME NEW g \in 0..MaxOpens PROVE tokens'[g] = Cardinality(Holders(g)')
  <2>1. tokens[g] = Cardinality(Holders(g))
    BY DEF SlotsAccounted, Holders
  <2>2. tokens \in [0..MaxOpens -> 0..Limit] /\ Limit \in Nat
    BY ToolchainAssumption DEF Bookkept, Slots
  <2>3. CASE g = h
    <3>1. tokens'[h] = tokens[h] + 1
      BY <1>1, <1>8, <2>2
    <3> QED BY <1>7, <2>1, <2>3, <3>1
  <2>4. CASE g # h
    <3>1. tokens'[g] = tokens[g]
      BY <1>1, <1>8, <2>2, <2>4
    <3> QED BY <1>6, <2>1, <2>4, <3>1
  <2> QED BY <2>3, <2>4
<1> QED BY <1>9 DEF SlotsAccounted, Holders

LEMMA ReleaseAccounted ==
  ASSUME Bookkept, SlotsAccounted, NEW u \in Users, Release(u),
         slots' = [slots EXCEPT ![u] = None]
  PROVE  SlotsAccounted'
<1>0. PICK h \in 0..MaxOpens : h = slots[u].sem
  BY DEF Release, Holding, Bookkept, Slots
<1>1. h = slots[u].sem /\ Holding(u)
  BY <1>0 DEF Release
<1>2. ~Holding(u)'
  BY DEF Holding, Bookkept, Slots
<1>3. \A v \in Users \ {u} : slots'[v] = slots[v]
  BY DEF Bookkept, Slots
<1>4. Holders(h)' = Holders(h) \ {u} /\ u \in Holders(h)
  <2>1. \A v \in Users \ {u} : Holding(v)' <=> Holding(v)
    BY <1>3 DEF Holding
  <2>2. \A v \in Users : v \in Holders(h)' <=> v \in Holders(h) \ {u}
    BY <1>2, <1>3, <2>1 DEF Holders
  <2>3. u \in Holders(h)
    BY <1>1 DEF Holders
  <2>4. Holders(h)' \subseteq Users /\ Holders(h) \subseteq Users
    BY DEF Holders
  <2> QED BY <2>2, <2>3, <2>4
<1>5. \A g \in 0..MaxOpens \ {h} : Holders(g)' = Holders(g)
  BY <1>1, <1>2, <1>3 DEF Holders, Holding
<1>6. Cardinality(Holders(h)') = Cardinality(Holders(h)) - 1
  BY <1>4, HoldersFinite, FS_RemoveElement
<1>7. tokens' = [tokens EXCEPT ![h] = @ - 1]
  BY <1>1 DEF Release
<1>8. ASSUME NEW g \in 0..MaxOpens PROVE tokens'[g] = Cardinality(Holders(g)')
  <2>1. tokens[g] = Cardinality(Holders(g))
    BY DEF SlotsAccounted, Holders
  <2>2. tokens \in [0..MaxOpens -> 0..Limit] /\ Limit \in Nat
    BY ToolchainAssumption DEF Bookkept, Slots
  <2>3. CASE g = h
    <3>1. tokens'[h] = tokens[h] - 1
      BY <1>1, <1>7, <2>2
    <3> QED BY <1>6, <2>1, <2>3, <3>1
  <2>4. CASE g # h
    <3>1. tokens'[g] = tokens[g]
      BY <1>1, <1>7, <2>2, <2>4
    <3> QED BY <1>5, <2>1, <2>4, <3>1
  <2> QED BY <2>3, <2>4
<1> QED BY <1>8 DEF SlotsAccounted, Holders

(* A process of its own that ends, or a wait that is given up.             *)
LEMMA EndedAccounted ==
  ASSUME Bookkept, SlotsAccounted, NEW works, Ended(works),
         slots' = [slots EXCEPT !["tools"] = None]
  PROVE  SlotsAccounted'
<1>1. CASE Release("tools")
  BY <1>1, ReleaseAccounted DEF Users
<1>2. CASE Leave("tools")
  BY <1>2, AskAccounted DEF Leave, Waiting, Holding, Users
<1> QED BY <1>1, <1>2 DEF Ended

LEMMA StepAccounted ==
  ASSUME Bookkept, SlotsAccounted, [Next]_vars
  PROVE  SlotsAccounted'
<1>1. "tools" \in Users
  BY DEF Users
<1>2. Compiles \/ ~Holding("tools")
  BY DEF Bookkept, Slots, Holding
<1>3. ASSUME UNCHANGED <<slots, tokens>> PROVE SlotsAccounted'
  BY <1>3 DEF SlotsAccounted, Holding
<1>4. CASE BeginEnsure \/ BeginListReleases \/ Pin \/ EnsureUnpinned
  <2>1. ~Holding("tools") /\ tokens' = tokens
    <3>1. (op = NoOp \/ op.pc = "unpinned") /\ tokens' = tokens
      BY <1>4 DEF BeginEnsure, BeginListReleases, Pin, EnsureUnpinned
    <3>2. ~Compiles
      BY <3>1 DEF Compiles, NoOp
    <3> QED BY <1>2, <3>1, <3>2
  <2>2. Ask("tools", sem') \/ slots' = slots
    BY <1>4, Zenon DEF BeginEnsure, BeginListReleases, Pin, EnsureUnpinned, AskVersion
  <2> QED BY <1>1, <2>1, <2>2, AskAccounted
<1>5. CASE VersionRead \/ Verified \/ Tried
  <2>1. PICK works \in BOOLEAN : Ended(works)
    BY <1>5 DEF VersionRead, Verified, Tried
  <2> QED BY <1>5, <2>1, EndedAccounted DEF VersionRead, Verified, Tried
<1>6. CASE Verify \/ DownloadLibrary
  <2>1. ~Holding("tools") /\ tokens' = tokens
    BY <1>2, <1>6 DEF Verify, DownloadLibrary, Compiles
  <2>2. Ask("tools", sem) \/ slots' = slots
    BY <1>6 DEF Verify, DownloadLibrary
  <2> QED BY <1>1, <2>1, <2>2, AskAccounted
<1>7. CASE BeginRemove \/ Cancel \/ List \/ Choose \/ TryFlavor \/ DownloadBinary
           \/ DownloadFails \/ FetchMapping \/ Remove \/ Publish \/ UNCHANGED vars
  BY <1>3, <1>7, Zenon DEF BeginRemove, Cancel, List, Choose, TryFlavor, DownloadBinary,
     DownloadFails, FetchMapping, Remove, Publish, vars, limit
<1>8. ASSUME NEW u \in Users, Acquire(u) PROVE SlotsAccounted'
  BY <1>8, AcquireAccounted
<1>9. ASSUME NEW u \in Others, Locates(u) PROVE SlotsAccounted'
  BY <1>3, <1>9 DEF Locates
<1>10. ASSUME NEW u \in Others, Convert(u) PROVE SlotsAccounted'
  BY <1>10, AskAccounted DEF Convert, Holding, Others
<1>11. ASSUME NEW u \in Others, Converted(u) PROVE SlotsAccounted'
  BY <1>11, ReleaseAccounted DEF Converted, Others
<1>12. CASE Stop
  <2>1. \A u \in Users : ~Holding(u)'
    BY <1>12 DEF Stop, Holding
  <2>2. \A g \in 0..MaxOpens : Holders(g)' = {}
    BY <2>1 DEF Holders
  <2> QED BY <1>12, <2>2, FS_EmptySet DEF Stop, SlotsAccounted, Holders
<1> QED BY <1>4, <1>5, <1>6, <1>7, <1>8, <1>9, <1>10, <1>11, <1>12 DEF Next, ToolsStep

(* However often the limit is set again, each semaphore counts exactly the *)
(* users that hold one of its slots: no slot is lost and none given twice. *)
THEOREM ToolchainAccounts == Spec => []SlotsAccounted
<1>1. Init => SlotsAccounted
  <2> SUFFICES ASSUME Init PROVE SlotsAccounted
    OBVIOUS
  <2>1. \A g \in 0..MaxOpens : Holders(g) = {}
    BY DEF Init, Holders, Holding
  <2> QED BY <2>1, FS_EmptySet DEF Init, SlotsAccounted, Holders
<1> QED BY <1>1, StepAccounted, ToolchainBookkept, PTL DEF Spec

(***************************************************************************)
(* What an ensure knows of the release it works on.                        *)
(***************************************************************************)
(* While nothing is cancelled, a flavor that works is still to be verified *)
(* as long as verification goes on, and there is none once it is over; the *)
(* files of the flavor in hand are there when MBINCompiler is run.         *)
Checked ==
  /\ op.pc = "verifying" => Head(op.todo) \in Complete(dirs[op.tag])
  /\ op.pc \in {"verify", "verifying"} /\ ~op.cancelled
       => Working(dirs[op.tag]) \subseteq Listed(op.todo)
  /\ op.pc \in {"flavor", "bin"} /\ ~op.cancelled => Working(dirs[op.tag]) = {}
  /\ op.pc \in {"lib", "trying"} => dirs[op.tag].bin[Head(op.todo)] # None
  /\ op.pc = "trying" => Head(op.todo) \in dirs[op.tag].lib
  /\ op.pc = "mapping" => Working(dirs[op.tag]) # {}

LEMMA NothingChecked ==
  ASSUME op'.pc \in {"idle", "unpinned", "asking", "listing", "choosing", "removing"}
  PROVE  Checked'
BY DEF Checked

LEMMA EmptyOrder == Listed(<<>>) = {}
BY DEF Listed

LEMMA BothFlavors == Listed(<<"dotnet10", "self-contained">>) = Flavors
BY DEF Listed, Flavors

(* Nothing works in a directory that is not there.                         *)
LEMMA NoneWorks == Working(NoDir) = {}
BY DEF Working, Complete, NoDir

LEMMA VerifyChecked ==
  ASSUME Bookkept, Checked, Choose \/ Verify \/ Verified
  PROVE  Checked'
<1>1. op \in Ensures /\ dirs' = dirs
  <2>1. op.pc \in {"choosing", "verify", "verifying"} /\ dirs' = dirs
    BY Zenon DEF Choose, Verify, Verified, files
  <2> QED BY <2>1, EnsureInHand DEF Bookkept, NoOp
<1>2. op.todo = <<>> \/ Listed(op.todo) \subseteq {Head(op.todo)} \union Listed(Tail(op.todo))
  BY <1>1, OrdersType DEF Ensures
<1>3. CASE Choose
  <2> DEFINE t == Select(op.releases, op.pin, op.game)
  <2>1. op' = NoOp \/ op' = Chosen(t, <<"dotnet10", "self-contained">>)
    BY <1>3 DEF Choose
  <2> HIDE DEF t
  <2>2. Working(dirs[t]) \subseteq Flavors
    BY DEF Working, Complete
  <2>3. CASE op' = Chosen(t, <<"dotnet10", "self-contained">>)
    <3>1. op'.pc = "verify" /\ op'.tag = t /\ op'.todo = <<"dotnet10", "self-contained">>
      BY <2>3 DEF Chosen, Ensuring
    <3>2. Working(dirs'[op'.tag]) \subseteq Listed(op'.todo)
      BY <1>1, <2>2, <3>1, BothFlavors
    <3> QED BY <3>1, <3>2 DEF Checked, Listed
  <2> QED BY <2>1, <2>3, NothingChecked DEF NoOp
<1>4. CASE Verify
  <2>1. CASE op.todo = <<>>
    <3>1. op'.pc = "flavor" /\ op'.tag = op.tag /\ op'.cancelled = op.cancelled
      BY <1>1, <1>4, <2>1 DEF Verify, Ensures
    <3>2. ~op.cancelled => Working(dirs[op.tag]) = {}
      BY <1>4, <2>1, EmptyOrder DEF Verify, Checked
    <3> QED BY <1>1, <3>1, <3>2 DEF Checked
  <2>2. CASE op.todo # <<>> /\ Head(op.todo) \in Complete(dirs[op.tag])
    <3>1. op' = [op EXCEPT !.pc = "verifying"] /\ op.pc = "verify"
      BY <1>4, <2>2 DEF Verify
    <3>2. op'.pc = "verifying" /\ op'.tag = op.tag /\ op'.todo = op.todo
          /\ op'.cancelled = op.cancelled
      BY <1>1, <3>1 DEF Ensures
    <3> QED BY <1>1, <2>2, <3>1, <3>2 DEF Checked, Listed
  <2>3. CASE op.todo # <<>> /\ Head(op.todo) \notin Complete(dirs[op.tag])
    <3>1. op' = [op EXCEPT !.todo = Tail(@)] /\ op.pc = "verify"
      BY <1>4, <2>3 DEF Verify
    <3>2. op'.pc = "verify" /\ op'.tag = op.tag /\ op'.todo = Tail(op.todo)
          /\ op'.cancelled = op.cancelled
      BY <1>1, <3>1 DEF Ensures
    <3>3. Head(op.todo) \notin Working(dirs[op.tag])
      BY <2>3 DEF Working
    <3>4. ~op.cancelled => Working(dirs[op.tag]) \subseteq Listed(op.todo)
      BY <3>1 DEF Checked
    <3>5. ~op.cancelled => Working(dirs[op.tag]) \subseteq Listed(Tail(op.todo))
      BY <1>2, <2>3, <3>3, <3>4
    <3> QED BY <1>1, <3>2, <3>5 DEF Checked, Listed
  <2> QED BY <2>1, <2>2, <2>3
<1>5. CASE Verified
  <2> DEFINE f == Head(op.todo)
  <2>1. PICK runs \in BOOLEAN :
          /\ Ended(runs)
          /\ op' = IF runs /\ dirs[op.tag].bin[f] = "runs"
                     THEN [op EXCEPT !.pc = "mapping"]
                     ELSE [op EXCEPT !.pc = "verify", !.todo = Tail(@)]
    BY <1>5 DEF Verified
  <2>2. runs = ~op.cancelled \/ (op.cancelled /\ ~runs)
    BY <2>1 DEF Ended
  <2>3. f \in Complete(dirs[op.tag]) /\ op.pc = "verifying" /\ op.todo # <<>>
    BY <1>5 DEF Verified, Checked, Bookkept, OpOK, AtFlavor
  <2>4. CASE runs /\ dirs[op.tag].bin[f] = "runs"
    <3>1. op'.pc = "mapping" /\ op'.tag = op.tag
      BY <1>1, <2>1, <2>4 DEF Ensures
    <3>2. f \in Working(dirs[op.tag])
      BY <2>3, <2>4 DEF Working
    <3> QED BY <1>1, <3>1, <3>2 DEF Checked
  <2>5. CASE ~(runs /\ dirs[op.tag].bin[f] = "runs")
    <3>1. op'.pc = "verify" /\ op'.tag = op.tag /\ op'.todo = Tail(op.todo)
          /\ op'.cancelled = op.cancelled
      BY <1>1, <2>1, <2>5 DEF Ensures
    <3>2. ~op.cancelled => f \notin Working(dirs[op.tag])
      BY <2>2, <2>5 DEF Working
    <3>3. ~op.cancelled => Working(dirs[op.tag]) \subseteq Listed(op.todo)
      BY <2>3 DEF Checked
    <3>4. ~op.cancelled => Working(dirs[op.tag]) \subseteq Listed(Tail(op.todo))
      BY <1>2, <2>3, <3>2, <3>3
    <3> QED BY <1>1, <3>1, <3>4 DEF Checked, Listed
  <2> QED BY <2>4, <2>5
<1> QED BY <1>3, <1>4, <1>5

LEMMA DiscardChecked ==
  ASSUME op \in Ensures, op.tag \in Tags, dirs \in Dirs, Discard
  PROVE  Checked'
<1>1. op'.pc = "flavor" /\ op'.tag = op.tag
  BY DEF Discard, Ensures
<1>2. dirs'[op.tag] = NoDir
  BY DEF Discard, Dirs
<1> QED BY <1>1, <1>2, NoneWorks DEF Checked

LEMMA InstallChecked ==
  ASSUME Bookkept, Checked,
         TryFlavor \/ DownloadBinary \/ DownloadLibrary \/ DownloadFails \/ Tried
  PROVE  Checked'
<1>1. op \in Ensures /\ op.pc \in {"flavor", "bin", "lib", "trying"}
  <2>1. op.pc \in {"flavor", "bin", "lib", "trying"}
    BY DEF TryFlavor, DownloadBinary, DownloadLibrary, DownloadFails, Tried
  <2> QED BY <2>1, EnsureInHand DEF Bookkept, NoOp
<1>2. op.tag \in Tags /\ dirs \in Dirs
  BY <1>1 DEF Bookkept, OpOK, AtRelease, Files
<1>3. op.pc # "flavor" => Head(op.todo) \in Flavors
  BY <1>1, OrdersType DEF Bookkept, OpOK, AtFlavor, Ensures
<1>4. CASE TryFlavor
  <2>1. op'.pc = "idle" \/ (op'.pc \in {"flavor", "bin"} /\ op'.tag = op.tag
                            /\ op'.cancelled = op.cancelled)
    BY <1>1, <1>4 DEF TryFlavor, Ensures, NoOp
  <2>2. op.pc = "flavor" /\ dirs' = dirs
    BY <1>4 DEF TryFlavor, files
  <2> QED BY <2>1, <2>2, NothingChecked DEF Checked
<1>5. CASE DownloadBinary
  <2>1. PICK q \in {"runs", "broken"} : dirs' = [dirs EXCEPT ![op.tag].bin[Head(op.todo)] = q]
    BY <1>5 DEF DownloadBinary
  <2>2. dirs'[op.tag].bin[Head(op.todo)] # None
    BY <1>2, <1>3, <1>5, <2>1 DEF Dirs, DownloadBinary
  <2>3. op'.pc = "lib" /\ op'.tag = op.tag /\ op'.todo = op.todo
    BY <1>1, <1>5 DEF DownloadBinary, Ensures
  <2> QED BY <2>2, <2>3 DEF Checked
<1>6. CASE DownloadLibrary
  <2>1. op'.pc = "trying" /\ op'.tag = op.tag /\ op'.todo = op.todo
    BY <1>1, <1>6 DEF DownloadLibrary, Ensures
  <2>2. dirs'[op.tag].bin = dirs[op.tag].bin
    BY <1>2, <1>6 DEF Dirs, DownloadLibrary
  <2>3. Head(op.todo) \in dirs'[op.tag].lib
    BY <1>2, <1>6 DEF Dirs, DownloadLibrary
  <2>4. dirs[op.tag].bin[Head(op.todo)] # None
    BY <1>6 DEF DownloadLibrary, Checked
  <2> QED BY <2>1, <2>2, <2>3, <2>4 DEF Checked
<1>7. CASE DownloadFails
  BY <1>1, <1>2, <1>7, DiscardChecked DEF DownloadFails
<1>8. CASE Tried
  <2>1. CASE Discard
    BY <1>1, <1>2, <2>1, DiscardChecked
  <2>2. CASE dirs[op.tag].bin[Head(op.todo)] = "runs" /\ op' = [op EXCEPT !.pc = "mapping"]
             /\ dirs' = dirs
    <3>1. op'.pc = "mapping" /\ op'.tag = op.tag
      BY <1>1, <2>2 DEF Ensures
    <3>2. Head(op.todo) \in dirs[op.tag].lib /\ Head(op.todo) \in Flavors
      BY <1>3, <1>8 DEF Tried, Checked
    <3>3. Head(op.todo) \in Working(dirs[op.tag])
      BY <2>2, <3>2 DEF Working, Complete
    <3> QED BY <2>2, <3>1, <3>3 DEF Checked
  <2> QED BY <1>8, <2>1, <2>2 DEF Tried
<1> QED BY <1>4, <1>5, <1>6, <1>7, <1>8

LEMMA StepChecked ==
  ASSUME Bookkept, Checked, [Next]_vars
  PROVE  Checked'
<1>1. ASSUME UNCHANGED <<op, dirs>> PROVE Checked'
  BY <1>1 DEF Checked, Listed
<1>2. CASE BeginEnsure \/ BeginListReleases \/ Pin \/ EnsureUnpinned
  <2>1. CASE op' = op
    BY <1>1, <1>2, <2>1 DEF BeginEnsure, BeginListReleases, Pin, EnsureUnpinned, files
  <2>2. ASSUME NEW begun \in Ensures, AskVersion(begun) PROVE Checked'
    <3>1. op'.pc \in {"asking", "listing"}
      BY <2>2 DEF AskVersion, Ensures
    <3> QED BY <3>1, NothingChecked
  <2>3. ASSUME NEW p \in Tags \union {None}, NEW offline \in BOOLEAN, NEW install \in BOOLEAN,
               AskVersion(Ensuring("asking", p, offline, install))
        PROVE  Checked'
    BY <2>2, <2>3, EnsuringType
  <2>4. CASE BeginEnsure \/ BeginListReleases
    BY <2>3, <2>4 DEF BeginEnsure, BeginListReleases, Bookkept, Files
  <2>5. CASE Pin
    <3>1. ASSUME NEW offline, op' = Ensuring("unpinned", None, offline, TRUE) PROVE Checked'
      BY <3>1, NothingChecked DEF Ensuring
    <3> QED BY <2>1, <2>5, <3>1 DEF Pin
  <2>6. CASE EnsureUnpinned
    <3>1. op \in Ensures
      BY <2>6, EnsureInHand DEF EnsureUnpinned, Bookkept, NoOp
    <3>2. CASE op' = NoOp
      BY <3>2, NothingChecked DEF NoOp
    <3> QED BY <2>2, <2>6, <3>1, <3>2 DEF EnsureUnpinned
  <2> QED BY <1>2, <2>4, <2>5, <2>6
<1>3. CASE BeginRemove
  BY <1>3, NothingChecked DEF BeginRemove
<1>4. CASE Cancel
  <2>1. op \in Ensures /\ dirs' = dirs /\ op' = [op EXCEPT !.cancelled = TRUE]
    BY <1>4, EnsureInHand DEF Cancel, Bookkept, files
  <2>2. op'.pc = op.pc /\ op'.tag = op.tag /\ op'.todo = op.todo /\ op'.cancelled
    BY <2>1 DEF Ensures
  <2> QED BY <2>1, <2>2 DEF Checked
<1>5. CASE VersionRead \/ List
  <2>1. op.pc \in {"asking", "listing"}
    BY <1>5, Zenon DEF VersionRead, List
  <2>2. op \in Ensures
    BY <2>1, EnsureInHand DEF Bookkept, NoOp
  <2>3. CASE VersionRead
    <3>1. op'.pc = "listing"
      BY <2>2, <2>3 DEF VersionRead, Ensures
    <3> QED BY <3>1, NothingChecked
  <2>4. CASE List
    <3>1. \/ op' = NoOp
          \/ \E releases : op' = [op EXCEPT !.pc = "choosing", !.releases = releases]
      BY <2>4, Zenon DEF List
    <3>2. CASE op' = NoOp
      BY <3>2, NothingChecked DEF NoOp
    <3>3. ASSUME NEW releases, op' = [op EXCEPT !.pc = "choosing", !.releases = releases]
          PROVE  Checked'
      <4>1. op'.pc = "choosing"
        BY <2>2, <3>3 DEF Ensures
      <4> QED BY <4>1, NothingChecked
    <3> QED BY <3>1, <3>2, <3>3
  <2> QED BY <1>5, <2>3, <2>4
<1>6. CASE FetchMapping \/ Remove \/ Stop
  BY <1>6, NothingChecked DEF FetchMapping, Remove, Stop, NoOp
<1>7. ASSUME NEW u \in Users, Acquire(u) PROVE Checked'
  BY <1>1, <1>7 DEF Acquire
<1>8. ASSUME NEW u \in Others, Locates(u) \/ Convert(u) \/ Converted(u) PROVE Checked'
  BY <1>1, <1>8 DEF Locates, Convert, Converted, files
<1>9. CASE Publish \/ UNCHANGED vars
  BY <1>1, <1>9 DEF Publish, vars
<1> QED BY <1>2, <1>3, <1>4, <1>5, <1>6, <1>7, <1>8, <1>9, VerifyChecked, InstallChecked
        DEF Next, ToolsStep

LEMMA AlwaysChecked == Spec => [](Bookkept /\ Checked)
<1>1. Init => Checked
  BY DEF Init, Checked, NoOp
<1> QED BY <1>1, StepChecked, ToolchainBookkept, PTL DEF Spec

(* An ensure ends well only with a release that is there and runs.         *)
THEOREM ToolchainEnsures == Spec => []EnsuredRuns
<1>1. Checked => EnsuredRuns
  BY DEF Checked, EnsuredRuns
<1> QED BY <1>1, AlwaysChecked, PTL

(* A step of an ensure nobody cancelled loses no release that works.       *)
Harmless ==
  /\ op.pc = "verify" /\ op'.pc = "flavor" /\ ~op.cancelled => Working(dirs[op.tag]) = {}
  /\ \A t \in Tags : Working(dirs[t]) # {} /\ Working(dirs'[t]) = {}
       => op.tag = t /\ (op.pc \in {"removing", "lib", "trying"} \/ op.cancelled)

LEMMA WorksElsewhere ==
  ASSUME dirs \in Dirs, NEW t \in Tags, NEW g \in Tags, t # g
  PROVE  /\ \A f, q : [dirs EXCEPT ![g].bin[f] = q][t] = dirs[t]
         /\ \A L : [dirs EXCEPT ![g].lib = L][t] = dirs[t]
         /\ [dirs EXCEPT ![g].mapping = TRUE][t] = dirs[t]
         /\ [dirs EXCEPT ![g] = NoDir][t] = dirs[t]
BY DEF Dirs

LEMMA StepHarmless ==
  ASSUME Bookkept, Checked, [Next]_vars
  PROVE  Harmless
<1>1. op.pc = "verify" /\ op'.pc = "flavor" /\ ~op.cancelled => Working(dirs[op.tag]) = {}
  <2> SUFFICES ASSUME op.pc = "verify", op'.pc = "flavor", ~op.cancelled
               PROVE  Working(dirs[op.tag]) = {}
    OBVIOUS
  <2>1. op \in Ensures /\ op # NoOp /\ op' # op
    BY EnsureInHand DEF Bookkept, NoOp
  <2>3. Verify \/ op' = [op EXCEPT !.cancelled = TRUE] \/ op' = NoOp
    BY <2>1 DEF Next, ToolsStep, vars, BeginEnsure, BeginListReleases, Pin, EnsureUnpinned,
       AskVersion, Ensuring, BeginRemove, Cancel, VersionRead, List, Choose, Verified, TryFlavor, DownloadBinary,
       DownloadLibrary, DownloadFails, Tried, FetchMapping, Remove, Acquire, Locates, Convert,
       Converted, Publish, Stop
  <2>4. Verify
    BY <2>1, <2>3 DEF Ensures, NoOp
  <2>2. op.todo = <<>>
    BY <2>1, <2>4 DEF Verify, Ensures
  <2> QED BY <2>2, EmptyOrder DEF Checked
<1>2. ASSUME NEW t \in Tags, dirs'[t] # dirs[t]
      PROVE  \/ op.pc \in {"removing", "lib", "trying"} /\ op.tag = t
             \/ op.pc = "bin" /\ op.tag = t
             \/ op.pc = "mapping" /\ op.tag = t /\ Working(dirs'[t]) = Working(dirs[t])
  <2>1. dirs \in Dirs
    BY DEF Bookkept, Files
  <2>2. DownloadBinary \/ DownloadLibrary \/ DownloadFails \/ Tried \/ FetchMapping \/ Remove
    BY <1>2, Zenon DEF Next, ToolsStep, vars, files, BeginEnsure, BeginListReleases, Pin, EnsureUnpinned,
       AskVersion, Ensuring, BeginRemove, Cancel, VersionRead, List, Choose, Verify, Verified, TryFlavor, Acquire, Locates, Convert,
       Converted, Publish, Stop
  <2>3. op.tag \in Tags /\ op.pc \in {"removing", "bin", "lib", "trying", "mapping"}
    <3>1. op.pc \in {"removing", "bin", "lib", "trying", "mapping"}
      BY <2>2, Zenon DEF DownloadBinary, DownloadLibrary, DownloadFails, Tried, FetchMapping, Remove
    <3> QED BY <3>1 DEF Bookkept, OpOK, AtRelease, NoOp, Ensures, Removals
  <2>4. op.tag = t
    <3> SUFFICES ASSUME op.tag # t PROVE FALSE
      OBVIOUS
    <3>1. /\ \A f, q : [dirs EXCEPT ![op.tag].bin[f] = q][t] = dirs[t]
          /\ \A L : [dirs EXCEPT ![op.tag].lib = L][t] = dirs[t]
          /\ [dirs EXCEPT ![op.tag].mapping = TRUE][t] = dirs[t]
          /\ [dirs EXCEPT ![op.tag] = NoDir][t] = dirs[t]
      BY <2>1, <2>3, WorksElsewhere
    <3>2. \/ \E f, q : dirs' = [dirs EXCEPT ![op.tag].bin[f] = q]
          \/ \E L : dirs' = [dirs EXCEPT ![op.tag].lib = L]
          \/ dirs' = [dirs EXCEPT ![op.tag].mapping = TRUE]
          \/ dirs' = [dirs EXCEPT ![op.tag] = NoDir]
          \/ dirs' = dirs
      BY <2>2, Zenon
      DEF DownloadBinary, DownloadLibrary, DownloadFails, Tried, FetchMapping, Remove, Discard
    <3>3. ASSUME NEW f, NEW q PROVE dirs' # [dirs EXCEPT ![op.tag].bin[f] = q]
      <4>1. [dirs EXCEPT ![op.tag].bin[f] = q][t] = dirs[t]
        BY <3>1, Zenon
      <4> QED BY <1>2, <4>1
    <3>4. ASSUME NEW L PROVE dirs' # [dirs EXCEPT ![op.tag].lib = L]
      <4>1. [dirs EXCEPT ![op.tag].lib = L][t] = dirs[t]
        BY <3>1, Zenon
      <4> QED BY <1>2, <4>1
    <3>5. dirs' # [dirs EXCEPT ![op.tag].mapping = TRUE] /\ dirs' # [dirs EXCEPT ![op.tag] = NoDir]
      BY <1>2, <3>1
    <3> QED BY <1>2, <3>2, <3>3, <3>4, <3>5, Zenon
  <2>5. op.pc = "mapping" => Working(dirs'[t]) = Working(dirs[t])
    <3> SUFFICES ASSUME op.pc = "mapping" PROVE Working(dirs'[t]) = Working(dirs[t])
      OBVIOUS
    <3>1. dirs' = [dirs EXCEPT ![op.tag].mapping = TRUE]
      BY <1>2, <2>2 DEF DownloadBinary, DownloadLibrary, DownloadFails, Tried, FetchMapping, Remove
    <3>2. dirs'[t].bin = dirs[t].bin /\ dirs'[t].lib = dirs[t].lib
      BY <2>1, <2>3, <2>4, <3>1 DEF Dirs
    <3> QED BY <3>2 DEF Working, Complete
  <2> QED BY <2>3, <2>4, <2>5
<1>3. ASSUME NEW t \in Tags, Working(dirs[t]) # {}, Working(dirs'[t]) = {}
      PROVE  op.tag = t /\ (op.pc \in {"removing", "lib", "trying"} \/ op.cancelled)
  <2>1. dirs'[t] # dirs[t]
    BY <1>3
  <2>2. op.pc = "bin" /\ op.tag = t => op.cancelled = TRUE
    <3>1. op.pc = "bin" => op \in Ensures
      BY EnsureInHand DEF Bookkept, NoOp
    <3> QED BY <1>3, <3>1 DEF Checked, Ensures
  <2> QED BY <1>2, <1>3, <2>1, <2>2
<1> QED BY <1>1, <1>3 DEF Harmless

(* A release that works is lost to no ensure but a cancelled one, or one   *)
(* whose own download it was, and to the user who removes it.              *)
THEOREM ToolchainKeeps == Spec => WorkingInstallStays
<1>1. Bookkept /\ Checked /\ [Next]_vars => [Harmless]_vars
  BY StepHarmless
<1>2. Spec => [][Harmless]_vars
  BY <1>1, AlwaysChecked, PTL DEF Spec
<1> QED BY <1>2, PTL DEF WorkingInstallStays, Harmless
===============================================================================
