-------------------------------- MODULE Merge --------------------------------
(* One build's work on the game files, and what is said of it afterwards: the *)
(* scripts loaded with the user's numbers in them, the edits grouped by file, *)
(* every file merged, compiled or tried again without its structural edits,   *)
(* the verdict of each mod, the amounts over a limit, and the fix that lowers *)
(* multipliers (src/internal/build, core/auditfix.go, modscript/params.go).   *)
(* Files do not share anything while they are merged, so they are merged one  *)
(* at a time, in any order; BuildRun has the worker pool and the folders.     *)
EXTENDS Audit

CONSTANTS
    Mods,         \* mod names
    Script,       \* Mods -> [kind, head, declared, changes]
    KeyOf,        \* spelling of a source -> cache key
    Internal,     \* cache key -> path in the archives, or NoFile
    NoFile,
    Stock,        \* path -> the game's lines
    Tables,       \* the audited paths
    Knobs,        \* the values a parameter is set to
    StartOrder,   \* the configured mods at first, in build order
    StartOff,     \* of them, the disabled ones
    Limits,       \* the audit's limits
    MaxEdits,     \* bound: how many times the user changes the settings
    MaxBuilds     \* bound: how many builds begin

ASSUME MergeConstants ==
    /\ \A m \in Mods : Script[m].kind \in {"builtin", "library", "missing", "broken"}
    /\ \A k \in DOMAIN Internal : Internal[k] # NoFile => Internal[k] \in DOMAIN Stock
    /\ Tables \subseteq DOMAIN Stock
    /\ MaxEdits \in Nat /\ MaxBuilds \in Nat

\* A number spelled without a point is whole; a closing tag says nothing.
IsSequence(s) == s \in Seq(Range(s))
IsNumber(q) == q[1] \in Int /\ q[2] \in Nat \ {0}
IsValue(val) == val.is = "number" => IsNumber(val.q) /\ (~val.point => val.q[2] = 1)
IsLine(line) == /\ DOMAIN line = {"tabs", "kind", "name", "id", "val"}
                /\ line.tabs \in Nat /\ line.kind \in {"open", "self", "close"}
                /\ IsValue(line.val) /\ (line.kind = "close" => line.val = Absent)
AreLines(lines) == IsSequence(lines) /\ \A i \in 1 .. Len(lines) : IsLine(lines[i])
ASSUME StockAssumption == \A f \in DOMAIN Stock : AreLines(Stock[f])

\* What a script declares is in an order, a source has a key however it is
\* spelled, and what a script reads its numbers from is assigned at its top.
IsBlock(blk) ==
    /\ {"changes", "foreach", "preceding", "skw", "add", "mult", "cap",
        "itof", "remove", "knob", "upTo"} \subseteq DOMAIN blk
    /\ IsSequence(blk.preceding) /\ IsSequence(blk.skw) /\ AreLines(blk.add)
    /\ IsSequence(blk.foreach) /\ \A kws \in Range(blk.foreach) : IsSequence(kws)
    /\ IsSequence(blk.changes) /\ \A ch \in Range(blk.changes) : IsValue(ch.value)
    /\ blk.mult = NoNumber \/ IsNumber(blk.mult)
    /\ IsNumber(blk.cap)
Assigned(script, name) == \E i \in 1 .. Len(script.head) : script.head[i].name = name
ASSUME ScriptsAssumption ==
    /\ StartOrder \in Seq(Mods) /\ Knobs \subseteq Int
    /\ KeyOf \in [DOMAIN KeyOf -> DOMAIN Internal]
    /\ \A m \in Mods : Script[m].kind \in {"builtin", "library"} =>
          /\ IsSequence(Script[m].head)
          /\ \A a \in Range(Script[m].head) : {"name", "local", "value"} \subseteq DOMAIN a /\ a.value \in Int
          /\ IsSequence(Script[m].changes)
          /\ \A ch \in Range(Script[m].changes) :
                /\ IsSequence(ch.sources) /\ Range(ch.sources) \subseteq DOMAIN KeyOf
                /\ IsSequence(ch.blocks)
                /\ \A blk \in Range(ch.blocks) :
                      IsBlock(blk) /\ (blk.knob # "" => Assigned(Script[m], blk.knob))
    /\ \A m \in Mods : Script[m].kind = "builtin" =>
          /\ IsSequence(Script[m].declared)
          /\ \A d \in Range(Script[m].declared) :
                d.min \in Int /\ \E a \in Range(Script[m].head) : a.name = d.name /\ ~a.local

VARIABLES
    cfg,      \* the settings: [order, on, params]
    run,      \* the build under way
    work,     \* the file it is merging
    kept,     \* the merged lines in <ModName>.work, and the build they are of
    out,      \* the files of the mod folder being built
    report,   \* the last finished build's report
    promise,  \* what the last applied fix said it brings under the limits
    edits, builds

vars == <<cfg, run, work, kept, out, report, promise, edits, builds>>

-----------------------------------------------------------------------------
(* Loading *)

\* The first assignment of a name at the top of a script, 0 for none.
Assignment(m, p) == FirstOf({i \in 1 .. Len(Script[m].head) :
                              Script[m].head[i].name = p /\ ~Script[m].head[i].local})

\* An override rewrites the first assignment; one of a name the script does not
\* assign fails the script.
CanOverride(m, params) == \A p \in DOMAIN params[m] : Assignment(m, p) # 0
Overridden(m, params) ==
    [i \in 1 .. Len(Script[m].head) |->
        LET a == Script[m].head[i]
        IN  IF a.name \in DOMAIN params[m] /\ i = Assignment(m, a.name)
            THEN [a EXCEPT !.value = params[m][a.name]] ELSE a]

\* What the script reads a name as: its last assignment.
Global(m, params, p) ==
    LET head == Overridden(m, params)
    IN  head[Max({i \in 1 .. Len(head) : head[i].name = p})].value

Decoded(m, params, blk) ==
    IF blk.knob = "" THEN blk ELSE [blk EXCEPT !.mult = <<Global(m, params, blk.knob), 1>>]

\* The key's presence counts, not its effect: REMOVE = false is structural.
Structural(blk) == blk.hasAdd \/ blk.hasRemove

Loads(m, params) == Script[m].kind \in {"builtin", "library"} /\ CanOverride(m, params)

\* A script's edits, in its own order: every block for every source beside it.
ItemsOf(m, params) ==
    LET OfSource(ch, src) == [b \in 1 .. Len(ch.blocks) |->
                                [mod |-> m, source |-> src, block |-> Decoded(m, params, ch.blocks[b])]]
        OfChange(ch) == FlattenSeq([s \in 1 .. Len(ch.sources) |-> OfSource(ch, ch.sources[s])])
    IN  IF ~Loads(m, params) THEN <<>>
        ELSE FlattenSeq([c \in 1 .. Len(Script[m].changes) |-> OfChange(Script[m].changes[c])])

-----------------------------------------------------------------------------
(* The plan *)

Enabled(c) == Those(c.order, c.on)

EditsOf(c) == LET on == Enabled(c)
              IN  FlattenSeq([i \in 1 .. Len(on) |-> ItemsOf(on[i], c.params)])

\* Targets in first-seen order; an edit joins the target of its source's key.
AddItemAsSpelled(targets, item) ==
    LET at == FirstOf({i \in 1 .. Len(targets) : targets[i].items[1].source = item.source})
    IN  IF at = 0 THEN Append(targets, [key |-> KeyOf[item.source], items |-> <<item>>])
        ELSE [targets EXCEPT ![at].items = Append(@, item)]
AddItem(targets, item) ==
    LET key == KeyOf[item.source]
        at  == FirstOf({i \in 1 .. Len(targets) : targets[i].key = key})
    IN  IF at = 0 THEN Append(targets, [key |-> key, items |-> <<item>>])
        ELSE [targets EXCEPT ![at].items = Append(@, item)]
TargetsOf(items) ==
    LET T[i \in 0 .. Len(items)] == IF i = 0 THEN <<>> ELSE AddItem(T[i - 1], items[i])
    IN  T[Len(items)]

NewPlan(c) ==
    [targets |-> TargetsOf(EditsOf(c)),
     enabled |-> Range(Enabled(c)),
     complex |-> {m \in Range(Enabled(c)) :
                    \E i \in 1 .. Len(ItemsOf(m, c.params)) : Structural(ItemsOf(m, c.params)[i].block)},
     issues  |-> {m \in Range(Enabled(c)) : ~Loads(m, c.params)}]

ModsOf(items) == {items[i].mod : i \in 1 .. Len(items)}
StructuralMods(items) == {items[i].mod : i \in {k \in 1 .. Len(items) : Structural(items[k].block)}}
Safe(items) == Those(items, {it \in Range(items) : ~Structural(it.block)})

-----------------------------------------------------------------------------
(* The settings *)

Idle     == [on |-> FALSE]
NoReport == [is |-> FALSE]
NoPromise == [is |-> FALSE]
NoKept   == [lines |-> <<>>, by |-> Idle]

With(f, x, y) == [k \in {x} \cup DOMAIN f |-> IF k = x THEN y ELSE f[k]]

\* Any change the user makes ends what the fix promised.
Edit(c) == /\ edits < MaxEdits
           /\ edits' = edits + 1
           /\ cfg' = c
           /\ promise' = NoPromise
           /\ UNCHANGED <<run, work, kept, out, report, builds>>

SetParam(m, p, v) ==
    /\ p \in {Script[m].declared[i].name : i \in 1 .. Len(Script[m].declared)}
    /\ Edit([cfg EXCEPT !.params[m] = With(@, p, v)])

SetModEnabled(m) ==
    Edit([cfg EXCEPT !.on = IF m \in @ THEN @ \ {m} ELSE @ \cup {m}])

MoveMod(i) ==
    Edit([cfg EXCEPT !.order = [@ EXCEPT ![i] = cfg.order[i + 1], ![i + 1] = cfg.order[i]]])

-----------------------------------------------------------------------------
(* The build *)

\* The plan is of the settings as they are now; the folders are emptied.
BeginBuild ==
    /\ ~run.on /\ builds < MaxBuilds
    /\ Enabled(cfg) # <<>>
    /\ run' = [on |-> TRUE, plan |-> NewPlan(cfg), cfg |-> cfg, outcomes |-> <<>>]
    /\ kept' = [f \in DOMAIN Stock |-> NoKept]
    /\ out' = [f \in DOMAIN Stock |-> <<>>]
    /\ builds' = builds + 1
    /\ UNCHANGED <<cfg, work, report, promise, edits>>

Waiting == {i \in 1 .. Len(run.plan.targets) : i \notin DOMAIN run.outcomes}

Outcome(i, o) == run' = [run EXCEPT !.outcomes = With(@, i, o)]

\* A file that is not in the cache warns once, in the name of its first edit's mod.
NoSource(i) ==
    LET t == run.plan.targets[i]
    IN  /\ run.on /\ ~work.on /\ i \in Waiting
        /\ Internal[t.key] = NoFile
        /\ Outcome(i, [is |-> "no-source", file |-> NoFile, flags |-> <<>>, moved |-> {},
                       events |-> <<Event("warn", t.items[1].mod, 0, "")>>])
        /\ UNCHANGED <<cfg, work, kept, out, report, promise, edits, builds>>

\* The merge begins from a fresh copy of the pristine lines.
Merging(i, items, retry, events, flags) ==
    [on |-> TRUE, target |-> i, items |-> items, retry |-> retry, next |-> 1, audited |-> retry,
     lines |-> Stock[Internal[run.plan.targets[i].key]], moved |-> {},
     events |-> events, flags |-> flags]

StartTarget(i) ==
    /\ run.on /\ ~work.on /\ i \in Waiting
    /\ Internal[run.plan.targets[i].key] # NoFile
    /\ work' = Merging(i, run.plan.targets[i].items, FALSE, <<>>, <<>>)
    /\ UNCHANGED <<cfg, run, kept, out, report, promise, edits, builds>>

\* merge: one edit block over the lines so far.
ApplyItem ==
    /\ work.on /\ work.next <= Len(work.items)
    /\ \E it \in {work.items[work.next]} : \E r \in {Apply(work.lines, it.block, it.mod)} :
           work' = [work EXCEPT !.next = @ + 1, !.lines = r.lines, !.events = @ \o r.events,
                                !.moved = IF r.lines = work.lines THEN @ ELSE @ \cup {it.mod}]
    /\ UNCHANGED <<cfg, run, kept, out, report, promise, edits, builds>>

\* MBINCompiler refuses a document whose tags do not nest; it may refuse others.
Nests(lines) ==
    LET Of(kind, j) == Cardinality({k \in 1 .. j : lines[k].kind = kind})
    IN  /\ \A j \in 1 .. Len(lines) : Of("close", j) <= Of("open", j)
        /\ Of("close", Len(lines)) = Of("open", Len(lines))

File == Internal[run.plan.targets[work.target].key]

\* The amounts are audited on the full merge, before the compiler sees it and
\* whatever becomes of it then.
StockBlocks == [f \in Tables |-> Parse(Stock[f])]

AuditMerge ==
    /\ work.on /\ work.next > Len(work.items) /\ ~work.audited
    /\ \E built \in {Parse(work.lines)} :
         work' = [work EXCEPT !.audited = TRUE,
                    !.flags = IF File \notin Tables THEN @
                              ELSE AuditTable(StockBlocks[File], built, Stock[File], work.items, Limits)]
    /\ UNCHANGED <<cfg, run, kept, out, report, promise, edits, builds>>

Merged == work.on /\ work.next > Len(work.items) /\ work.audited

\* compile keeps the merged lines whatever the compiler says of them.
Keep == kept' = [kept EXCEPT ![File] = [lines |-> work.lines, by |-> run.cfg]]

Compile ==
    /\ Merged
    /\ Nests(work.lines)
    /\ Keep
    /\ out' = [out EXCEPT ![File] = work.lines]
    /\ Outcome(work.target, [is |-> IF work.retry THEN "degraded" ELSE "built", file |-> File,
                             flags |-> work.flags, moved |-> work.moved, events |-> work.events])
    /\ work' = Idle
    /\ UNCHANGED <<cfg, report, promise, edits, builds>>

\* Refused: once more from pristine, with the value edits alone.
Retry ==
    LET items == run.plan.targets[work.target].items
    IN  /\ Merged /\ ~work.retry
        /\ Safe(items) # <<>> /\ Len(Safe(items)) < Len(items)
        /\ Keep
        /\ work' = Merging(work.target, Safe(items), TRUE, work.events, work.flags)
        /\ UNCHANGED <<cfg, run, out, report, promise, edits, builds>>

\* Refused, and nothing else to try: a warning for every edit of the file.
Drop ==
    LET items == run.plan.targets[work.target].items
        failed == [i \in 1 .. Len(items) |-> Event("warn", items[i].mod, 0, "")]
    IN  /\ Merged
        /\ work.retry \/ Safe(items) = <<>> \/ Len(Safe(items)) = Len(items)
        /\ Keep
        /\ Outcome(work.target, [is |-> "dropped", file |-> File, flags |-> work.flags, moved |-> {},
                                 events |-> work.events \o failed])
        /\ work' = Idle
        /\ UNCHANGED <<cfg, out, report, promise, edits, builds>>

\* The outcomes, replayed in plan order.
Outcomes == [i \in 1 .. Len(run.plan.targets) |-> run.outcomes[i]]
EventsOf(m, kind) ==
    LET all == FlattenSeq([i \in 1 .. Len(Outcomes) |-> Outcomes[i].events])
    IN  Cardinality({i \in 1 .. Len(all) : all[i].mod = m /\ all[i].kind = kind})

\* The mods named by the files with an outcome.
Named(outcome) == {i \in 1 .. Len(Outcomes) : Outcomes[i].is = outcome}
Degraded == UNION {StructuralMods(run.plan.targets[i].items) : i \in Named("degraded")}
Dropped  == UNION {ModsOf(run.plan.targets[i].items) : i \in Named("dropped")}

VerdictComplexFirst(m) ==
    CASE EventsOf(m, "ok") = 0 -> "NOT BUILT"
      [] EventsOf(m, "ok") > 0 /\ m \in run.plan.complex -> "WORKING*"
      [] OTHER -> IF m \in Degraded \cup Dropped THEN "PARTIAL"
                  ELSE IF EventsOf(m, "warn") > 0 THEN "WORKING~" ELSE "WORKING"
Verdict(m) ==
    LET skipped == EventsOf(m, "warn") + (IF m \in run.plan.issues THEN 1 ELSE 0)
    IN  CASE EventsOf(m, "ok") = 0          -> "NOT BUILT"
          [] EventsOf(m, "ok") > 0 /\ m \in Degraded \cup Dropped -> "PARTIAL"
          [] EventsOf(m, "ok") > 0 /\ m \notin Degraded \cup Dropped ->
                IF m \in run.plan.complex THEN "WORKING*"
                ELSE IF skipped > 0 THEN "WORKING~" ELSE "WORKING"

FinishBuild ==
    /\ run.on /\ ~work.on /\ Waiting = {}
    /\ report' = [is |-> TRUE, cfg |-> run.cfg, targets |-> run.plan.targets, outcomes |-> Outcomes,
                  rows |-> [m \in run.plan.enabled |-> Verdict(m)],
                  flags |-> Sorted(FlattenSeq([i \in 1 .. Len(Outcomes) |-> Outcomes[i].flags]))]
    /\ run' = Idle
    /\ UNCHANGED <<cfg, work, kept, out, promise, edits, builds>>

\* A cancelled build leaves its merges and writes no report.
CancelBuild ==
    /\ run.on
    /\ run' = Idle
    /\ work' = Idle
    /\ out' = [f \in DOMAIN Stock |-> <<>>]
    /\ UNCHANGED <<cfg, kept, report, promise, edits, builds>>

-----------------------------------------------------------------------------
(* The audit again, and its fix *)

\* AuditKeptMerge: the kept merges against the plan of the settings as they are.
KeptBlocks == [f \in Tables |-> Parse(kept[f].lines)]
KeptFlags(targets, built) ==
    LET Flags(t, f) == IF f = NoFile \/ f \notin Tables \/ kept[f].lines = <<>> THEN <<>>
                       ELSE AuditTable(StockBlocks[f], built[f], Stock[f], t.items, Limits)
    IN  [i \in 1 .. Len(targets) |-> Flags(targets[i], Internal[targets[i].key])]

\* The enabled built-ins' parameters that say what they multiply, with the
\* values in force and the ones the last report was built with.
Scaling ==
    FlattenSeq([i \in 1 .. Len(Enabled(cfg)) |->
        LET m == Enabled(cfg)[i]
            Value(params, d) == IF d.name \in DOMAIN params[m] THEN params[m][d.name]
                                ELSE Script[m].head[Assignment(m, d.name)].value
            Knob(d) == [mod |-> m, param |-> d.name, categories |-> d.scales, min |-> d.min,
                        current |-> Value(cfg.params, d),
                        was |-> Value(IF report.is THEN report.cfg.params ELSE [n \in Mods |-> <<>>], d)]
            declared == Those(Script[m].declared, {d \in Range(Script[m].declared) : d.scales # {}})
        IN  IF Script[m].kind # "builtin" THEN <<>>
            ELSE [k \in 1 .. Len(declared) |-> Knob(declared[k])]])

\* Refused while a parameter differs from the last build's.  Not while a build is
\* writing the merges it reads.
Lowered(knobs, value) == {i \in 1 .. Len(knobs) : value[i] < knobs[i].current}
NewParams(m, knobs, value) ==
    LET mine == {k \in Lowered(knobs, value) : knobs[k].mod = m}
        Lowest(p) == {k \in mine : knobs[k].param = p}
    IN  [p \in {knobs[i].param : i \in mine} \cup DOMAIN cfg.params[m] |->
            IF Lowest(p) # {} THEN value[Max(Lowest(p))] ELSE cfg.params[m][p]]

SaveFix(flags, knobs, value) ==
    /\ \A i \in 1 .. Len(knobs) : knobs[i].was = knobs[i].current
    /\ Lowered(knobs, value) # {}
    /\ cfg' = [cfg EXCEPT !.params = [m \in Mods |-> NewParams(m, knobs, value)]]
    /\ promise' = [is |-> TRUE, of |-> kept, from |-> cfg, cfg |-> cfg',
                   fixed |-> {flags[k] : k \in Fixed(flags, Limits, knobs, value)}]

AuditFix ==
    /\ ~run.on /\ edits < MaxEdits /\ Enabled(cfg) # <<>>
    /\ \E f \in Tables : kept[f].lines # <<>>
    /\ edits' = edits + 1
    /\ \E targets \in {NewPlan(cfg).targets}, built \in {KeptBlocks}, knobs \in {Scaling} :
       \E audited \in {KeptFlags(targets, built)} : \E flags \in {Sorted(FlattenSeq(audited))} \ {<<>>} :
       \E value \in {Recommend(flags, Limits, knobs)} : SaveFix(flags, knobs, value)
    /\ UNCHANGED <<run, work, kept, out, report, builds>>

-----------------------------------------------------------------------------

Init ==
    /\ cfg = [order |-> StartOrder, on |-> Range(StartOrder) \ StartOff, params |-> [m \in Mods |-> <<>>]]
    /\ run = Idle /\ work = Idle
    /\ kept = [f \in DOMAIN Stock |-> NoKept]
    /\ out = [f \in DOMAIN Stock |-> <<>>]
    /\ report = NoReport /\ promise = NoPromise
    /\ edits = 0 /\ builds = 0

Settings == \/ \E m \in Mods, v \in Knobs : \E i \in 1 .. Len(Script[m].declared) :
                    SetParam(m, Script[m].declared[i].name, v)
            \/ \E m \in Range(cfg.order) : SetModEnabled(m)
            \/ \E i \in 1 .. Len(cfg.order) - 1 : MoveMod(i)
            \/ AuditFix

Building == \/ BeginBuild
            \/ run.on /\ \E i \in Waiting : NoSource(i) \/ StartTarget(i)
            \/ ApplyItem \/ AuditMerge \/ Compile \/ Retry \/ Drop
            \/ FinishBuild \/ CancelBuild

Next == Settings \/ Building

Spec == Init /\ [][Next]_vars

-----------------------------------------------------------------------------
(* Properties *)

\* A field that the game and the scripts spell as a whole number in range.
Fits(val) == val.is = "number" =>
                ~val.point /\ val.q[2] = 1 /\ val.q[1] \in -MaxInt32 - 1 .. MaxInt32
KeepsWhole(blk, name) ==
    /\ \A i \in 1 .. Len(blk.add) : blk.add[i].name = name => Fits(blk.add[i].val)
    /\ \A i \in 1 .. Len(blk.changes) :
          blk.changes[i].key = name => Fits(blk.changes[i].value) /\ blk.itof # "force"
SpelledWhole(name) ==
    /\ \A f \in DOMAIN Stock : \A i \in 1 .. Len(Stock[f]) : Stock[f][i].name = name => Fits(Stock[f][i].val)
    /\ \A m \in Mods : Script[m].kind \in {"builtin", "library"} =>
          \A ch \in Range(Script[m].changes) : \A blk \in Range(ch.blocks) : KeepsWhole(blk, name)
IntegerFields ==
    {name \in UNION {{Stock[f][i].name : i \in 1 .. Len(Stock[f])} : f \in DOMAIN Stock} : SpelledWhole(name)}

\* Type invariant: the lines being merged and the ones kept and shipped are
\* lines, and an integer field is whole and inside its range however many edits
\* multiply it ("makes MBINCompiler overflow the field", mxml/mxml.go:28).
Sound(lines) ==
    AreLines(lines) /\ \A i \in 1 .. Len(lines) : lines[i].name \in IntegerFields => Fits(lines[i].val)
TypeOK ==
    /\ work.on => run.on /\ Sound(work.lines) /\ work.next \in 1 .. Len(work.items) + 1
    /\ \A f \in DOMAIN Stock : Sound(kept[f].lines) /\ Sound(out[f])
    /\ run.on => DOMAIN run.outcomes \subseteq 1 .. Len(run.plan.targets)
    /\ \A m \in Mods : \A p \in DOMAIN cfg.params[m] : cfg.params[m][p] \in Int
    /\ cfg.on \subseteq Range(cfg.order) /\ edits \in 0 .. MaxEdits /\ builds \in 0 .. MaxBuilds

\* CURRENCY_MULT and WRAPPER_MULT multiply every amount of the blocks they name
\* exactly once, and nothing else: "walking the file block by block and jumping
\* past each closing tag makes the count exact" (mxml/apply.go:88).  Stated on
\* the tree the indentation draws, however deep the blocks nest, for lines
\* indented as MBINCompiler does and an entry it stamped.
Indented(lines) ==
    \A j \in 1 .. Len(lines) - 1 :
        lines[j + 1].tabs = lines[j].tabs + (IF lines[j].kind = "open" THEN 1 ELSE 0)
                                          - (IF lines[j + 1].kind = "close" THEN 1 ELSE 0)
Stamps(lines, entry) ==
    entry # "" => \E e \in 1 .. Len(lines) :
                      lines[e].kind = "open" /\ \A j \in 1 .. Len(lines) : lines[j].id = entry <=> j = e
Within(lines, i, j) == i < j /\ \A k \in i + 1 .. j : lines[k].tabs > lines[i].tabs
Scaled(lines, blk) ==
    LET opener == IF blk.op = "currency" THEN "GcRewardMoney" ELSE blk.name
        keys   == IF blk.op = "currency" THEN {"AmountMin", "AmountMax"} ELSE blk.keys
        InEntry(i) == \/ blk.entry = "" \/ lines[i].id = blk.entry
                      \/ \E e \in 1 .. Len(lines) : lines[e].id = blk.entry /\ Within(lines, e, i)
        blocks == {i \in 1 .. Len(lines) : OpensBlock(lines[i], opener) /\ InEntry(i)}
        outer  == {i \in blocks : \A k \in blocks : ~Within(lines, k, i)}
        Pays(i) == \E j \in 1 .. Len(lines) : Within(lines, i, j) /\ lines[j].val = Word(blk.name)
        hit    == {i \in outer : blk.op = "wrapper" \/ Pays(i)}
        New(line) == FormatNum(Clamp(Times(line.val.q, blk.mult), blk.cap).q, line.val, "off")
    IN  [j \in 1 .. Len(lines) |->
            IF lines[j].kind # "close" /\ lines[j].name \in keys /\ lines[j].val.is = "number"
               /\ \E i \in hit : Within(lines, i, j)
            THEN [lines[j] EXCEPT !.val = New(lines[j])] ELSE lines[j]]

ScaledOnce ==
    [][work.on /\ work'.on /\ work'.next = work.next + 1 =>
         LET it == work.items[work.next]
         IN  it.block.op \in {"currency", "wrapper"} /\ it.block.mult # NoNumber
             /\ Indented(work.lines) /\ Stamps(work.lines, it.block.entry)
                => work'.lines = Scaled(work.lines, it.block)]_work

\* What ships of a file is the game's own file with every edit of every enabled
\* mod that names it, under any spelling, in build order and once each.  Apart
\* from two keys that resolve to one file (see the README).
MergeUpTo(lines, items, n) ==
    LET M[i \in 0 .. Len(items)] ==
            IF i = 0 THEN lines ELSE Apply(M[i - 1], items[i].block, items[i].mod).lines
    IN  M[n]
MergeOf(lines, items) == MergeUpTo(lines, items, Len(items))
EditsFor(items, f) == Those(items, {it \in Range(items) : Internal[KeyOf[it.source]] = f})
EveryEditShips ==
    ~run.on /\ report.is =>
        \A i \in 1 .. Len(report.outcomes) :
            LET f == report.outcomes[i].file
            IN  report.outcomes[i].is = "built" /\ out[f] # <<>> =>
                    out[f] = MergeOf(Stock[f], EditsFor(EditsOf(report.cfg), f))

\* A verdict is what happened: NOT BUILT moved no line that shipped, a mod that
\* lost a structural edit or a whole file is never called working, and WORKING
\* without a mark had every one of its edits of a file that exists shipped.
VerdictsHonest ==
    report.is =>
        \A m \in DOMAIN report.rows :
            LET mine == {i \in 1 .. Len(report.targets) : m \in ModsOf(report.targets[i].items)}
                Is(i, o) == report.outcomes[i].is = o
                lost == {i \in mine : Is(i, "dropped")}
                        \cup {i \in mine : Is(i, "degraded") /\ m \in StructuralMods(report.targets[i].items)}
            IN  /\ report.rows[m] = "NOT BUILT" => \A i \in mine : m \notin report.outcomes[i].moved
                /\ lost # {} => report.rows[m] \in {"NOT BUILT", "PARTIAL"}
                /\ report.rows[m] = "WORKING" =>
                      \A i \in mine : Is(i, "no-source") \/ Is(i, "built") \/ Is(i, "degraded")

\* The audit's fix keeps its word: rebuilt with the settings the fix saved, no
\* amount it said it brings under the limits is over one.  For a merge of the
\* settings the fix was worked out from, and amounts no CAP held back.
Uncapped(flag) == \A k \in 1 .. Len(flag.by) :
    LET items == ItemsOf(flag.by[k].mod, cfg.params)
    IN  \A i \in 1 .. Len(items) : items[i].block.cap = Zero
FixKeepsPromise ==
    promise.is /\ report.is /\ report.cfg = promise.cfg
    /\ (\A f \in Tables : promise.of[f].lines # <<>> => promise.of[f].by = promise.from) =>
        \A flag \in promise.fixed :
            Uncapped(flag) /\ "saturation" \notin flag.reasons =>
                \A k \in 1 .. Len(report.flags) :
                    <<report.flags[k].entry, report.flags[k].item>> # <<flag.entry, flag.item>>
=============================================================================
