------------------------------ MODULE Library ------------------------------
(***************************************************************************)
(* The settings document and the mod library: internal/config,             *)
(* core/mods.go, tweaks.go, modedit.go, configops.go, auditfix.go and the  *)
(* part of build.go that reads them.  Every operation opens the document,  *)
(* works on its own copy and saves the whole of it back, so two of them    *)
(* interleave between the open and the save; the script files beside it    *)
(* are written in steps of their own.                                      *)
(*                                                                         *)
(* A script declares at most one parameter.  A mod's name is spelled one   *)
(* way, and the paths, the file format and the game are left out.          *)
(***************************************************************************)
EXTENDS Integers, Sequences, FiniteSets, Selection

CONSTANTS
  Order,      \* every mod name: the built-ins as tweaks.Names() lists them, then by name
  Builtin,    \* the names of the scripts embedded in the program
  Texts,      \* what a script file can hold
  Torn,       \* the text of a file whose copy stopped part-way
  Declares,   \* [Texts -> value of the declared parameter, or None]
  Sandboxed,  \* the texts that load
  Default,    \* the value a built-in assigns its parameter
  Low, High,  \* the bounds a built-in declares
  Limits,     \* the audit limits a user sets
  DefaultLimit,
  Threads,    \* goroutines and processes that run operations
  Requests,   \* the requests they make
  MaxRequests, MaxEdits, MaxStops,  \* bounds: requests, file changes by the user, interruptions
  None

Names  == {Order[i] : i \in DOMAIN Order}
Values == (Low - 1)..(High + 1)

ASSUME LibraryAssumption ==
  /\ Order \in Seq(Names) /\ IsInjective(Order)
  /\ Builtin \subseteq Names /\ Torn \in Texts /\ Sandboxed \subseteq Texts \ {Torn}
  /\ Declares \in [Texts -> Values \cup {None}] /\ Declares[Torn] = None
  /\ {Low, High, Default} \subseteq Int /\ Low <= Default /\ Default <= High
  /\ None \notin Values \cup Texts /\ Limits \subseteq Int /\ DefaultLimit \in Limits

\* What the command line and the window make of what a user asks for.
ASSUME RequestsAssumption ==
  \A r \in Requests :
    /\ r.op \in {"add", "enable"} => r.names \in Seq(Names) /\ r.on \in BOOLEAN
    /\ r.op \in {"remove", "move", "set", "reset", "write"} => r.name \in Names
    /\ r.op \in {"add", "write"} => r.text \in Texts
    /\ r.op = "set" => r.value \in Values
    /\ r.op = "config" => r.limit \in Int /\ (r.limit > 0 => r.limit \in Limits)

VARIABLES
  config,   \* the settings file, None when there is none
  library,  \* name -> the text of its script file, None when there is none
  kept,     \* name -> the text of the .bak beside it
  report,   \* the last build's report, None before the first
  op,       \* thread -> the operation it runs
  asked,    \* ghost: the mods some request has asked to enable
  raced,    \* ghost: the threads whose copy of the document, or whose .bak, another replaced
  spent     \* how much of each bound is used up

files == <<config, library, kept, report>>
vars  == <<files, op, asked, raced, spent>>

Bounded(v) == IF v < Low THEN Low ELSE IF v > High THEN High ELSE v
NoParams   == [n \in Names |-> None]
Defaults   == [mods |-> << >>, params |-> NoParams, limit |-> DefaultLimit]
Loaded     == IF config = None THEN Defaults ELSE config

(* ----------------------------- the build order ----------------------------- *)

Listed(mods) == {mods[i].name : i \in DOMAIN mods}
IndexOf(mods, n) == CHOOSE i \in DOMAIN mods : mods[i].name = n
IsOn(mods, n) == n \in Listed(mods) /\ mods[IndexOf(mods, n)].on
Entry(n, on) == [name |-> n, on |-> on]
Entries == [name : Names, on : BOOLEAN]
Others(n) == {e \in Entries : e.name # n}
Dropped(mods, n) == Those(mods, Others(n))

Available(n) == n \in Builtin \/ library[n] # None
Unseen(mods) == Those(Order, {n \in Names : Available(n)} \ Listed(mods))

\* Mutant: entries whose file is gone are dropped.
ReconciledAway(mods) ==
  LET new == Unseen(mods)
  IN  Those(mods, {e \in Entries : Available(e.name)}) \o [i \in DOMAIN new |-> Entry(new[i], FALSE)]

\* Mutant: what is new is switched on.
ReconciledOn(mods) ==
  LET new == Unseen(mods)
  IN  mods \o [i \in DOMAIN new |-> Entry(new[i], TRUE)]

\* Scripts the document has not seen are appended, disabled; entries whose
\* file is gone stay where they are.
Reconciled(mods) ==
  LET new == Unseen(mods)
  IN  mods \o [i \in DOMAIN new |-> Entry(new[i], FALSE)]

Moved(mods, n, to) ==
  LET rest == Dropped(mods, n)
  IN  SubSeq(rest, 1, to - 1) \o <<mods[IndexOf(mods, n)]>> \o SubSeq(rest, to, Len(rest))

Switched(mods, names, on) ==
  [i \in DOMAIN mods |-> IF mods[i].name \in names THEN Entry(mods[i].name, on) ELSE mods[i]]

(* ------------------------------- the scripts ------------------------------- *)

Declared(n) == IF n \in Builtin THEN Default ELSE Declares[library[n]]

\* scriptSource: an override of a parameter the script no longer declares is
\* an error, and so is the whole script.
Drifted(cfg, n) == cfg.params[n] # None /\ Declared(n) = None

Override(params, n) == IF params[n] = None THEN Declared(n) ELSE params[n]

\* What loadScripts makes of one mod: whether it loads, and the value it is
\* loaded with.
Script(cfg, n) ==
  IF ~Available(n) \/ Drifted(cfg, n) \/ (n \notin Builtin /\ library[n] \notin Sandboxed)
  THEN [ok |-> FALSE, value |-> None]
  ELSE [ok |-> TRUE, value |-> Override(cfg.params, n)]

\* paramsDiffer, for the one parameter of one mod.
Differ(was, now) ==
  \/ (was = None) # (now = None)
  \/ now # None /\ was # now

Unbuilt(n) == Differ(IF report = None THEN None ELSE report.params[n], Loaded.params[n])

\* The value the audited build used, and the value the settings say now.
InForce(params, n) == IF params[n] = None THEN Default ELSE params[n]
Knobs(cfg) == {n \in Builtin : IsOn(cfg.mods, n)}
StaleKnobs(cfg, rep) == {n \in Knobs(cfg) : InForce(rep.params, n) # InForce(cfg.params, n)}
Flagged(rep, limit) == {n \in Names : rep.built[n].ok /\ rep.built[n].value # None /\ rep.built[n].value > limit}

\* PlanAuditFix over an audit of `rep` against `limit`: the knobs to lower and
\* to what; no change at all when the settings have moved on.
NoPlan == [n \in Builtin |-> None]
Plan(cfg, rep, limit) ==
  IF rep = None THEN NoPlan
  ELSE IF Flagged(rep, limit) = {} \/ StaleKnobs(cfg, rep) # {} THEN NoPlan
  ELSE [n \in Builtin |->
         IF n \in Knobs(cfg) \cap Flagged(rep, limit) /\ InForce(cfg.params, n) > Low
         THEN Bounded(limit) ELSE None]

(* -------------------------------- operations -------------------------------- *)

Quiet == [at |-> "idle", req |-> None, cfg |-> Defaults, rest |-> << >>, held |-> None, ok |-> TRUE]

Asks(r) == IF r.op \in {"add", "enable"} /\ r.on THEN Range(r.names) ELSE {}

\* open: read the document, and start on the request.
Open(t, r) ==
  /\ op[t].at = "idle"
  /\ op' = [op EXCEPT ![t] = [Quiet EXCEPT !.at = "open", !.req = r, !.cfg = Loaded,
                               !.rest = IF r.op = "add" THEN r.names ELSE << >>]]
  /\ asked' = asked \cup Asks(r)
  /\ raced' = raced \ {t}
  /\ UNCHANGED files

At(t, stage, kind) == op[t].at = stage /\ op[t].req.op = kind

\* The document as the operation holds it, and how it goes on.
Cfg(t) == op[t].cfg
Goto(t, stage, cfg) == op' = [op EXCEPT ![t].at = stage, ![t].cfg = cfg]
Change(t, cfg) == Goto(t, "save", cfg)
Finish(t, good) == op' = [op EXCEPT ![t].at = "done", ![t].ok = good]
WithMods(t, mods) == [Cfg(t) EXCEPT !.mods = mods]
Steady == UNCHANGED <<files, asked, raced>>

\* ListMods, ListTweaks: reconcile, and save only when that changed something.
List(t) ==
  /\ At(t, "open", "list")
  /\ LET mods == Reconciled(Cfg(t).mods)
     IN  IF mods = Cfg(t).mods THEN Finish(t, TRUE) ELSE Change(t, WithMods(t, mods))
  /\ Steady

\* AddMod, one path: refused when the file is there and is not to be replaced;
\* otherwise the destination is truncated and then filled.
Truncate(t) ==
  /\ At(t, "open", "add") /\ op[t].rest # << >>
  /\ LET n == Head(op[t].rest)
     IN  IF library[n] # None /\ ~op[t].req.replace
         THEN Finish(t, FALSE) /\ UNCHANGED library
         ELSE Goto(t, "copy", Cfg(t)) /\ library' = [library EXCEPT ![n] = Torn]
  /\ UNCHANGED <<config, kept, report, asked, raced>>

\* Mutant: the entry is appended without looking for one.
CopyInTwice(t) ==
  /\ At(t, "copy", "add")
  /\ LET n == Head(op[t].rest)
         mods == Append(Cfg(t).mods, Entry(n, op[t].req.on))
     IN  /\ library' = [library EXCEPT ![n] = op[t].req.text]
         /\ op' = [op EXCEPT ![t].at = "open", ![t].cfg = WithMods(t, mods), ![t].rest = Tail(@)]
  /\ UNCHANGED <<config, kept, report, asked, raced>>

\* The copy, and the entry: an entry that is there already stays as it is.
CopyIn(t) ==
  /\ At(t, "copy", "add")
  /\ LET n == Head(op[t].rest)
         mods == IF n \in Listed(Cfg(t).mods) THEN Cfg(t).mods
                 ELSE Append(Cfg(t).mods, Entry(n, op[t].req.on))
     IN  /\ library' = [library EXCEPT ![n] = op[t].req.text]
         /\ op' = [op EXCEPT ![t].at = "open", ![t].cfg = WithMods(t, mods), ![t].rest = Tail(@)]
  /\ UNCHANGED <<config, kept, report, asked, raced>>

AddAll(t) ==
  /\ At(t, "open", "add") /\ op[t].rest = << >>
  /\ Change(t, Cfg(t)) /\ Steady

\* RemoveMod: a built-in keeps its entry and loses only the file that shadows
\* it; any other mod loses its file, when asked, before its entry.
RemoveMod(t) ==
  /\ At(t, "open", "remove")
  /\ LET n == op[t].req.name
         gone == [library EXCEPT ![n] = None]
     IN  IF n \notin Listed(Cfg(t).mods) \/ (n \in Builtin /\ library[n] = None)
         THEN Finish(t, FALSE) /\ UNCHANGED library
         ELSE IF n \in Builtin THEN Finish(t, TRUE) /\ library' = gone
         ELSE /\ Change(t, WithMods(t, Dropped(Cfg(t).mods, n)))
              /\ library' = IF op[t].req.delete THEN gone ELSE library
  /\ UNCHANGED <<config, kept, report, asked, raced>>

SetModEnabled(t) ==
  /\ At(t, "open", "enable")
  /\ LET names == Range(op[t].req.names)
     IN  IF names \subseteq Listed(Cfg(t).mods)
         THEN Change(t, WithMods(t, Switched(Cfg(t).mods, names, op[t].req.on)))
         ELSE Finish(t, FALSE)
  /\ Steady

MoveMod(t) ==
  /\ At(t, "open", "move")
  /\ IF op[t].req.name \in Listed(Cfg(t).mods) /\ op[t].req.to \in DOMAIN Cfg(t).mods
     THEN Change(t, WithMods(t, Moved(Cfg(t).mods, op[t].req.name, op[t].req.to)))
     ELSE Finish(t, FALSE)
  /\ Steady

\* findMod and findParam: the entry after reconciling; its file and the
\* parameter it declares.
Known(t, n) == n \in Listed(Reconciled(Cfg(t).mods))
HasParam(t, n) == Known(t, n) /\ Available(n) /\ Declared(n) # None

\* SetTweakParam: a built-in's value is brought inside its bounds.  What
\* reconciling appended is saved with it.
SetTweakParam(t) ==
  /\ At(t, "open", "set")
  /\ LET n == op[t].req.name
         v == IF n \in Builtin THEN Bounded(op[t].req.value) ELSE op[t].req.value
     IN  IF HasParam(t, n)
         THEN Change(t, [Cfg(t) EXCEPT !.mods = Reconciled(@), !.params[n] = v])
         ELSE Finish(t, FALSE)
  /\ Steady

\* ResetTweak: one parameter only if the script still declares it, or all of
\* them whatever it declares.
ResetTweak(t) ==
  /\ At(t, "open", "reset")
  /\ LET n == op[t].req.name
     IN  IF IF op[t].req.one THEN HasParam(t, n) ELSE Known(t, n)
         THEN Change(t, [Cfg(t) EXCEPT !.mods = Reconciled(@), !.params[n] = None])
         ELSE Finish(t, FALSE)
  /\ Steady

\* Set: zero stands for the default limit; ConfigSet refuses a negative one.
Settable(l) == IF l = 0 THEN Defaults.limit ELSE l

ConfigSet(t) ==
  /\ At(t, "open", "config")
  /\ IF op[t].req.limit < 0 THEN Finish(t, FALSE)
     ELSE Change(t, [Cfg(t) EXCEPT !.limit = Settable(op[t].req.limit)])
  /\ Steady

\* WriteModScript: read the text that is there, keep it, replace it.
ReadCurrent(t) ==
  /\ At(t, "open", "write")
  /\ LET n == op[t].req.name
         writable == /\ Known(t, n) /\ n \notin Builtin /\ Available(n)
                     /\ (op[t].req.text \in Sandboxed \/ op[t].req.force)
     IN  IF ~writable THEN Finish(t, FALSE)
         ELSE IF library[n] = op[t].req.text THEN Finish(t, TRUE)
         ELSE op' = [op EXCEPT ![t].at = "keep", ![t].held = library[n]]
  /\ Steady

\* Mutant: what is kept is what the edit brings.
KeepEdited(t) ==
  /\ At(t, "keep", "write")
  /\ kept' = [kept EXCEPT ![op[t].req.name] = op[t].req.text]
  /\ Goto(t, "replace", Cfg(t))
  /\ raced' = raced \cup {u \in Threads \ {t} : op[u].at = "replace"}
  /\ UNCHANGED <<config, library, report, asked>>

KeepPrevious(t) ==
  /\ At(t, "keep", "write")
  /\ kept' = [kept EXCEPT ![op[t].req.name] = op[t].held]
  /\ Goto(t, "replace", Cfg(t))
  /\ raced' = raced \cup {u \in Threads \ {t} : op[u].at = "replace"}
  /\ UNCHANGED <<config, library, report, asked>>

ReplaceScript(t) ==
  /\ At(t, "replace", "write")
  /\ library' = [library EXCEPT ![op[t].req.name] = op[t].req.text]
  /\ Finish(t, TRUE)
  /\ UNCHANGED <<config, kept, report, asked, raced>>

\* loadScripts, for a build and for an audit: reconcile and save, then read
\* the scripts with the overrides this run opened with.
Prepare(t) ==
  /\ op[t].at = "open" /\ op[t].req.op \in {"build", "fix"}
  /\ LET mods == Reconciled(Cfg(t).mods)
     IN  IF mods = Cfg(t).mods THEN Goto(t, "load", Cfg(t)) ELSE Change(t, WithMods(t, mods))
  /\ Steady

Build(t) ==
  /\ At(t, "load", "build")
  /\ IF \E n \in Names : IsOn(Cfg(t).mods, n)
     THEN op' = [op EXCEPT ![t].at = "merge", ![t].held =
            [n \in Names |-> IF IsOn(Cfg(t).mods, n) THEN Script(Cfg(t), n) ELSE [ok |-> FALSE, value |-> None]]]
     ELSE Finish(t, FALSE)
  /\ Steady

\* Mutant: the report carries the parameters as they are by now.
WriteReportLate(t) ==
  /\ At(t, "merge", "build")
  /\ report' = [built |-> op[t].held, params |-> Loaded.params, limit |-> Cfg(t).limit]
  /\ Finish(t, TRUE)
  /\ UNCHANGED <<config, library, kept, asked, raced>>

\* The report: the parameters of the document as this build opened it.
WriteReport(t) ==
  /\ At(t, "merge", "build")
  /\ report' = [built |-> op[t].held, params |-> Cfg(t).params, limit |-> Cfg(t).limit]
  /\ Finish(t, TRUE)
  /\ UNCHANGED <<config, library, kept, asked, raced>>

\* AuditFix: the audit judges the last build by the limit as opened, the plan
\* opens the document again, and so does the saving of the plan.
PlanFix(t) ==
  /\ At(t, "load", "fix")
  /\ LET plan == Plan(Loaded, report, Cfg(t).limit)
     IN  IF plan = NoPlan THEN Finish(t, report # None)
         ELSE op' = [op EXCEPT ![t].at = "apply", ![t].held = plan]
  /\ Steady

ApplyFix(t) ==
  /\ At(t, "apply", "fix")
  /\ Change(t, [Loaded EXCEPT !.params =
       [n \in Names |-> IF n \in Builtin /\ op[t].held[n] # None THEN op[t].held[n] ELSE @[n]]])
  /\ Steady

\* config.Save: a temporary file renamed over the document.
Save(t) ==
  /\ op[t].at = "save"
  /\ config' = Cfg(t)
  /\ IF op[t].req.op \in {"build", "fix"} /\ op[t].held = None THEN Goto(t, "load", Cfg(t)) ELSE Finish(t, TRUE)
  /\ raced' = raced \cup {u \in Threads \ {t} : op[u].at \notin {"idle", "done"}}
  /\ UNCHANGED <<library, kept, report, asked>>

\* An operation that fails at a file: what it has written stays.
FailsAtFile(t) ==
  /\ op[t].at \in {"copy", "keep", "replace", "merge", "save"}
  /\ Finish(t, FALSE) /\ Steady

Close(t) ==
  /\ op[t].at = "done"
  /\ op' = [op EXCEPT ![t] = Quiet] /\ Steady

Stop(t) ==
  /\ op[t].at \notin {"idle", "done"}
  /\ op' = [op EXCEPT ![t] = Quiet] /\ Steady

Work(t) ==
  \/ List(t) \/ Truncate(t) \/ CopyIn(t) \/ AddAll(t) \/ RemoveMod(t) \/ SetModEnabled(t)
  \/ MoveMod(t) \/ SetTweakParam(t) \/ ResetTweak(t) \/ ConfigSet(t)
  \/ ReadCurrent(t) \/ KeepPrevious(t) \/ ReplaceScript(t)
  \/ Prepare(t) \/ Build(t) \/ WriteReport(t) \/ PlanFix(t) \/ ApplyFix(t)
  \/ Save(t) \/ FailsAtFile(t)

\* The user drops a script into the library directory, edits it there, or
\* takes it out.
UserFile(n, text) ==
  /\ library[n] # text
  /\ library' = [library EXCEPT ![n] = text]
  /\ UNCHANGED <<config, kept, report, op, asked, raced>>

\* A machine that never ran the program, or one where a session ended with
\* everything switched on and built.
FirstRun == config = None /\ report = None /\ library = [n \in Names |-> None] /\ asked = {}
LaterRun ==
  /\ config = [Defaults EXCEPT !.mods = [i \in DOMAIN Order |-> Entry(Order[i], TRUE)]]
  /\ \E text \in Sandboxed : library = [n \in Names |-> IF n \in Builtin THEN None ELSE text]
  /\ report = [built |-> [n \in Names |-> Script(config, n)], params |-> NoParams, limit |-> DefaultLimit]
  /\ asked = Names

Init ==
  /\ FirstRun \/ LaterRun
  /\ kept = [n \in Names |-> None]
  /\ op = [t \in Threads |-> Quiet]
  /\ raced = {}
  /\ spent = [requests |-> 0, edits |-> 0, stops |-> 0]

Spend(what, bound) == spent[what] < bound /\ spent' = [spent EXCEPT ![what] = @ + 1]

Next ==
  \/ \E t \in Threads :
       \/ Spend("requests", MaxRequests) /\ \E r \in Requests : Open(t, r)
       \/ Work(t) /\ UNCHANGED spent
       \/ Close(t) /\ UNCHANGED spent
       \/ Spend("stops", MaxStops) /\ Stop(t)
  \/ Spend("edits", MaxEdits) /\ \E n \in Names, text \in (Texts \ {Torn}) \cup {None} : UserFile(n, text)

Spec == Init /\ [][Next]_vars

(* --------------------------------- properties --------------------------------- *)

Stages == {"idle", "open", "copy", "keep", "replace", "save", "load", "merge", "apply", "done"}
Documents == [mods : Seq(Entries), params : [Names -> Values \cup {None}], limit : Limits]

(* No mod is in the build order twice, whatever order two programs list, add  *)
(* and drop files in: a mod listed twice would be merged twice, and its       *)
(* multiplier applied to its own result (mods.go reconcile, addOne).          *)
Once(mods) == \A i, j \in DOMAIN mods : mods[i].name = mods[j].name => i = j
ListedOnce == Once(Loaded.mods) /\ \A t \in Threads : Once(op[t].cfg.mods)

(* Types: the document, a build order without repetitions, the files beside   *)
(* it and the operations in flight.                                           *)
TypeOK ==
  /\ config \in Documents \cup {None}
  /\ ListedOnce
  /\ library \in [Names -> Texts \cup {None}]
  /\ kept \in [Names -> Texts \cup {None}]
  /\ \A t \in Threads : op[t].at \in Stages /\ op[t].cfg \in Documents /\ op[t].ok \in BOOLEAN
  /\ asked \subseteq Names /\ raced \subseteq Threads

(* A mod that is switched on is one somebody asked to switch on: a file       *)
(* dropped into the library, a built-in a new version brings and a file left  *)
(* by a copy that stopped are listed, but disabled (mods.go ListMods,         *)
(* reconcile).                                                                *)
EnabledOn(mods) == {mods[i].name : i \in {j \in DOMAIN mods : mods[j].on}}
Consent == EnabledOn(Loaded.mods) \cup UNION {EnabledOn(op[t].cfg.mods) : t \in Threads} \subseteq asked

(* A save that no other save overtook changes what its request names and      *)
(* nothing else: the other mods keep their places, switches and parameters,   *)
(* also those whose file is gone, and an audit fix only lowers multipliers    *)
(* (every caller of config.Save in core).                                     *)
Kept(r, mods) == IF r.op \in {"remove", "move"} THEN Dropped(mods, r.name) ELSE mods
Places(r, mods) == [i \in DOMAIN Kept(r, mods) |-> Kept(r, mods)[i].name]
SwitchedBy(r) == IF r.op \in {"enable", "add"} THEN Range(r.names) ELSE {}

Faithful(r, old, new) ==
  /\ \E k \in 0..Len(Places(r, new.mods)) : SubSeq(Places(r, new.mods), 1, k) = Places(r, old.mods)
  /\ r.op # "remove" => Listed(old.mods) \subseteq Listed(new.mods)
  /\ \A n \in Listed(new.mods) \ SwitchedBy(r) : IsOn(new.mods, n) = IsOn(old.mods, n)
  /\ \A n \in Names : new.params[n] # old.params[n] =>
       \/ r.op \in {"set", "reset"} /\ r.name = n
       \/ r.op = "fix" /\ InForce(new.params, n) < InForce(old.params, n)
  /\ r.op # "config" => new.limit = old.limit

Saves(t) == op[t].at = "save" /\ config' = op[t].cfg /\ op'[t] # op[t] /\ op'[t].ok
SavesOnlyWhatWasAsked ==
  [][\A t \in Threads : Saves(t) /\ t \notin raced => Faithful(op[t].req, Loaded, config')]_vars

(* A tweak shown as built was built with the value the settings hold now: no  *)
(* order of builds, changes and resets makes the window say that the last     *)
(* build used a value it did not use (tweaks.go builtParams, paramsDiffer,    *)
(* build.go: the report carries the parameters the build opened with).        *)
BuiltMeansBuilt ==
  \A n \in Builtin :
    report # None /\ ~Unbuilt(n) /\ report.built[n].ok
      => report.built[n].value = Override(Loaded.params, n)

(* The text an edit replaces is the text beside it as .bak, and it differs    *)
(* from the new text, unless the file was changed since the edit read it: an  *)
(* edit can be taken back (modedit.go WriteModScript).                        *)
EditKeepsPrevious ==
  [][\A t \in Threads :
       (/\ At(t, "replace", "write") /\ op'[t].at = "done" /\ op'[t].ok
        /\ op[t].held = library[op[t].req.name] /\ t \notin raced)
       => /\ kept[op[t].req.name] = library[op[t].req.name]
          /\ kept[op[t].req.name] # library'[op[t].req.name]]_vars
============================================================================
