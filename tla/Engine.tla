------------------------------- MODULE Engine -------------------------------
(* The line-based MXML edit engine (src/internal/mxml): what one block of a   *)
(* mod script does to the lines of one file.  A file is a sequence of lines;  *)
(* a line keeps what the engine reads of it: its leading tabs, whether it     *)
(* opens, closes or is a whole <Property>, its name, its _id and its value.   *)
(* Substring search is the relation Inside between a keyword and the longer   *)
(* identifiers that contain it.  Numbers are exact rationals <<n, d>>: the    *)
(* rounding of a float to six decimals is left out, the rounding of an        *)
(* integer is not.                                                            *)
EXTENDS Integers, Sequences, SequencesExt

CONSTANTS
    Inside,     \* pairs <<keyword, identifier>>: the keyword is part of the identifier
    MaxInt32,   \* the largest number an integer field holds
    Lookback    \* how many lines SECTION_UP_TO looks back for its marker

ASSUME EngineConstants == MaxInt32 \in Nat /\ Lookback \in Nat

-----------------------------------------------------------------------------
(* Numbers and values *)

Reduced(n, d) == LET g == Max({k \in 1 .. d : n % k = 0 /\ d % k = 0})
                 IN  <<n \div g, d \div g>>
Times(x, y)  == Reduced(x[1] * y[1], x[2] * y[2])
Over(x, y)   == IF y[1] > 0 THEN Reduced(x[1] * y[2], x[2] * y[1])
                ELSE Reduced(-(x[1] * y[2]), -(x[2] * y[1]))
Sum2(x, y)   == Reduced(x[1] * y[2] + y[1] * x[2], x[2] * y[2])
AtMost(x, y) == x[1] * y[2] <= y[1] * x[2]
Zero         == <<0, 1>>
NoNumber     == <<0, 0>>     \* a MULT that does not parse

\* math.RoundToEven
Rounded(q) ==
    LET low == q[1] \div q[2]
        twice == 2 * (q[1] % q[2])
    IN  IF twice > q[2] \/ (twice = q[2] /\ low % 2 = 1) THEN low + 1 ELSE low

Absent           == [is |-> "absent"]
Word(w)          == [is |-> "word", text |-> w]
Number(q, point) == [is |-> "number", q |-> q, point |-> point]

FormatNumWide(q, old, itof) ==
    IF ~old.point /\ itof # "force" THEN Number(<<Rounded(q), 1>>, FALSE) ELSE Number(q, q[2] # 1)

\* A value spelled without a point stays an integer, rounded half to even and
\* held inside the field; any other loses its trailing zeros and its point.
FormatNum(q, old, itof) ==
    IF ~old.point /\ itof # "force"
    THEN LET v == Rounded(q)
         IN  Number(<<Max({-MaxInt32 - 1, Min({v, MaxInt32})}), 1>>, FALSE)
    ELSE Number(q, q[2] # 1)

\* A CAP of zero or less is no ceiling.
Clamp(q, cap) ==
    IF AtMost(cap, Zero) \/ AtMost(q, cap) THEN [q |-> q, bit |-> FALSE]
                                           ELSE [q |-> cap, bit |-> TRUE]

-----------------------------------------------------------------------------
(* Finding lines *)

Texts(line) == {line.name, line.id} \cup (IF line.val.is = "word" THEN {line.val.text} ELSE {})
Quotes(line, kw) == kw \in Texts(line)
Mentions(line, kw) == \E t \in Texts(line) : t = kw \/ <<kw, t>> \in Inside

FirstOf(S) == IF S = {} THEN 0 ELSE Min(S)

\* The quoted spelling of a keyword is tried first.
FindKW(lines, kw, from, end) ==
    LET quoted == {j \in from .. end - 1 : Quotes(lines[j], kw)}
    IN  FirstOf(IF quoted # {} THEN quoted ELSE {j \in from .. end - 1 : Mentions(lines[j], kw)})

FindProps(lines, key, from, end) ==
    {j \in from .. end - 1 : lines[j].kind \in {"open", "self"} /\ lines[j].name = key}

\* From a line that opens nothing the depth never comes back to zero: the scope
\* is then the rest of the file.
CloseIndex(lines, i) ==
    LET Of(kind, j) == Cardinality({k \in i .. j : lines[k].kind = kind})
        closing == {j \in i .. Len(lines) : lines[j].kind = "close" /\ Of("open", j) = Of("close", j)}
    IN  IF closing = {} THEN Len(lines) ELSE Min(closing)

WalkUp(lines, from, levels) ==
    Max({1} \cup {k \in 1 .. from : lines[k].tabs <= lines[from].tabs - levels})

\* One reward-table entry: the line stamped with its _id, else the parent of the
\* Id line that names it; the whole file for a block that names no entry.
EntryScope(lines, entry) ==
    LET stamped == {j \in 1 .. Len(lines) : lines[j].id = entry}
        named   == {j \in 1 .. Len(lines) : lines[j].name = "Id" /\ lines[j].val = Word(entry)}
        start   == IF stamped # {} THEN Min(stamped)
                   ELSE IF named # {} THEN WalkUp(lines, Min(named), 1) ELSE 0
    IN  CASE entry = ""                -> [from |-> 1, end |-> Len(lines) + 1]
          [] entry # "" /\ start = 0   -> [from |-> 0, end |-> 0]
          [] OTHER                     -> [from |-> start, end |-> CloseIndex(lines, start) + 1]

-----------------------------------------------------------------------------
(* Editing lines: a state [lines, count, capped] threaded through the edits *)

Put(line, val) == IF line.val.is = "absent" THEN line ELSE [line EXCEPT !.val = val]

\* Some of the lines get the values of a function, [val, bit] each; a value a
\* CAP held back is counted.
PutAll(s, put) ==
    [s EXCEPT !.lines = [j \in 1 .. Len(@) |-> IF j \in DOMAIN put THEN Put(@[j], put[j].val) ELSE @[j]],
              !.capped = @ + Cardinality({j \in DOMAIN put : put[j].bit})]

\* The lines of a block that name one of the keys, multiplied.
ScaledBy(lines, block, keys, mult, cap) ==
    LET hits == {j \in block : /\ lines[j].kind \in {"open", "self"} /\ lines[j].name \in keys
                               /\ lines[j].val.is = "number"}
        New(old, r) == [val |-> FormatNum(r.q, old, "off"), bit |-> r.bit]
    IN  [j \in hits |-> New(lines[j].val, Clamp(Times(lines[j].val.q, mult), cap))]

\* Where the walk goes on after a block.
PastOpener(lines, i) == i + 1
PastBlock(lines, i) == CloseIndex(lines, i) + 1

\* Block by block, past each closing tag: a block inside a scaled one is not
\* visited again.  The blocks that hold word; every block when it is Absent.
OpensBlock(line, name) == line.kind = "open" /\ line.name = name /\ line.id = "" /\ line.val = Absent
VisitBlock(s, how, i) ==
    LET last    == CloseIndex(s.lines, i)
        matched == how.word = Absent \/ \E j \in i .. last : s.lines[j].val = how.word
        past    == [s EXCEPT !.next = PastBlock(s.lines, i)]
    IN  IF i < s.next \/ ~OpensBlock(s.lines[i], how.opener) THEN s
        ELSE IF ~matched THEN past
        ELSE PutAll([past EXCEPT !.count = @ + 1],
                    ScaledBy(s.lines, i + how.from .. last, how.keys, how.mult, how.cap))
ScaleBlocks(lines, scope, how) ==
    LET S[k \in 0 .. scope.end - scope.from] ==
            IF k = 0 THEN [lines |-> lines, next |-> scope.from, count |-> 0, capped |-> 0]
            ELSE VisitBlock(S[k - 1], how, scope.from + k - 1)
    IN  S[scope.end - scope.from]

\* What one value change writes into a line.
NewValue(blk, old, change) ==
    LET v == change.value
        r == CASE blk.math = "*" -> Times(old.q, v.q)
               [] blk.math = "+" -> Sum2(old.q, v.q)
               [] blk.math = "-" -> Sum2(old.q, <<-v.q[1], v.q[2]>>)
               [] blk.math = "/" -> IF v.q[1] = 0 THEN old.q ELSE Over(old.q, v.q)
        c == Clamp(r, blk.cap)
    IN  IF blk.math \notin {"*", "+", "-", "/"} \/ old.is # "number" \/ v.is # "number"
        THEN [val |-> v, bit |-> FALSE]
        ELSE [val |-> FormatNum(c.q, old, blk.itof), bit |-> c.bit]

Change(s, blk, hits, change) ==
    PutAll(s, [j \in hits |-> NewValue(blk, s.lines[j].val, change)])

-----------------------------------------------------------------------------
(* The operations.  Each returns the lines and the report's events. *)

Event(kind, mod, capped, notFound) ==
    [kind |-> kind, mod |-> mod, capped |-> capped, notFound |-> notFound]
Done(lines, mod, capped) == [lines |-> lines, events |-> <<Event("ok", mod, capped, "")>>]
Warned(lines, mod) == [lines |-> lines, events |-> <<Event("warn", mod, 0, "")>>]

HowCurrency(blk) == [opener |-> "GcRewardMoney", word |-> Word(blk.name), from |-> 0,
                     keys |-> {"AmountMin", "AmountMax"}, mult |-> blk.mult, cap |-> blk.cap]
HowWrapper(blk) == [opener |-> blk.name, word |-> Absent, from |-> 1,
                    keys |-> blk.keys, mult |-> blk.mult, cap |-> blk.cap]
CurrencyMult(lines, blk, mod) ==
    LET scope == EntryScope(lines, blk.entry)
        s == ScaleBlocks(lines, scope, HowCurrency(blk))
    IN  IF blk.mult = NoNumber \/ scope.from = 0 THEN Warned(lines, mod) ELSE Done(s.lines, mod, s.capped)

WrapperMult(lines, blk, mod) ==
    LET scope == EntryScope(lines, blk.entry)
        s == ScaleBlocks(lines, scope, HowWrapper(blk))
    IN  IF blk.mult = NoNumber \/ scope.from = 0 THEN Warned(lines, mod) ELSE Done(s.lines, mod, s.capped)

\* Each keyword is looked for from the line after the last one's hit; an empty
\* one, which every line holds, is passed over.
PastKW(lines, kw, start) == LET j == IF kw = "" THEN 0 ELSE FindKW(lines, kw, start, Len(lines) + 1)
                            IN  IF j = 0 THEN start ELSE j + 1
Preceding(lines, blk) ==
    LET S[i \in 0 .. Len(blk.preceding)] ==
            IF i = 0 THEN 1 ELSE PastKW(lines, blk.preceding[i], S[i - 1])
    IN  S[Len(blk.preceding)]

\* The anchor of REPLACE_TYPE=ALL: the last keyword's hit, every keyword found.
AfterKW(lines, kw, from, end) == LET j == IF from = 0 THEN 0 ELSE FindKW(lines, kw, from, end)
                                 IN  IF j = 0 THEN 0 ELSE j + 1
SectionAnchor(lines, blk, pos, end) ==
    LET S[i \in 0 .. Len(blk.skw)] == IF i = 0 THEN pos ELSE AfterKW(lines, blk.skw[i], S[i - 1], end)
        after == S[Len(blk.skw)]
    IN  IF after = 0 THEN 0 ELSE after - 1

\* The section around an anchor; from = 0 when its marker is out of reach.
Section(lines, blk, anchor) ==
    LET marked == {k \in Max({1, anchor - Lookback}) .. anchor : Mentions(lines[k], blk.upTo)}
        To(k)  == [from |-> k, end |-> CloseIndex(lines, k) + 1]
    IN  CASE blk.upTo # "" /\ marked = {}  -> [from |-> 0, end |-> 0]
          [] blk.upTo # "" /\ marked # {}  -> To(Max(marked))
          [] blk.upTo = "" /\ blk.up # 0   -> To(WalkUp(lines, anchor, blk.up))
          [] OTHER -> IF lines[anchor].kind = "self" THEN [from |-> anchor, end |-> anchor + 1]
                                                     ELSE To(anchor)

\* REPLACE_TYPE=ALL edits every section the keywords match, the first line of
\* each key.
EditKey(s, blk, sect, ch) ==
    LET hits == FindProps(s.lines, ch.key, sect.from, sect.end)
    IN  IF hits = {} THEN s ELSE Change(s, blk, {Min(hits)}, ch)
EditSection(s, blk, sect) ==
    LET S[i \in 0 .. Len(blk.changes)] == IF i = 0 THEN s ELSE EditKey(S[i - 1], blk, sect, blk.changes[i])
    IN  S[Len(blk.changes)]
NextSection(s, blk, end) ==
    LET anchor == IF s.pos = 0 THEN 0 ELSE SectionAnchor(s.lines, blk, s.pos, end)
        sect   == Section(s.lines, blk, anchor)
    IN  IF anchor = 0 THEN [s EXCEPT !.pos = 0]
        ELSE IF sect.from = 0 THEN [s EXCEPT !.pos = anchor + 1]
        ELSE EditSection([s EXCEPT !.pos = Max({sect.end, anchor + 1}), !.count = @ + 1], blk, sect)
AllSections(lines, blk, mod, start) ==
    LET S[k \in 0 .. Len(lines) + 1] ==
            IF k = 0 THEN [lines |-> lines, pos |-> start, count |-> 0, capped |-> 0]
            ELSE NextSection(S[k - 1], blk, Len(lines) + 1)
        Result(s) == IF s.count > 0 THEN Done(s.lines, mod, s.capped) ELSE Warned(lines, mod)
    IN  Result(S[Len(lines) + 1])

\* The anchor of a keyword group: each keyword is looked for from the last one's
\* hit, and a group found only in part keeps the last keyword that was.
NextKW(s, lines, kw, end) == LET j == IF s.over THEN 0 ELSE FindKW(lines, kw, s.cursor, end)
                             IN  IF j = 0 THEN [s EXCEPT !.over = TRUE]
                                 ELSE [over |-> FALSE, cursor |-> j, anchor |-> j]
GroupAnchor(lines, kws, start, end) ==
    LET S[i \in 0 .. Len(kws)] == IF i = 0 THEN [over |-> FALSE, cursor |-> start, anchor |-> 0]
                                  ELSE NextKW(S[i - 1], lines, kws[i], end)
    IN  S[Len(kws)].anchor

\* The end of the file is read once, before the first group.
GroupScope(lines, blk, kws, start, end) ==
    LET anchor == GroupAnchor(lines, kws, start, end)
    IN  IF kws = <<>> THEN [from |-> start, end |-> end]
        ELSE IF anchor = 0 THEN [from |-> 0, end |-> 0]
        ELSE Section(lines, [blk EXCEPT !.upTo = ""], anchor)

\* A VALUE_CHANGE_TABLE inside a scope: the first line of each key, or all.
OneChange(s, blk, mod, scope, ch) ==
    LET found == FindProps(s.lines, ch.key, scope.from, scope.end)
        hits  == IF blk.all \/ found = {} THEN found ELSE {Min(found)}
        Said(t) == [t EXCEPT !.events = Append(@, Event("ok", mod, t.capped, ""))]
    IN  IF hits = {} THEN [s EXCEPT !.events = Append(@, Event("warn", mod, 0, ch.key))]
        ELSE Said(Change([s EXCEPT !.capped = 0], blk, hits, ch))
ValueChanges(lines, blk, mod, scope) ==
    LET S[i \in 0 .. Len(blk.changes)] ==
            IF i = 0 THEN [lines |-> lines, events |-> <<>>, capped |-> 0]
            ELSE OneChange(S[i - 1], blk, mod, scope, blk.changes[i])
    IN  S[Len(blk.changes)]

\* What a block does inside one scope, whose last line is known.
InScope(s, blk, mod, from, last) ==
    LET before == SubSeq(s.lines, 1, from - 1)
        within == SubSeq(s.lines, from, last)
        after  == SubSeq(s.lines, last + 1, Len(s.lines))
        Edited(lines, over) == [over |-> over, lines |-> lines,
                                events |-> Append(s.events, Event("ok", mod, 0, ""))]
        Changed(vct) == [s EXCEPT !.lines = vct.lines, !.events = @ \o vct.events]
    IN  IF blk.remove THEN Edited(before \o after, TRUE)
        ELSE IF blk.add # <<>> THEN Edited(before \o within \o blk.add \o after, FALSE)
        ELSE Changed(ValueChanges(s.lines, blk, mod, [from |-> from, end |-> last + 1]))

\* A REMOVE ends the block, an ADD goes on to the next group.
OneGroup(s, blk, mod, kws, start, end) ==
    LET scope == GroupScope(s.lines, blk, kws, start, end)
    IN  IF s.over THEN s
        ELSE IF scope.from = 0 THEN [s EXCEPT !.events = Append(@, Event("warn", mod, 0, ""))]
        ELSE InScope(s, blk, mod, scope.from, Min({scope.end - 1, Len(s.lines)}))
Groups(lines, blk, mod, groups, start) ==
    LET S[i \in 0 .. Len(groups)] ==
            IF i = 0 THEN [over |-> FALSE, lines |-> lines, events |-> <<>>]
            ELSE OneGroup(S[i - 1], blk, mod, groups[i], start, Len(lines) + 1)
        Result(s) == [lines |-> s.lines, events |-> s.events]
    IN  Result(S[Len(groups)])

\* One EXML_CHANGE_TABLE block over one file's lines.  A block has keywords, or
\* a value table, when the list it was decoded to is not empty.
Apply(lines, blk, mod) ==
    LET start  == Preceding(lines, blk)
        groups == IF blk.foreach # <<>> THEN blk.foreach ELSE <<blk.skw>>
    IN  CASE blk.op = "currency" -> CurrencyMult(lines, blk, mod)
          [] blk.op = "wrapper"  -> WrapperMult(lines, blk, mod)
          [] OTHER ->
                IF blk.all /\ blk.skw # <<>> /\ blk.foreach = <<>> /\ blk.changes # <<>>
                   /\ blk.add = <<>> /\ ~blk.remove
                THEN AllSections(lines, blk, mod, start)
                ELSE Groups(lines, blk, mod, groups, start)
=============================================================================
