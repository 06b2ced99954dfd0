-------------------------------- MODULE Audit --------------------------------
(* The reward-amount audit (src/internal/build/audit) and its fix: the reward *)
(* blocks read out of a file's lines, the stock ones paired with the merged   *)
(* ones, the amounts over a limit, the mods that moved them, and which        *)
(* multipliers to lower.  Limits are [limit |-> category to number, ratio];   *)
(* a limit of zero is no limit.                                               *)
EXTENDS Engine, Selection

Simple     == {"GcRewardSpecificProduct", "GcRewardSpecificSubstance", "GcRewardMoney",
               "GcRewardMultiSpecificProducts"}
MultiItems == "GcRewardMultiSpecificItems"

-----------------------------------------------------------------------------
(* Reading reward blocks *)

IsWrapper(line, kinds) ==
    line.kind = "open" /\ line.name \in kinds /\ line.id = "" /\ line.val = Absent
OpensItem(line) == line.kind = "open" /\ line.name = "Items" /\ line.val = Word("GcMultiSpecificItemEntry")
HasNumber(line, name) == line.kind = "self" /\ line.name = name /\ line.val.is = "number"
HasWord(line, names) == line.kind = "self" /\ line.name \in names /\ line.val.is = "word"

\* The word or number of the first of some lines; none, when there is none.
WordAt(lines, S) == IF S = {} THEN "" ELSE lines[Min(S)].val.text
NumberAt(lines, S) == IF S = {} THEN Zero ELSE lines[Min(S)].val.q

CategoryOf(kind, item, type) ==
    CASE kind = "GcRewardSpecificSubstance" -> "substance"
      [] kind \in {"GcRewardSpecificProduct", "GcRewardMultiSpecificProducts"} -> "product"
      [] kind = MultiItems -> IF type = "Substance" THEN "substance" ELSE "product"
      [] OTHER -> CASE item = "Units" -> "units" [] item = "Nanites" -> "nanites"
                    [] item = "Specials" -> "specials" [] OTHER -> ""

\* A payload whose amounts are its own children.  A lone Amount before any
\* AmountMin or AmountMax is both; a payload with none has nothing to audit.
SimpleBlock(lines, from, entry) ==
    LET last  == CloseIndex(lines, from)
        depth == lines[from].tabs
        kind  == lines[from].name
        At(d) == {j \in from + 1 .. last : lines[j].tabs = d}
        mins  == {j \in At(depth + 1) : HasNumber(lines[j], "AmountMin")}
        maxs  == {j \in At(depth + 1) : HasNumber(lines[j], "AmountMax")}
        lone  == {j \in At(depth + 1) : HasNumber(lines[j], "Amount")
                                        /\ \A k \in mins \cup maxs : j < k}
        item  == IF kind = "GcRewardMoney"
                 THEN WordAt(lines, {j \in At(depth + 2) : HasWord(lines[j], {"Currency"})})
                 ELSE WordAt(lines, {j \in At(depth + 1) : HasWord(lines[j], {"ID", "Substance", "Id"})})
    IN  IF mins \cup maxs \cup lone = {} THEN <<>>
        ELSE <<[kind |-> kind, entry |-> entry, item |-> item, line |-> from,
                category |-> CategoryOf(kind, item, ""),
                min |-> NumberAt(lines, IF lone # {} THEN lone ELSE mins),
                max |-> NumberAt(lines, IF lone # {} THEN lone ELSE maxs)]>>

\* Each entry of a list of items is a block of its own.
ItemBlock(lines, j, entry) ==
    LET At     == {k \in j + 1 .. CloseIndex(lines, j) : lines[k].tabs = lines[j].tabs + 1}
        amount == {k \in At : HasNumber(lines[k], "Amount")}
        item   == WordAt(lines, {k \in At : HasWord(lines[k], {"Id"})})
        types  == {k \in At : HasWord(lines[k], {"MultiItemRewardType"})}
        type   == IF types = {} THEN "" ELSE lines[Max(types)].val.text
    IN  IF amount = {} THEN <<>>
        ELSE <<[kind |-> MultiItems, entry |-> entry, item |-> item, line |-> j,
                category |-> CategoryOf(MultiItems, item, type),
                min |-> NumberAt(lines, amount), max |-> NumberAt(lines, amount)]>>

ReadItem(s, lines, j, entry) ==
    IF j < s.next \/ ~OpensItem(lines[j]) THEN s
    ELSE [next |-> CloseIndex(lines, j) + 1, out |-> s.out \o ItemBlock(lines, j, entry)]
ItemBlocks(lines, from, entry) ==
    LET S[k \in 0 .. CloseIndex(lines, from) - from] ==
            IF k = 0 THEN [next |-> from + 1, out |-> <<>>] ELSE ReadItem(S[k - 1], lines, from + k, entry)
    IN  S[CloseIndex(lines, from) - from].out

\* Ids are kept per depth, an Id forgetting the deeper ones; a line's entry is
\* the nearest one at a shallower depth.
EnclosingId(lines, ids, i) ==
    LET above == {k \in ids : lines[k].tabs < lines[i].tabs}
        live  == {k \in above : \A m \in above : m > k => lines[m].tabs > lines[k].tabs}
    IN  IF live = {} THEN "" ELSE lines[Max(live)].val.text

\* Every reward block of a file; what is inside a block is not looked at again.
ReadLine(s, lines, i) ==
    LET entry == EnclosingId(lines, s.ids, i)
        read  == IF lines[i].name = MultiItems THEN ItemBlocks(lines, i, entry) ELSE SimpleBlock(lines, i, entry)
    IN  CASE i < s.next -> s
          [] i >= s.next /\ HasWord(lines[i], {"Id"}) -> [s EXCEPT !.ids = @ \cup {i}]
          [] i >= s.next /\ IsWrapper(lines[i], Simple \cup {MultiItems}) ->
                [next |-> CloseIndex(lines, i) + 1, ids |-> s.ids, out |-> s.out \o read]
          [] OTHER -> s
Parse(lines) ==
    LET S[i \in 0 .. Len(lines)] ==
            IF i = 0 THEN [next |-> 1, ids |-> {}, out |-> <<>>] ELSE ReadLine(S[i - 1], lines, i)
    IN  S[Len(lines)].out

-----------------------------------------------------------------------------
(* Comparing *)

\* Each merged block's stock counterpart, 0 for none: by position while the
\* counts agree, else the n-th block of a key with the n-th.
Pair(stock, built) ==
    LET Key(b) == <<b.entry, b.kind, b.item>>
        Rank(bs, i) == Cardinality({k \in 1 .. i : Key(bs[k]) = Key(bs[i])})
        Like(i) == {k \in 1 .. Len(stock) : Key(stock[k]) = Key(built[i]) /\ Rank(stock, k) = Rank(built, i)}
    IN  [i \in 1 .. Len(built) |-> IF Len(stock) = Len(built) THEN i ELSE FirstOf(Like(i))]

RatioOf(from, to) ==
    CASE from.max[1] > 0 -> Over(to.max, from.max)
      [] from.max[1] <= 0 /\ from.min[1] > 0 -> Over(to.min, from.min)
      [] OTHER -> Zero

LimitOf(limits, category) == IF category = "" THEN Zero ELSE limits.limit[category]

Judge(stock, built, limits) ==
    LET limit == LimitOf(limits, built.category)
    IN  (IF limit[1] > 0 /\ ~AtMost(built.max, limit) THEN {"limit"} ELSE {})
        \cup (IF limits.ratio[1] > 0 /\ ~AtMost(RatioOf(stock, built), limits.ratio) THEN {"ratio"} ELSE {})
        \cup (IF <<MaxInt32, 1>> \in {built.max, built.min} THEN {"saturation"} ELSE {})

Compare(stock, built, limits) ==
    LET pairs == Pair(stock, built)
        Flag(i) == [entry |-> built[i].entry, item |-> built[i].item, category |-> built[i].category,
                    stock |-> stock[pairs[i]], built |-> built[i],
                    reasons |-> Judge(stock[pairs[i]], built[i], limits),
                    at |-> i, stockAt |-> pairs[i], by |-> <<>>]
        flagged == {i \in 1 .. Len(built) : pairs[i] # 0 /\ Judge(stock[pairs[i]], built[i], limits) # {}}
        order == Those([i \in 1 .. Len(built) |-> i], flagged)
    IN  [k \in 1 .. Len(order) |-> Flag(order[k])]

-----------------------------------------------------------------------------
(* Who moved a flagged amount *)

\* One located block's amounts, by the line it opens at in the stock file.
AmountsAt(lines, at) ==
    CASE at <= Len(lines) /\ IsWrapper(lines[at], Simple) -> SimpleBlock(lines, at, "")
      [] at <= Len(lines) /\ OpensItem(lines[at]) -> ItemBlock(lines, at, "")
      [] OTHER -> <<>>

\* The flagged blocks' amounts by parsing again, unless the block count is of
\* neither document.
ReadBlocks(flags, blocks, stockTotal, total) ==
    LET At(i) == IF Len(blocks) = total THEN flags[i].at ELSE flags[i].stockAt
    IN  IF Len(blocks) \notin {total, stockTotal} \/ \E i \in 1 .. Len(flags) : At(i) > Len(blocks)
        THEN <<>>
        ELSE [i \in 1 .. Len(flags) |-> blocks[At(i)]]

\* By line while no line was added or removed and each still opens a block.
Read(flags, lines, stockLines, stockTotal, total) ==
    LET Either(byLine) ==
            IF Len(lines) = stockLines /\ \A i \in 1 .. Len(flags) : byLine[i] # <<>>
            THEN [i \in 1 .. Len(flags) |-> byLine[i][1]]
            ELSE ReadBlocks(flags, Parse(lines), stockTotal, total)
    IN  Either([i \in 1 .. Len(flags) |-> AmountsAt(lines, flags[i].stock.line)])

\* What one edit did to the flagged amounts.
Observe(s, mod, next, now) ==
    LET Moved(i) == <<now[i].min, now[i].max>> # <<s.last[i].min, s.last[i].max>>
        By(i) == [mod |-> mod, factor |-> RatioOf(s.last[i], now[i]), max |-> now[i].max]
    IN  IF now = <<>> THEN [s EXCEPT !.lines = next]
        ELSE [flags |-> [i \in 1 .. Len(s.flags) |->
                            IF Moved(i) THEN [s.flags[i] EXCEPT !.by = Append(@, By(i))] ELSE s.flags[i]],
              last  |-> [i \in 1 .. Len(s.flags) |-> IF Moved(i) THEN now[i] ELSE s.last[i]],
              lines |-> next]

\* The merge again, one edit at a time, watching the flagged blocks.
After(s, flags, stock, total, lines, mod, next) ==
    Observe(s, mod, next, Read(flags, next, Len(lines), Len(stock), total))
Watch(s, flags, stock, total, lines, item) ==
    After(s, flags, stock, total, lines, item.mod, Apply(s.lines, item.block, item.mod).lines)
Attribute(flags, stock, total, lines, items) ==
    LET start == [flags |-> flags, last |-> [i \in 1 .. Len(flags) |-> flags[i].stock], lines |-> lines]
        S[k \in 0 .. Len(items)] ==
            IF k = 0 THEN start ELSE Watch(S[k - 1], flags, stock, total, lines, items[k])
    IN  IF flags = <<>> THEN <<>> ELSE S[Len(items)].flags

\* Worst first.  Names break a tie in the code; here the order of the tables
\* and of their blocks stands for the names'.
Worse(f, g) ==
    LET Ratio(x) == RatioOf(x.stock, x.built)
    IN  \/ ~AtMost(Ratio(f), Ratio(g))
        \/ Ratio(f) = Ratio(g) /\ ~AtMost(f.built.max, g.built.max)
Place(s, f) ==
    LET after == {g \in Range(s) : Worse(f, g)}
    IN  Those(s, Range(s) \ after) \o <<f>> \o Those(s, after)
Sorted(flags) ==
    LET S[k \in 0 .. Len(flags)] == IF k = 0 THEN <<>> ELSE Place(S[k - 1], flags[k])
    IN  S[Len(flags)]

\* One table: its blocks compared, and the flags attributed.
AuditTable(stock, built, pristine, items, limits) ==
    Attribute(Compare(stock, built, limits), stock, Len(built), pristine, items)

-----------------------------------------------------------------------------
(* The fix.  A knob is [mod, param, category, current, min]. *)

Passes == 64

KnobOf(knobs, mod, category) ==
    LET like == {i \in 1 .. Len(knobs) : knobs[i].mod = mod /\ category \in knobs[i].categories}
    IN  IF like = {} THEN 0 ELSE Max(like)

\* A flag's amount with the proposed values: a lowered knob counts for at most
\* what it multiplied by, which is less where a cap held it.
Predict(flag, knobs, value) ==
    LET Step(v, c) ==
            LET i == KnobOf(knobs, c.mod, flag.category)
                lowered == i # 0 /\ value[i] < knobs[i].current
            IN  IF c.factor[1] <= 0 THEN c.max
                ELSE Times(v, IF lowered /\ ~AtMost(c.factor, <<value[i], 1>>) THEN <<value[i], 1>> ELSE c.factor)
    IN  IF flag.stock.max[1] <= 0 \/ flag.by = <<>> THEN flag.built.max
        ELSE FoldLeft(Step, flag.stock.max, flag.by)

ExcessOfLimit(flag, amount, limits) ==
    LET limit == LimitOf(limits, flag.category)
    IN  IF limit[1] > 0 THEN Over(amount, limit) ELSE Zero

\* How many times over its tightest limit an amount is.
Excess(flag, amount, limits) ==
    LET limit == LimitOf(limits, flag.category)
        one == IF limit[1] > 0 THEN Over(amount, limit) ELSE Zero
        two == IF limits.ratio[1] > 0 /\ flag.stock.max[1] > 0
               THEN Over(Over(amount, flag.stock.max), limits.ratio) ELSE Zero
    IN  IF AtMost(one, two) THEN two ELSE one

Over1(flag, knobs, value, limits) == ~AtMost(Excess(flag, Predict(flag, knobs, value), limits), <<1, 1>>)

\* The latest contributor with room to go down is lowered to what brings the
\* flag under, or to its minimum.
Lower(value, flag, knobs, limits) ==
    LET need == Excess(flag, Predict(flag, knobs, value), limits)
        Knob(k) == KnobOf(knobs, flag.by[k].mod, flag.category)
        room == {k \in 1 .. Len(flag.by) : Knob(k) # 0 /\ value[Knob(k)] > knobs[Knob(k)].min}
        i == Knob(Max(room))
    IN  IF AtMost(need, <<1, 1>>) \/ room = {} THEN value
        ELSE [value EXCEPT ![i] = Max({knobs[i].min} \cup
                                      {v \in knobs[i].min .. @ : v * need[1] <= @ * need[2]})]

LowerAll(value, flags, knobs, limits) ==
    LET V[k \in 0 .. Len(flags)] == IF k = 0 THEN value ELSE Lower(V[k - 1], flags[k], knobs, limits)
    IN  V[Len(flags)]
NextPass(s, flags, knobs, limits) ==
    LET v == LowerAll(s.value, flags, knobs, limits)
    IN  IF s.done THEN s ELSE [value |-> v, done |-> v = s.value]
Recommend(flags, limits, knobs) ==
    LET start == [i \in 1 .. Len(knobs) |-> knobs[i].current]
        S[n \in 0 .. Passes] ==
            IF n = 0 THEN [value |-> start, done |-> FALSE] ELSE NextPass(S[n - 1], flags, knobs, limits)
    IN  S[Passes].value

\* Which flags the fix says it brings under the limits.
Fixed(flags, limits, knobs, value) ==
    {k \in 1 .. Len(flags) : ~Over1(flags[k], knobs, value, limits)}
=============================================================================
