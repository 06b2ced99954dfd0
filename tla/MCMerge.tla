------------------------------- MODULE MCMerge -------------------------------
(* Two small files: a reward table with one entry that pays units and gives a *)
(* product, and a table of scans whose blocks nest.  Two built-in tweaks, a   *)
(* library script that names the reward table by another spelling and a file  *)
(* that is in no archive, and one that adds a reward.                         *)
EXTENDS Merge

Open(t, name)      == [tabs |-> t, kind |-> "open", name |-> name, id |-> "", val |-> Absent]
Stamped(t, name, id) == [Open(t, name) EXCEPT !.id = id]
Close(t)           == [tabs |-> t, kind |-> "close", name |-> "", id |-> "", val |-> Absent]
Self(t, name, val) == [tabs |-> t, kind |-> "self", name |-> name, id |-> "", val |-> val]
Whole(n)             == Number(<<n, 1>>, FALSE)

Product(t, item, n) ==
    <<Open(t, "GcRewardSpecificProduct"), Self(t + 1, "ID", Word(item)),
      Self(t + 1, "AmountMax", Whole(n)), Close(t)>>
Money(t, currency, low, high) ==
    <<Open(t, "GcRewardMoney"), Self(t + 1, "AmountMin", Whole(low)), Self(t + 1, "AmountMax", Whole(high)),
      Open(t + 1, "Currency"), Self(t + 2, "Currency", Word(currency)), Close(t + 1), Close(t)>>

Files == [Reward |-> <<Stamped(0, "Entry", "R1"), Self(1, "Id", Word("R1"))>> \o Money(1, "Units", 1, 2)
                     \o Product(1, "GOLD", 4) \o <<Close(0)>>,
          Scan |-> <<Open(0, "Scan"), Self(1, "Amount", Whole(3)), Open(1, "Scan"),
                     Self(2, "Amount", Whole(5)), Close(1), Close(0)>>]

Plain == [op |-> "edit", name |-> "", entry |-> "", keys |-> {}, mult |-> <<1, 1>>, cap |-> Zero, knob |-> "",
          preceding |-> <<>>, skw |-> <<>>, foreach |-> <<>>, up |-> 0, upTo |-> "", all |-> FALSE,
          changes |-> <<>>, math |-> "", itof |-> "off",
          add |-> <<>>, hasAdd |-> FALSE, remove |-> FALSE, hasRemove |-> FALSE]
Units   == [Plain EXCEPT !.op = "currency", !.name = "Units", !.knob = "K"]
Stack   == [Plain EXCEPT !.op = "wrapper", !.name = "GcRewardSpecificProduct", !.keys = {"AmountMax"},
                         !.knob = "K", !.entry = "R1"]
Scans   == [Plain EXCEPT !.op = "wrapper", !.name = "Scan", !.keys = {"Amount"}, !.mult = <<3, 2>>]
Triple  == [Plain EXCEPT !.skw = <<"GOLD">>, !.up = 1, !.math = "*",
                         !.changes = <<[key |-> "AmountMax", value |-> Whole(3)]>>]
Extra   == [Plain EXCEPT !.skw = <<"GcRewardMoney">>, !.hasAdd = TRUE, !.add = Product(1, "TIN", 4)]
Less    == [Plain EXCEPT !.preceding = <<"", "Scan">>, !.skw = <<"Amount">>, !.all = TRUE, !.upTo = "Scan", !.math = "-",
                         !.changes = <<[key |-> "Amount", value |-> Whole(1)]>>]
Inner   == [Plain EXCEPT !.foreach = <<<<"Scan", "None">>, <<"Scan">>>>, !.hasRemove = TRUE,
                         !.changes = <<[key |-> "Amount", value |-> Number(<<5, 2>>, TRUE)]>>]

Table(sources, blocks) == [sources |-> sources, blocks |-> blocks]
Tweak(blk, scales, src) ==
    [kind |-> "builtin", head |-> <<[name |-> "K", local |-> FALSE, value |-> 4]>>,
     declared |-> <<[name |-> "K", min |-> 1, scales |-> scales]>>, changes |-> <<Table(<<src>>, <<blk>>)>>]
Lib(changes) == [kind |-> "library", head |-> <<>>, declared |-> <<>>, changes |-> changes]

Scripts == [money |-> Tweak(Units, {"units"}, "reward"), stack |-> Tweak(Stack, {"product"}, "REWARD"),
            lib |-> Lib(<<Table(<<"REWARD">>, <<Triple>>), Table(<<"scan">>, <<Scans>>)>>),
            extra |-> Lib(<<Table(<<"reward">>, <<Extra>>), Table(<<"gone", "scan">>, <<Less, Inner>>)>>)]

Keys     == [reward |-> "reward", REWARD |-> "reward", scan |-> "scan", gone |-> "gone"]
Paths    == [reward |-> "Reward", scan |-> "Scan", gone |-> "none"]
Order    == <<"money", "extra", "stack", "lib">>
Allowed  == [limit |-> [product |-> <<30, 1>>, substance |-> <<20, 1>>, units |-> <<6, 1>>,
                        nanites |-> Zero, specials |-> Zero], ratio |-> <<5, 1>>]
NamesIn  == {<<"Reward", "GcRewardMoney">>, <<"Currency", "GcCurrency">>}
=============================================================================
