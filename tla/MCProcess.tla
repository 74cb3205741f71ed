----------------------------- MODULE MCProcess -----------------------------
(* The inputs Process is checked with.  The words of the command lines:    *)
(* every way to give an option, the texts the parsers accept and refuse,   *)
(* ports, times and rates in and out of their ranges.                      *)
EXTENDS Process

NameText == Text({}, {}, "name", {})
HostText == Text({}, {}, "literal", {<<127, "other">>})
NoRate   == Text({}, {}, "name", {})

Short(names)     == [form |-> "short", names |-> names, eq |-> {}, text |-> NameText]
Long(name)       == [form |-> "long", names |-> <<name>>, eq |-> {}, text |-> NameText]
LongEq(name, t)  == [form |-> "long", names |-> <<name>>, eq |-> {t}, text |-> NameText]
Plain(t)         == [form |-> "plain", names |-> <<>>, eq |-> {}, text |-> t]

MCWords ==
  { Short(<<"s">>), Short(<<"c">>), Short(<<"p">>), Short(<<"b">>),
    Short(<<"h">>), Short(<<"s", "r">>), Short(<<"p", "s">>),
    [Short(<<"1">>) EXCEPT !.text = IntText(-1)],
    LongEq("server", BoolText(FALSE)), LongEq("client", HostText), LongEq("none", NameText),
    LongEq("time", IntText(0)), LongEq("time", IntText(2)), LongEq("bandwidth", NoRate),
    LongEq("bandwidth", RateText(1, "M")), LongEq("bandwidth", RateText(1, "G")),
    LongEq("bandwidth", RateText(-1, "B")), LongEq("bandwidth", RateText(-1, "K")),
    LongEq("bandwidth", RateText(-1, "G")),
    Long("client"),
    Plain(IntText(7)), Plain(IntText(PortSpace)), Plain(HostText), Plain(RateText(1, "K")),
    [form |-> "dashes", names |-> <<>>, eq |-> {}, text |-> NameText],
    [form |-> "bad", names |-> <<>>, eq |-> {}, text |-> NameText] }

MCIds        == {-2048, 63}
MCTimes      == {-1, 8388607}
MCDigits     == {0, 1, 2, 3, 9, 15, NoDigit, NoMatch}
MCAmounts    == 0 .. 300
MCSeparators == {<<"a">>, <<"a", " ">>, <<"a", "a">>}

=============================================================================
