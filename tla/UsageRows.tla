------------------------------ MODULE UsageRows ------------------------------
(***************************************************************************)
(* What one usage meter looks like on a terminal: the columns the layout   *)
(* planner gives it, the text that is cut to fit them, and the colour that *)
(* the burn rate of its reset window earns it.  A text is so many narrow   *)
(* glyphs followed by so many wide ones, of two cells each; what it says is *)
(* left out.  Shares are in tenths of a percent, time in minutes.          *)
(*                                                                         *)
(* The terminal is resized, the clock runs, the next fetch reports more    *)
(* used, and a window starts again; the row is a function of that.         *)
(***************************************************************************)
EXTENDS Integers, Sequences

LOCAL INSTANCE FiniteSetsExt

CONSTANTS
    Widths,      \* widths a terminal may have
    Shares,      \* shares of the quota a provider may report as used
    Waits,       \* times until a reset, negative once it is over
    Limits,      \* Claude limits: their kind, group and model
    Windows,     \* Codex windows: their length, 0 when it is not stated
    Texts,       \* names, models and hints, as texts
    GutterCells, \* cells the view reserves for its selection marker
    Garbage,     \* a reset time that cannot be read
    None

ASSUME RowsAssumption ==
    /\ Widths \subseteq Nat
    /\ Shares \subseteq Int /\ 0 \in Shares
    /\ \A s \in Shares : s >= -9994 /\ s <= 99994    \* bound: what NumberCells tells apart
    /\ Waits \subseteq Int
    /\ Texts \subseteq [narrow : Nat, wide : Nat]
    /\ \A l \in Limits : DOMAIN l = {"kind", "group", "model"} /\ l.model \in Texts
    /\ \A w \in Windows : DOMAIN w = {"length"} /\ w.length \in Nat
    /\ GutterCells \in Nat
    /\ None \notin Waits /\ Garbage \notin Waits

VARIABLES
    width,   \* of the terminal
    meter,   \* the limit or window the row is about
    used,    \* the share of it that is used
    left     \* how long until it resets, None if that is not known

vars == <<width, meter, used, left>>

-----------------------------------------------------------------------------
(* Columns.                                                                *)

Indent == 2
Gap == 2
PercentCells == 4
LongReset == 20
BarMax == 20

\* What a row may spend on label and reset, and the narrowest bar worth it.
Tiers == << [label |-> 13, reset |-> LongReset, floor |-> 14],
            [label |-> 13, reset |-> 9,         floor |-> 14],
            [label |-> 13, reset |-> 9,         floor |-> 8],
            [label |-> 8,  reset |-> 9,         floor |-> 8],
            [label |-> 8,  reset |-> 0,         floor |-> 8] >>

\* Bug: a comfortable bar is preferred to a full label.
ComfortBeforeLabel ==
    <<Tiers[1], Tiers[2], [label |-> 8, reset |-> 9, floor |-> 14], Tiers[3], Tiers[4], Tiers[5]>>

TierOrder == Tiers

\* What is left for the bar, the last column of the terminal being off limits.
Room(w, t) ==
    w - 1 - (Indent + t.label + Gap + Gap + PercentCells)
          - (IF t.reset > 0 THEN Gap + t.reset ELSE 0)

Affordable(w) == {i \in DOMAIN TierOrder : Room(w, TierOrder[i]) >= TierOrder[i].floor}

\* The richest tier the width affords; below all of them the row is cut.
PlanLayout(w) ==
    IF Affordable(w) = {}
    THEN [label |-> 8, bar |-> 8, reset |-> 0]
    ELSE LET t == TierOrder[Min(Affordable(w))]
         IN  [label |-> t.label, bar |-> Min({Room(w, t), BarMax}), reset |-> t.reset]

-----------------------------------------------------------------------------
(* Texts.                                                                  *)

Narrow(n) == [narrow |-> n, wide |-> 0]
Cells(text) == text.narrow + 2 * text.wide

\* The cells of the longest prefix that leaves one of w for the ellipsis.
KeptCells(text, w) ==
    IF w - 1 <= text.narrow THEN w - 1 ELSE text.narrow + 2 * ((w - 1 - text.narrow) \div 2)

\* Bug: a cell left over in front of a wide glyph is not padded.
Unpadded(text, w) == 0

Padding(text, w) == w - 1 - KeptCells(text, w)

\* cellClip: the cells of a text that is cut, with an ellipsis, to w of them.
ClipCells(text, w) ==
    IF Cells(text) <= w THEN Cells(text)
    ELSE IF w <= 0 THEN 0
    ELSE KeptCells(text, w) + Padding(text, w) + 1

\* fit: the cells of a text in a column, padded or cut.
FitCells(text, w) == IF Cells(text) > w THEN ClipCells(text, w) ELSE w

\* emitLine: where each segment of a row ends, if each is clipped to what those
\* before it have left of w cells.
LineStops(segments, w) ==
    LET stop[i \in 0..Len(segments)] ==
          IF i = 0 THEN 0
          ELSE LET at == stop[i - 1]
               IN  IF at >= w THEN at ELSE at + ClipCells(segments[i], w - at)
    IN  stop

LineCells(segments, w) == LineStops(segments, w)[Len(segments)]

-----------------------------------------------------------------------------
(* The meter and its reset.                                                *)

Session == 300
Week == 7 * 1440

\* The window of a Claude limit is told from its group, or its kind without one.
KeyOf(limit) == IF limit.group # None THEN limit.group ELSE limit.kind
Weekly == {"weekly", "weekly_all", "weekly_opus"}

ClaudePeriod(limit) ==
    CASE KeyOf(limit) = "session" -> Session
      [] KeyOf(limit) \in Weekly -> Week
      [] OTHER -> None

Period(m) == IF m \in Limits THEN ClaudePeriod(m) ELSE IF m.length = 0 THEN None ELSE m.length

\* Its label: a fixed one, "weekly" and the model where there is room, or the
\* model alone; a Codex window is "weekly" or so many hours.
KindLabel == [session |-> Narrow(2), weekly_all |-> Narrow(6)]
Prefixed(n, text) == [text EXCEPT !.narrow = @ + n]

Label(m, layout) ==
    IF m \in Windows
    THEN Narrow(IF m.length >= 6 * 1440 THEN 6 ELSE IF m.length >= 600 THEN 3 ELSE 2)
    ELSE IF m.kind \in DOMAIN KindLabel THEN KindLabel[m.kind]
    ELSE IF m.group = "weekly" /\ layout.label >= 13 THEN Prefixed(7, m.model)
    ELSE m.model

\* Bug: an unreadable time is used as it is.
AnyTime(wire) == wire

\* parseResetDate: a time that is missing or unreadable is no time.
ParseReset(wire) == IF wire \in Waits THEN wire ELSE None

Digits(n) == IF n < 10 THEN 1 ELSE 2

CountdownCells(t) ==
    LET days == t \div 1440  hours == (t % 1440) \div 60  minutes == t % 60
    IN  CASE days > 0 -> Digits(days) + 1 + Digits(hours) + 1
          [] days = 0 /\ hours > 0 -> Digits(hours) + 1 + 2 + 1
          [] days = 0 /\ hours = 0 -> Digits(minutes) + 1

\* fmtReset: "resetting", or "in", the countdown and, if long, the clock, with
\* the weekday from a day on.
ResetCells(t, long) ==
    IF t <= 0 THEN 9
    ELSE 3 + CountdownCells(t) + (IF ~ long THEN 0 ELSE 3 + (IF t >= 1440 THEN 9 ELSE 5))

-----------------------------------------------------------------------------
(* The colour.                                                             *)

\* Too early to project: less than a minute, or than one percent of the window.
TooEarly(t, period) == LET elapsed == period - t IN elapsed < 1 \/ 100 * elapsed < period

NoWindow(t, period) == t = None \/ period = None
Judged(t, period) == ~ NoWindow(t, period) /\ ~ TooEarly(t, period) /\ t > 0

\* The projection, share * period / elapsed, is at most a given percentage.
LandsWithin(share, t, period, percent) == share * period <= 10 * percent * (period - t)

Projection(share, t, period) ==
    IF LandsWithin(share, t, period, 90) THEN "ahead"
    ELSE IF LandsWithin(share, t, period, 100) THEN "onTrack" ELSE "behind"

\* Bug: a nearly empty meter is distrusted only when it would be red.
DistrustRed(share, t, period) == share < 50 /\ Projection(share, t, period) = "behind"

Distrusted(share, t, period) == share < 50

EvaluatePace(share, t, period) ==
    IF ~ Judged(t, period) THEN "none"
    ELSE IF share <= 0 THEN "ahead"
    ELSE IF share >= 1000 THEN "behind"
    ELSE IF Distrusted(share, t, period) THEN "none"
    ELSE Projection(share, t, period)

Green == 0
Yellow == 1
Red == 2

ByLevel(share) == IF share < 700 THEN Green ELSE IF share < 900 THEN Yellow ELSE Red

MeterColor(share, t, period) ==
    CASE EvaluatePace(share, t, period) = "ahead" -> Green
      [] EvaluatePace(share, t, period) = "onTrack" -> Yellow
      [] EvaluatePace(share, t, period) = "behind" -> Red
      [] EvaluatePace(share, t, period) = "none" -> ByLevel(share)

-----------------------------------------------------------------------------
(* Rows, as the segments emitLine gets.                                    *)

\* roundHalfEven of the fraction n / d.
RoundHalfEven(n, d) ==
    LET floor == n \div d  rest == 2 * (n % d)
    IN  IF rest < d \/ (rest = d /\ floor % 2 = 0) THEN floor ELSE floor + 1

Filled(share, bar) == Max({0, Min({bar, RoundHalfEven(share * bar, 1000)})})

\* formatPercent: padded to three cells, and wider if it has to be.
NumberCells(share) == IF RoundHalfEven(share, 10) \in -99..999 THEN 3 ELSE 4

Blank(n) == Narrow(n)

MeterRow(layout) ==
    LET filled == Filled(used, layout.bar)
        row == << Blank(Indent), Narrow(FitCells(Label(meter, layout), layout.label)), Blank(Gap),
                  Narrow(filled), Narrow(layout.bar - filled), Blank(Gap), Narrow(NumberCells(used) + 1) >>
    IN  IF layout.reset > 0 /\ left # None
        THEN row \o << Blank(Gap), Narrow(ResetCells(left, layout.reset >= LongReset)) >>
        ELSE row

AccountLine(name, alias, note) ==
    <<Narrow(1), Narrow(1), name, Prefixed(2, alias), Prefixed(3, note)>>

DetailLine(layout, value) ==
    <<Blank(Indent), Narrow(FitCells(Narrow(7), layout.label)), Blank(Gap), value>>

HintLine(text) == <<Blank(Indent), text>>

\* Account rows give way to the gutter if the terminal is wider than it is.
Gutter == IF width > GutterCells + 1 THEN GutterCells ELSE 0

\* Bug: the account rows are laid out at the full width.
FullWidth == width

AccountWidth == width - Gutter

AccountRows ==
    LET layout == PlanLayout(AccountWidth)
    IN  {MeterRow(layout)} \union {AccountLine(t, t, t) : t \in Texts}
        \union {DetailLine(layout, t) : t \in Texts} \union {HintLine(t) : t \in Texts}

\* A section's title, and the rule under it.
Budget == Max({0, width - 1})
SectionRows == {<<t>> : t \in Texts} \union {<<Narrow(Budget)>>}

-----------------------------------------------------------------------------

TypeOK == /\ width \in Widths
          /\ meter \in Limits \union Windows
          /\ used \in Shares
          /\ left \in Waits \union {None}

Wire == Waits \union {None, Garbage}

Init == /\ width \in Widths
        /\ meter \in Limits \union Windows
        /\ used = 0
        /\ left \in {ParseReset(t) : t \in Wire}

Resize(w) == width' = w /\ UNCHANGED <<meter, used, left>>

\* The view is drawn again later: one clock reading for colour and countdown.
Wait(t) == /\ left # None /\ t < left
           /\ left' = t
           /\ UNCHANGED <<width, meter, used>>

\* The next fetch reports more used of the same window ...
Spend(share) == /\ share > used
                /\ used' = share
                /\ UNCHANGED <<width, meter, left>>

\* ... or a window that started again or was refilled, or whose reset time cannot
\* be read.
Renew(wire) == /\ used' = 0
               /\ left' = ParseReset(wire)
               /\ UNCHANGED <<width, meter>>

Next == \/ \E w \in Widths : Resize(w)
        \/ \E t \in Waits : Wait(t)
        \/ \E share \in Shares : Spend(share)
        \/ \E t \in Wire : Renew(t)

Spec == Init /\ [][Next]_vars

-----------------------------------------------------------------------------
(* Properties.                                                             *)

\* No row, its selection marker included, reaches the last column, where many
\* terminals would wrap it; from the narrowest tier on nothing of a meter is cut,
\* but behind a percentage that is too long for its column; and its columns begin
\* where those of every other meter begin, wide glyphs or not.
NarrowestWhole == 27

RowsKeepTheirColumns ==
    LET layout == PlanLayout(AccountWidth)
        row    == MeterRow(layout)
        stops  == LineStops(row, AccountWidth - 1)
    IN  /\ \A r \in AccountRows : Gutter + LineCells(r, AccountWidth - 1) <= Budget
        /\ \A r \in SectionRows : LineCells(r, Budget) <= Budget
        /\ AccountWidth >= NarrowestWhole =>
              /\ \A i \in DOMAIN row :
                    i <= 6 \/ NumberCells(used) = 3 => stops[i] = stops[i - 1] + Cells(row[i])
              /\ stops[3] = Indent + layout.label + Gap
              /\ stops[6] = stops[3] + layout.bar + Gap

\* Widening the terminal never costs a meter a cell of its label or its reset
\* time, and costs its bar some only to give one of those more.
WiderShowsNoLess ==
    [][LET before == PlanLayout(width)  after == PlanLayout(width')
       IN  width' > width =>
              /\ after.label >= before.label
              /\ after.reset >= before.reset
              /\ after.bar < before.bar => after.label + after.reset > before.label + before.reset]_vars

\* Spending more never makes a meter look better: neither its bar nor its colour,
\* whatever rule decided the colour before and after.  And waiting alone never
\* makes it look worse for as long as its pace can be judged.
ColorFollowsSpending ==
    [][LET period == Period(meter)
           before == MeterColor(used, left, period)
           after  == MeterColor(used', left', period)
       IN  /\ left' = left /\ used' >= used =>
                 /\ after >= before
                 /\ \A bar \in 8..BarMax : Filled(used', bar) >= Filled(used, bar)
           /\ used' = used /\ left # None /\ left' # None
              /\ left' <= left /\ Judged(left, period) /\ Judged(left', period)
              => after <= before]_vars

=============================================================================
