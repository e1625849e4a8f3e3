----------------------------- MODULE DemandShape -----------------------------
(***************************************************************************)
(* The synthetic demand of a scenario: the marginals of day and night, the *)
(* transitions between them and between summer and winter, what of it is   *)
(* accepted, and which demand a period can then have (demand_generator.py, *)
(* demand.py).                                                             *)
(*                                                                         *)
(* Times are half hours, since the code looks at the centre of each hour.  *)
(* Weights are fractions of Unit.  The sine of a transition is a constant: *)
(* all that matters is that it rises and is the same up and down.  A draw  *)
(* from a marginal is any value between its bounds.                        *)
(***************************************************************************)
EXTENDS Integers, FiniteSetsExt, Functions

CONSTANTS
    HOURS_PER_DAY, MAX_RAMP_HOURS, MAX_SEASON_TRANSITION_DAYS, MAX_SUMMER_END_PERIOD,
    Unit,
    Rounding,    \* quanta of one rounded demand (DEMAND_DECIMALS)
    Sine(_, _)   \* of the distance from the middle and the width of a transition

ASSUME ShapeAssumption ==
    /\ HOURS_PER_DAY \in Nat \ {0} /\ MAX_RAMP_HOURS \in Nat /\ Unit \in Nat \ {0}
    /\ MAX_SEASON_TRANSITION_DAYS \in Nat /\ MAX_SUMMER_END_PERIOD \in Nat
    /\ Rounding \in Nat \ {0}
    /\ \A width \in 1 .. Max({MAX_RAMP_HOURS, HOURS_PER_DAY * MAX_SEASON_TRANSITION_DAYS}) :
       \A x \in 1 - width .. width - 1 :
          /\ Sine(x, width) \in Nat /\ Sine(x, width) + Sine(-x, width) = Unit
          /\ Sine(x, width) > (IF x = 1 - width THEN 0 ELSE Sine(x - 1, width))

Hours == 0 .. HOURS_PER_DAY - 1

-----------------------------------------------------------------------------
(* What is accepted.                                                       *)

(* The mean is an argument of the normal distributions only.               *)
ValidSegment(s) ==
    /\ s.min > 0 /\ s.max > s.min
    /\ s.distribution # "UNIFORM" => s.min < s.mean /\ s.mean < s.max

day_hours(s) == s.day_end_hour - s.day_start_hour
night_hours(s) == HOURS_PER_DAY - day_hours(s)

ValidHours(s) ==
    /\ s.day_start_hour \in Hours
    /\ s.day_end_hour \in 1 .. HOURS_PER_DAY
    /\ day_hours(s) \in 1 .. HOURS_PER_DAY - 1
    /\ {s.morning_ramp_hours, s.evening_ramp_hours} \subseteq 0 .. MAX_RAMP_HOURS

(* Mutant of TransitionsFit: the longer of day and night is looked at.     *)
TransitionsFitLoose(s) ==
    s.morning_ramp_hours + s.evening_ramp_hours <= 2 * Max({day_hours(s), night_hours(s)})

TransitionsFit(s) ==
    s.morning_ramp_hours + s.evening_ramp_hours <= 2 * Min({day_hours(s), night_hours(s)})

ValidShape(s) ==
    ValidHours(s) /\ TransitionsFit(s) /\ ValidSegment(s.day) /\ ValidSegment(s.night)

ValidSeasons(z) ==
    /\ z.summer_end_period \in 1 .. MAX_SUMMER_END_PERIOD
    /\ z.transition_days \in 0 .. MAX_SEASON_TRANSITION_DAYS
    /\ HOURS_PER_DAY * z.transition_days <= 2 * z.summer_end_period

(* A profile without seasons has none of the season fields.                *)
Seasonal(p) == "seasons" \in DOMAIN p

ValidProfile(p) ==
    /\ ValidShape(p.summer)
    /\ Seasonal(p) => ValidSeasons(p.seasons) /\ ValidShape(p.seasons.winter)

-----------------------------------------------------------------------------
(* Weights.                                                                *)

ramp(x, width) ==
    IF x <= -width THEN 0 ELSE IF x >= width THEN Unit ELSE Sine(x, width)

InDay(s, hour) == s.day_start_hour <= hour /\ hour < s.day_end_hour

day_weight(s, hour) ==
    LET centre == 2 * hour + 1
        day    == 2 * HOURS_PER_DAY
    IN  IF InDay(s, hour)
        THEN Min({ramp(centre - 2 * s.day_start_hour, s.morning_ramp_hours),
                  ramp(2 * s.day_end_hour - centre, s.evening_ramp_hours)})
        ELSE Max({ramp(-((2 * s.day_start_hour - centre) % day), s.morning_ramp_hours),
                  ramp(-((centre - 2 * s.day_end_hour) % day), s.evening_ramp_hours)})

HourOf(t) == (t - 1) % HOURS_PER_DAY

winter_weight(z, t) ==
    ramp(2 * t - 1 - 2 * z.summer_end_period, HOURS_PER_DAY * z.transition_days)

(* The weight of each segment in period t, over Unit * Unit.               *)
weights(p, t) ==
    LET halves(s, w) == [night |-> w * (Unit - day_weight(s, HourOf(t))),
                         day   |-> w * day_weight(s, HourOf(t))]
        v == IF Seasonal(p) THEN winter_weight(p.seasons, t) ELSE 0
    IN  [season \in IF Seasonal(p) THEN {"summer", "winter"} ELSE {"summer"} |->
            IF season = "summer" THEN halves(p.summer, Unit - v)
                                 ELSE halves(p.seasons.winter, v)]

night_mask(p, t) ==
    IF Seasonal(p) /\ 2 * winter_weight(p.seasons, t) >= Unit
    THEN ~ InDay(p.seasons.winter, HourOf(t))
    ELSE ~ InDay(p.summer, HourOf(t))

-----------------------------------------------------------------------------
(* Demand.                                                                 *)

Segment(p, season, half) ==
    IF season = "summer" THEN p.summer[half] ELSE p.seasons.winter[half]

Active(p, t) ==
    {i \in {<<season, half>> : season \in DOMAIN weights(p, t), half \in {"night", "day"}} :
        weights(p, t)[i[1]][i[2]] > 0}

Draws(p, t) ==
    {q \in [Active(p, t) -> 1 .. Max({Segment(p, i[1], i[2]).max : i \in Active(p, t)})] :
        \A i \in Active(p, t) :
            q[i] \in Segment(p, i[1], i[2]).min .. Segment(p, i[1], i[2]).max}

(* Sums of weighted values are over Unit * Unit, as the weights are.       *)
Mixed(p, t, value) ==
    SumFunction([i \in DOMAIN value |-> weights(p, t)[i[1]][i[2]] * value[i]])

Rounded(x) ==
    LET one == Rounding * Unit * Unit IN ((2 * x + one) \div (2 * one)) * one

PeriodDemand(p, t, draw) ==
    LET low  == [i \in DOMAIN draw |-> Segment(p, i[1], i[2]).min]
        high == [i \in DOMAIN draw |-> Segment(p, i[1], i[2]).max]
    IN  Min({Max({Rounded(Mixed(p, t, draw)), Mixed(p, t, low)}), Mixed(p, t, high)})

(* validate_horizon: a run refuses a series that is not positive.          *)
Usable(x) == x > 0
=============================================================================
