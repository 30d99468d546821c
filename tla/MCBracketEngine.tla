---------------------------- MODULE MCBracketEngine ----------------------------
(***************************************************************************)
(* One bracket at work, on small instances: the legs, the prices and the   *)
(* ways things fail are named here and chosen in each .cfg.                *)
(***************************************************************************)
EXTENDS BracketEngine

FixedStop    == [level |-> 2, trail |-> 0, high |-> 0]
TrailingStop == [level |-> 2, trail |-> 2, high |-> 0]
TargetPrice  == 6

Price(bid) == [last |-> bid, bid |-> bid]
Under  == Price(1)     \* under the stop
Calm   == Price(4)     \* between the legs, and back under the target by more than BackOff
Near   == Price(5)     \* under the target, by no more than BackOff
Above  == Price(7)     \* at the target

HigherStop   == [FixedStop EXCEPT !.level = 3]

OneStop    == {FixedStop}
TwoStops   == {FixedStop, HigherStop}
Trailing   == {TrailingStop}
UpAndCalm  == {Calm, Above}
TwoTapes   == {Under, Calm}
ThreeTapes == {Under, Calm, Above}
AllTapes   == {Under, Calm, Near, Above}
NoTargets  == {0}
WithTarget == {TargetPrice}
=============================================================================
