------------------------------ MODULE MCBreaker ------------------------------
(* Two settings of one product line: a window of three, and one that leaves *)
(* everything but the sample floor to the defaults.                         *)
EXTENDS Breaker

CONSTANT shop

Cfg(rate, min, window) ==
  [disabled |-> FALSE, rate |-> rate, min |-> min, window |-> window, cooldown |-> 2]
SmallDefault == [Cfg(50, 2, 4) EXCEPT !.cooldown = 1]
TwoConfigs == {Cfg(60, 2, 3), [disabled |-> FALSE, rate |-> 0, min |-> 2, window |-> 0, cooldown |-> 0]}
==============================================================================
