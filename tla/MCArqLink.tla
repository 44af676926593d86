----------------------------- MODULE MCArqLink -----------------------------
(* Small instances of ArqLink for TLC. *)
EXTENDS ArqLink

NoOne == {}
JustA == {"A"}
Both == {"A", "B"}

Lens1 == {1}
Lens2 == {2}
Lens3 == {3}
Lens12 == {1, 2}
Lens123 == {1, 2, 3}

Ticks == {0, 1}

LossyDataSkewed == {"lose_data", "skewed_clocks"}
LossyDataSlowReader == {"lose_data", "slow_reader", "skewed_clocks"}
LossyLast == {"lose_last"}
LossyAcks == {"lose_acks"}
Noisy == {"lose_data", "lose_acks", "corrupt"}
SendsBehind == {"send_behind"}
=============================================================================
