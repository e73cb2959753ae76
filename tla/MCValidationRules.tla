-------------------------- MODULE MCValidationRules --------------------------
(* Expenses around every threshold; policies in order, out of order, broken.  *)
EXTENDS ValidationRules

MCAges == -1 .. 3
MCShifts == {-4, 0, 9}

MCAgeLimits == {[pendiente_dias |-> 3 - r, rechazado_dias |-> r] : r \in 1 .. 2}
MCAmountLimits == {[aprobado_hasta |-> 3 - p, pendiente_hasta |-> p] : p \in 1 .. 2}
                  \union {[aprobado_hasta |-> None, pendiente_hasta |-> 1]}

\* America/Santiago on a system in UTC, one zone for both, and policies in order.
MCSantiago == {-4}
MCOneAgeLimit == {[pendiente_dias |-> 1, rechazado_dias |-> 2]}
MCOneAmountLimit == {[aprobado_hasta |-> 1, pendiente_hasta |-> 2]}
=============================================================================
