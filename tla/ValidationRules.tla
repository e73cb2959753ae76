--------------------------- MODULE ValidationRules ---------------------------
(***************************************************************************)
(* validation-service: POST /validations, from the checks of the request    *)
(* over the expense's age and amount to the rules and the final status.     *)
(*                                                                         *)
(* A date is its distance to today, a category one that has limits or not.  *)
(* Time is counted in hours.  Node's date functions read a Date in the       *)
(* system's time zone; toZonedTime moves it by the distance between          *)
(* APP_TIMEZONE and that zone (here `shift`, constant over the year), so     *)
(* that those functions show the wall clock of APP_TIMEZONE.                *)
(***************************************************************************)
EXTENDS Integers, Sequences, FiniteSets

CONSTANTS
    Ages,          \* whole days between the expense's date and today, wall clock
    Hours,         \* hours of the day, wall clock
    Shifts,        \* hours APP_TIMEZONE is ahead of the system's zone
    Amounts,       \* amounts of money
    AgeLimits,     \* limite_antiguedad: [pendiente_dias, rechazado_dias]
    AmountLimits,  \* limites_por_categoria of a category: [aprobado_hasta, pendiente_hasta]
    None

ASSUME RulesAssumption ==
    /\ Ages \subseteq Int
    /\ Hours \subseteq 0 .. 23
    /\ Shifts \subseteq -26 .. 26
    /\ Amounts \subseteq Nat
    /\ AgeLimits \subseteq [pendiente_dias : Nat \ {0}, rechazado_dias : Nat \ {0}]
    /\ AmountLimits \subseteq [aprobado_hasta : Int \union {None},
                               pendiente_hasta : Int \union {None}]
    /\ None \notin Int /\ None \notin AmountLimits

VARIABLES
    shift,         \* the deployment's zones
    gasto,         \* the request: the expense, and the policies sent along
    control,       \* "idle", "rules", "answered" or "refused"
    position,      \* of the rule to evaluate next
    days,          \* ValidationContext.daysSinceExpense
    sugerencias,   \* what each rule evaluated so far suggested
    alerts,        \* the codes of the alerts raised so far
    currentStatus,
    status         \* of the answer

vars == <<shift, gasto, control, position, days, sugerencias, alerts, currentStatus, status>>

-----------------------------------------------------------------------------
Statuses == {"APROBADO", "PENDIENTE", "RECHAZADO"}
STATUS_PRIORITY == [APROBADO |-> 0, PENDIENTE |-> 1, RECHAZADO |-> 2]
Codes == {"LIMITE_ANTIGUEDAD", "LIMITE_CATEGORIA", "POLITICA_CENTRO_COSTO", "CONFIG_CATEGORIA"}

\* The order in which the module registers the rules.
VALIDATION_RULES == <<"ExpenseAgeRule", "CategoryLimitRule", "CostCenterRule">>

\* monto_base is optional; limits is what the policies say of the expense's
\* category, prohibida whether they forbid it to the expense's cost center.
Requests == [age : Ages, hour : Hours,
             monto_original : Amounts, monto_base : Amounts \union {None},
             same_currency : BOOLEAN,
             limite_antiguedad : AgeLimits,
             limits : AmountLimits \union {None},
             prohibida : BOOLEAN]

\* ExpenseDto: amounts are positive.  The limits inside limites_por_categoria
\* are not validated (one that is missing or no number is None), and no rule of
\* the DTOs relates one limit to another.
WellFormed(g) == g.monto_original > 0 /\ (g.monto_base # None => g.monto_base > 0)

HasBaseAmount(g) == g.monto_base # None \/ g.same_currency

convertAmountToBase(g) == IF g.monto_base # None THEN g.monto_base ELSE g.monto_original

-----------------------------------------------------------------------------
(* ValidationContext *)

\* (mutant) The distance is rounded up to whole days.
DaysRoundedUp(g, s) ==
    LET hours == 24 * g.age + g.hour + s
        diff == (hours + 23) \div 24
    IN  IF diff > 0 THEN diff ELSE 0

\* (mutant) A date ahead of today has a negative age.
DaysUnclamped(g, s) == (24 * g.age + g.hour + s) \div 24

\* calculateDaysSinceExpense.  `now` comes from getZonedNow, which has moved it to
\* the wall clock already, and is moved again: the calendar day is that of the
\* wall clock plus another shift.
daysSinceExpense(g, s) ==
    LET diffDays == (24 * g.age + g.hour + s) \div 24
    IN  IF diffDays > 0 THEN diffDays ELSE 0

\* (mutant) The last rule decides.
PromoteToLast(current, suggested) == suggested

promoteStatus(current, suggested) ==
    IF STATUS_PRIORITY[suggested] > STATUS_PRIORITY[current] THEN suggested ELSE current

getFinalStatus == IF sugerencias = <<>> THEN "PENDIENTE" ELSE currentStatus

-----------------------------------------------------------------------------
(* The rules: the status each suggests, and the alert that goes with it *)

Verdict(estado, alerta) == [estado |-> estado, alerta |-> alerta]

\* (mutant) The two thresholds are taken for each other's.
AgeThresholdsSwapped(g, d) ==
    LET limite == g.limite_antiguedad IN
    IF d < limite.pendiente_dias THEN Verdict("APROBADO", {})
    ELSE IF d < limite.rechazado_dias THEN Verdict("RECHAZADO", {"LIMITE_ANTIGUEDAD"})
    ELSE Verdict("PENDIENTE", {"LIMITE_ANTIGUEDAD"})

ExpenseAgeRule(g, d) ==
    LET limite == g.limite_antiguedad IN
    IF d < limite.pendiente_dias THEN Verdict("APROBADO", {})
    ELSE IF d < limite.rechazado_dias THEN Verdict("PENDIENTE", {"LIMITE_ANTIGUEDAD"})
    ELSE Verdict("RECHAZADO", {"LIMITE_ANTIGUEDAD"})

\* monto <= limite: no amount is within a limit that is not a number.
Within(monto, limite) == limite # None /\ monto <= limite

CategoryLimitRule(g) ==
    LET monto == convertAmountToBase(g) IN
    IF g.limits = None THEN Verdict("APROBADO", {"CONFIG_CATEGORIA"})
    ELSE IF Within(monto, g.limits.aprobado_hasta) THEN Verdict("APROBADO", {})
    ELSE IF Within(monto, g.limits.pendiente_hasta) THEN Verdict("PENDIENTE", {"LIMITE_CATEGORIA"})
    ELSE Verdict("RECHAZADO", {"LIMITE_CATEGORIA"})

CostCenterRule(g) ==
    IF g.prohibida THEN Verdict("RECHAZADO", {"POLITICA_CENTRO_COSTO"})
    ELSE Verdict("APROBADO", {})

evaluate(rule, g, d) ==
    CASE rule = "ExpenseAgeRule" -> ExpenseAgeRule(g, d)
      [] rule = "CategoryLimitRule" -> CategoryLimitRule(g)
      [] rule = "CostCenterRule" -> CostCenterRule(g)

-----------------------------------------------------------------------------
Init ==
    /\ shift \in Shifts
    /\ gasto = None
    /\ control = "idle"
    /\ position = 1
    /\ days = 0
    /\ sugerencias = <<>>
    /\ alerts = {}
    /\ currentStatus = "APROBADO"
    /\ status = None

\* The pipe validates the body; validateExpense builds the context.
Receive(g) ==
    /\ control = "idle"
    /\ gasto' = g
    /\ \/ /\ WellFormed(g) /\ HasBaseAmount(g)
          /\ control' = "rules"
          /\ days' = daysSinceExpense(g, shift)
       \/ /\ ~(WellFormed(g) /\ HasBaseAmount(g))
          /\ control' = "refused"
          /\ UNCHANGED days
    /\ UNCHANGED <<shift, position, sugerencias, alerts, currentStatus, status>>

\* A request none of whose parts matters: its date is no date, it brings no policies
\* and DEFAULT_POLICIES is missing or broken, or its policies lack a part the rules
\* read.  The exception is the answer, whatever the rules had suggested by then.
Refuse ==
    /\ control = "idle"
    /\ control' = "refused"
    /\ UNCHANGED <<shift, gasto, position, days, sugerencias, alerts, currentStatus, status>>

\* One rule: addSuggestion, with its alert.
Evaluate ==
    /\ control = "rules"
    /\ position <= Len(VALIDATION_RULES)
    /\ LET verdict == evaluate(VALIDATION_RULES[position], gasto, days) IN
       /\ sugerencias' = Append(sugerencias, verdict.estado)
       /\ alerts' = alerts \union verdict.alerta
       /\ currentStatus' = promoteStatus(currentStatus, verdict.estado)
    /\ position' = position + 1
    /\ UNCHANGED <<shift, gasto, control, days, status>>

\* toResult.
Answer ==
    /\ control = "rules"
    /\ position > Len(VALIDATION_RULES)
    /\ status' = getFinalStatus
    /\ control' = "answered"
    /\ UNCHANGED <<shift, gasto, position, days, sugerencias, alerts, currentStatus>>

Next ==
    \/ \E g \in Requests : Receive(g)
    \/ Refuse
    \/ Evaluate
    \/ Answer

Spec == Init /\ [][Next]_vars

-----------------------------------------------------------------------------
TypeOK ==
    /\ shift \in Shifts
    /\ gasto \in Requests \/ gasto = None
    /\ control \in {"idle", "rules", "answered", "refused"}
    /\ position \in 1 .. Len(VALIDATION_RULES) + 1
    /\ days \in Nat
    /\ sugerencias \in Seq(Statuses)
    /\ alerts \subseteq Codes
    /\ currentStatus \in Statuses
    /\ status \in Statuses \union {None}

Larger(a, b) == IF a > b THEN a ELSE b

\* What the policies mean by the titles of the tests, whatever the order of the rules and of the thresholds:
\* an expense is rejected when its age exceeds the larger threshold, when its amount
\* is within neither limit, or for its cost center; short of that it is pending as
\* soon as it exceeds the first.
RejectedBy(g, d) ==
    \/ g.prohibida
    \/ d > Larger(g.limite_antiguedad.pendiente_dias, g.limite_antiguedad.rechazado_dias)
    \/ /\ g.limits # None
       /\ ~Within(convertAmountToBase(g), g.limits.aprobado_hasta)
       /\ ~Within(convertAmountToBase(g), g.limits.pendiente_hasta)

QuestionedBy(g, d) ==
    \/ RejectedBy(g, d)
    \/ d > g.limite_antiguedad.pendiente_dias
    \/ g.limits # None /\ ~Within(convertAmountToBase(g), g.limits.aprobado_hasta)

Meant(g, d) ==
    IF RejectedBy(g, d) THEN "RECHAZADO"
    ELSE IF QuestionedBy(g, d) THEN "PENDIENTE"
    ELSE "APROBADO"

\* The days on which an age is exactly a threshold.  Here the documents disagree: the
\* titles of validation.service.spec.ts:141, 155 and 172 ("<= 30", "30 < d <= 60",
\* "> 60") and the alerts ("excede los 30 días") want the age to exceed it, the README
\* of validation-service (102, "<30 días" is approved) and the rule do not.
ThresholdDays(g) == {g.limite_antiguedad.pendiente_dias, g.limite_antiguedad.rechazado_dias}

\* The status of an answer is the one the policies mean (validation-service's
\* README.md:23, "El estado final adopta la prioridad más alta observada"), as the
\* titles of the tests read them; on a threshold's own day, and on no other, the
\* next day's status will do, which is how the code departs from the tests.
StatusIsDecided ==
    control = "answered" =>
        \/ status = Meant(gasto, days)
        \/ days \in ThresholdDays(gasto) /\ status = Meant(gasto, days + 1)

\* A person who looks at an expense that is not approved finds the reason, and an
\* approved one carries nothing but the note on a category without limits.
AlertsExplainStatus ==
    control = "answered" =>
        (status # "APROBADO" <=> alerts \ {"CONFIG_CATEGORIA"} # {})

\* The worst suggestion of all rules.
Judgement(g, d) ==
    LET estados == {evaluate(VALIDATION_RULES[i], g, d).estado : i \in DOMAIN VALIDATION_RULES}
    IN  CHOOSE e \in estados : \A f \in estados : STATUS_PRIORITY[f] <= STATUS_PRIORITY[e]

\* An older or a dearer expense, all else equal, is never judged milder, even by
\* policies whose thresholds are not in order, which nothing refuses.
NeverMilder ==
    control = "answered" =>
        \A age \in Ages, monto \in Amounts :
            LET other == [gasto EXCEPT !.age = age, !.monto_base = monto] IN
            (age >= gasto.age /\ monto >= convertAmountToBase(gasto)) =>
                STATUS_PRIORITY[Judgement(other, daysSinceExpense(other, shift))]
                    >= STATUS_PRIORITY[status]

\* The age the rules see is at most one day off the calendar's (in zones that are
\* no more than a day apart), and only by the zones: in a deployment whose system
\* zone is APP_TIMEZONE it is exact.
AgeIsAtMostADayOff ==
    control = "answered" =>
        LET calendar == Larger(0, gasto.age) IN
        /\ shift \in -24 .. 24 => days \in calendar - 1 .. calendar + 1
        /\ shift = 0 => days = calendar

\* validation-service's README.md:84: APP_TIMEZONE is what the age is computed in.
AgeIsInAppTimezone == control = "answered" => days = Larger(0, gasto.age)
=============================================================================
