------------------------ MODULE ValidationRulesProofs ------------------------
(***************************************************************************)
(* What a validation answers, for all policies, amounts, dates and zones.  *)
(***************************************************************************)
EXTENDS ValidationRules, TLAPS

USE DEF Statuses, Codes

-----------------------------------------------------------------------------
(* The operators *)

\* A rule's verdict reaches the status only through the worse of the two.
LEMMA PromoteTakesTheWorse ==
    ASSUME NEW a \in Statuses, NEW b \in Statuses
    PROVE  /\ promoteStatus(a, b) \in Statuses
           /\ promoteStatus(a, b) = "RECHAZADO" <=> a = "RECHAZADO" \/ b = "RECHAZADO"
           /\ promoteStatus(a, b) = "APROBADO" <=> a = "APROBADO" /\ b = "APROBADO"
BY DEF promoteStatus, STATUS_PRIORITY

\* The fields of a request, and the constants they come from, are what they seem.
LEMMA RequestFields ==
    ASSUME NEW g \in Requests
    PROVE  /\ g.age \in Int /\ g.hour \in 0 .. 23
           /\ g.monto_original \in Nat
           /\ g.monto_base # None => g.monto_base \in Nat
           /\ g.limite_antiguedad.pendiente_dias \in Nat \ {0}
           /\ g.limite_antiguedad.rechazado_dias \in Nat \ {0}
           /\ g.limits # None => /\ g.limits.aprobado_hasta \in Int \union {None}
                                 /\ g.limits.pendiente_hasta \in Int \union {None}
           /\ g.prohibida \in BOOLEAN
<1>1. /\ g.age \in Ages /\ g.hour \in Hours
      /\ g.monto_original \in Amounts
      /\ g.monto_base \in Amounts \union {None}
      /\ g.limite_antiguedad \in AgeLimits
      /\ g.limits \in AmountLimits \union {None}
      /\ g.prohibida \in BOOLEAN
  BY DEF Requests
<1>. QED  BY <1>1, RulesAssumption

\* An instant lies within the day its whole number of days names.
LEMMA WholeDays ==
    ASSUME NEW n \in Int
    PROVE  n \div 24 \in Int /\ 24 * (n \div 24) <= n /\ n < 24 * (n \div 24) + 24
OBVIOUS

LEMMA ShiftIsInt == \A s \in Shifts : s \in -26 .. 26
BY RulesAssumption

\* The age the rules see is a natural number.
LEMMA AgeIsNat ==
    ASSUME NEW g \in Requests, NEW s \in Shifts
    PROVE  daysSinceExpense(g, s) \in Nat
<1>1. 24 * g.age + g.hour + s \in Int
  BY RequestFields, ShiftIsInt
<1>. QED  BY <1>1 DEF daysSinceExpense

\* The amount the rules see is a natural number.
LEMMA AmountIsNat ==
    ASSUME NEW g \in Requests
    PROVE  convertAmountToBase(g) \in Nat
BY RequestFields DEF convertAmountToBase

\* What the age rule says of an expense d days old.
LEMMA AgeVerdict ==
    ASSUME NEW g \in Requests, NEW d \in Nat
    PROVE  LET v == ExpenseAgeRule(g, d)
               l == g.limite_antiguedad
           IN  /\ v.estado \in Statuses
               /\ v.estado = "RECHAZADO" <=> d >= Larger(l.pendiente_dias, l.rechazado_dias)
               /\ v.estado = "APROBADO" <=> d < l.pendiente_dias
               /\ v.alerta = IF v.estado = "APROBADO" THEN {} ELSE {"LIMITE_ANTIGUEDAD"}
<1>. DEFINE p == g.limite_antiguedad.pendiente_dias
            r == g.limite_antiguedad.rechazado_dias
<1>1. p \in Int /\ r \in Int
  BY RequestFields
<1>2. CASE d < p
  BY <1>1, <1>2 DEF ExpenseAgeRule, Verdict, Larger
<1>3. CASE d >= p /\ d < r
  BY <1>1, <1>3 DEF ExpenseAgeRule, Verdict, Larger
<1>4. CASE d >= p /\ d >= r
  BY <1>1, <1>4 DEF ExpenseAgeRule, Verdict, Larger
<1>. QED  BY <1>1, <1>2, <1>3, <1>4

\* What the category rule says; without limits it lets the expense pass, with a note.
LEMMA CategoryVerdict ==
    ASSUME NEW g \in Requests
    PROVE  LET v == CategoryLimitRule(g)
               m == convertAmountToBase(g)
               l == g.limits
           IN  /\ v.estado \in Statuses
               /\ v.estado = "RECHAZADO" <=> /\ l # None
                                             /\ ~Within(m, l.aprobado_hasta)
                                             /\ ~Within(m, l.pendiente_hasta)
               /\ v.estado = "APROBADO" <=> l = None \/ Within(m, l.aprobado_hasta)
               /\ v.estado # "APROBADO" => v.alerta = {"LIMITE_CATEGORIA"}
               /\ v.estado = "APROBADO" => v.alerta \subseteq {"CONFIG_CATEGORIA"}
BY DEF CategoryLimitRule, Verdict

\* What the cost center rule says.
LEMMA CostCenterVerdict ==
    ASSUME NEW g \in Requests
    PROVE  LET v == CostCenterRule(g)
           IN  /\ v.estado = IF g.prohibida THEN "RECHAZADO" ELSE "APROBADO"
               /\ v.alerta = IF g.prohibida THEN {"POLITICA_CENTRO_COSTO"} ELSE {}
BY DEF CostCenterRule, Verdict

-----------------------------------------------------------------------------
(* The context while the rules run *)

\* What the first n rules have made of an expense: the status they leave.
AgeOf == ExpenseAgeRule(gasto, days)
CategoryOf == CategoryLimitRule(gasto)
CenterOf == CostCenterRule(gasto)

StatusAfter1 == promoteStatus("APROBADO", AgeOf.estado)
StatusAfter2 == promoteStatus(StatusAfter1, CategoryOf.estado)
StatusAfter3 == promoteStatus(StatusAfter2, CenterOf.estado)

\* Nothing has been suggested before the first rule; afterwards the context holds
\* the worst suggestion, and the alerts, of the rules that precede `position`.
ContextFollowsRules ==
    /\ position = 1 => currentStatus = "APROBADO" /\ alerts = {} /\ sugerencias = <<>>
    /\ position > 1 => sugerencias # <<>>
    /\ position = 2 => currentStatus = StatusAfter1 /\ alerts = AgeOf.alerta
    /\ position = 3 => /\ currentStatus = StatusAfter2
                       /\ alerts = AgeOf.alerta \union CategoryOf.alerta
    /\ position = 4 => /\ currentStatus = StatusAfter3
                       /\ alerts = AgeOf.alerta \union CategoryOf.alerta \union CenterOf.alerta

Types ==
    /\ shift \in Shifts
    /\ control \in {"idle", "rules", "answered", "refused"}
    /\ control = "idle" => position = 1
    /\ control = "answered" => position = 4 /\ status = currentStatus
    /\ control \in {"rules", "answered"} =>
          gasto \in Requests /\ days = daysSinceExpense(gasto, shift)
    /\ ContextFollowsRules

\* The inductive invariant.
IInv == TypeOK /\ Types

LEMMA ThreeRules ==
    /\ Len(VALIDATION_RULES) = 3
    /\ VALIDATION_RULES[1] = "ExpenseAgeRule"
    /\ VALIDATION_RULES[2] = "CategoryLimitRule"
    /\ VALIDATION_RULES[3] = "CostCenterRule"
BY DEF VALIDATION_RULES

LEMMA EvaluateRules ==
    ASSUME NEW g, NEW d
    PROVE  /\ evaluate("ExpenseAgeRule", g, d) = ExpenseAgeRule(g, d)
           /\ evaluate("CategoryLimitRule", g, d) = CategoryLimitRule(g)
           /\ evaluate("CostCenterRule", g, d) = CostCenterRule(g)
BY DEF evaluate

\* A verdict is a status with alerts out of the known codes.
LEMMA VerdictTypes ==
    ASSUME NEW g \in Requests, NEW d \in Nat,
           NEW i \in 1 .. 3
    PROVE  LET v == evaluate(VALIDATION_RULES[i], g, d)
           IN  v.estado \in Statuses /\ v.alerta \subseteq Codes
<1>1. CASE i = 1
  BY <1>1, ThreeRules, EvaluateRules, AgeVerdict
<1>2. CASE i = 2
  BY <1>2, ThreeRules, EvaluateRules, CategoryVerdict
<1>3. CASE i = 3
  BY <1>3, ThreeRules, EvaluateRules, CostCenterVerdict
<1>. QED  BY <1>1, <1>2, <1>3

LEMMA InitEstablishes == Init => IInv
BY ThreeRules DEF Init, IInv, Types, TypeOK, ContextFollowsRules

LEMMA NextPreserves == IInv /\ [Next]_vars => IInv'
<1>. SUFFICES ASSUME IInv, [Next]_vars
              PROVE  IInv'
  OBVIOUS
<1>1. ASSUME NEW g \in Requests, Receive(g)
      PROVE  IInv'
  <2>1. days' \in Nat
    BY <1>1, AgeIsNat DEF IInv, Types, TypeOK, Receive
  <2>2. TypeOK'
    BY <1>1, <2>1 DEF IInv, TypeOK, Receive
  <2>3. position = 1 /\ position' = 1
    BY <1>1 DEF IInv, Types, Receive
  <2>4. ContextFollowsRules'
    BY <1>1, <2>3 DEF IInv, Types, ContextFollowsRules, Receive
  <2>5. control' # "idle" /\ control' # "answered"
    BY <1>1 DEF Receive
  <2>6. control' = "rules" => gasto' \in Requests /\ days' = daysSinceExpense(gasto', shift')
    BY <1>1 DEF Receive
  <2>. QED  BY <2>2, <2>4, <2>5, <2>6 DEF IInv, Types, TypeOK
<1>2. CASE Evaluate
  <2>. DEFINE verdict == evaluate(VALIDATION_RULES[position], gasto, days)
  <2>1. position \in 1 .. 3 /\ control = "rules" /\ gasto \in Requests /\ days \in Nat
    BY <1>2, ThreeRules DEF IInv, Types, TypeOK, Evaluate
  <2>2. verdict.estado \in Statuses /\ verdict.alerta \subseteq Codes
    BY <2>1, VerdictTypes
  <2>3. /\ sugerencias' = Append(sugerencias, verdict.estado)
        /\ alerts' = alerts \union verdict.alerta
        /\ currentStatus' = promoteStatus(currentStatus, verdict.estado)
        /\ position' = position + 1
        /\ UNCHANGED <<shift, gasto, control, days, status>>
    BY <1>2 DEF Evaluate
  <2>. HIDE DEF verdict
  <2>4. TypeOK'
    <3>1. currentStatus' \in Statuses
      BY <2>2, <2>3, PromoteTakesTheWorse DEF IInv, TypeOK
    <3>2. sugerencias' \in Seq(Statuses)
      BY <2>2, <2>3 DEF IInv, TypeOK
    <3>3. position' \in 1 .. Len(VALIDATION_RULES) + 1
      BY <2>1, <2>3, ThreeRules
    <3>4. alerts' \subseteq Codes
      BY <2>2, <2>3 DEF IInv, TypeOK
    <3>5. /\ shift' \in Shifts
          /\ gasto' \in Requests \/ gasto' = None
          /\ control' \in {"idle", "rules", "answered", "refused"}
          /\ days' \in Nat
          /\ status' \in Statuses \union {None}
      BY <2>3 DEF IInv, TypeOK
    <3>. QED  BY <3>1, <3>2, <3>3, <3>4, <3>5 DEF TypeOK
  <2>5. sugerencias' # <<>>
    BY <2>2, <2>3 DEF IInv, TypeOK
  <2>6. AgeOf' = AgeOf /\ CategoryOf' = CategoryOf /\ CenterOf' = CenterOf
    BY <2>3 DEF AgeOf, CategoryOf, CenterOf
  <2>7. CASE position = 1
    <3>1. verdict = AgeOf
      BY <2>7, ThreeRules, EvaluateRules DEF verdict, AgeOf
    <3>2. currentStatus' = StatusAfter1' /\ alerts' = AgeOf'.alerta
      BY <2>3, <2>6, <2>7, <3>1 DEF IInv, Types, ContextFollowsRules, StatusAfter1
    <3>3. ContextFollowsRules'
      BY <2>3, <2>5, <2>7, <3>2 DEF ContextFollowsRules
    <3>. QED  BY <2>1, <2>3, <2>4, <3>3 DEF IInv, Types
  <2>8. CASE position = 2
    <3>1. verdict = CategoryOf
      BY <2>8, ThreeRules, EvaluateRules DEF verdict, CategoryOf
    <3>2. /\ currentStatus' = StatusAfter2'
          /\ alerts' = AgeOf'.alerta \union CategoryOf'.alerta
      BY <2>3, <2>6, <2>8, <3>1
      DEF IInv, Types, ContextFollowsRules, StatusAfter1, StatusAfter2
    <3>3. ContextFollowsRules'
      BY <2>3, <2>5, <2>8, <3>2 DEF ContextFollowsRules
    <3>. QED  BY <2>1, <2>3, <2>4, <3>3 DEF IInv, Types
  <2>9. CASE position = 3
    <3>1. verdict = CenterOf
      BY <2>9, ThreeRules, EvaluateRules DEF verdict, CenterOf
    <3>2. /\ currentStatus' = StatusAfter3'
          /\ alerts' = AgeOf'.alerta \union CategoryOf'.alerta \union CenterOf'.alerta
      BY <2>3, <2>6, <2>9, <3>1
      DEF IInv, Types, ContextFollowsRules, StatusAfter1, StatusAfter2, StatusAfter3
    <3>3. ContextFollowsRules'
      BY <2>3, <2>5, <2>9, <3>2 DEF ContextFollowsRules
    <3>. QED  BY <2>1, <2>3, <2>4, <3>3 DEF IInv, Types
  <2>. QED  BY <2>1, <2>7, <2>8, <2>9
<1>3. CASE Refuse
  <2>1. TypeOK'
    BY <1>3 DEF IInv, TypeOK, Refuse
  <2>2. position = 1 /\ control' = "refused"
    BY <1>3 DEF IInv, Types, Refuse
  <2>. QED  BY <1>3, <2>1, <2>2 DEF IInv, Types, TypeOK, ContextFollowsRules, Refuse
<1>4. CASE Answer
  <2>1. position = 4 /\ control = "rules"
    BY <1>4, ThreeRules DEF IInv, TypeOK, Answer
  <2>2. sugerencias # <<>>
    BY <2>1 DEF IInv, Types, ContextFollowsRules
  <2>3. status' = currentStatus /\ control' = "answered"
    BY <1>4, <2>2 DEF Answer, getFinalStatus
  <2>4. ContextFollowsRules'
    BY <1>4 DEF IInv, Types, ContextFollowsRules, Answer, AgeOf, CategoryOf, CenterOf,
                StatusAfter1, StatusAfter2, StatusAfter3
  <2>. QED  BY <1>4, <2>1, <2>3, <2>4 DEF IInv, Types, TypeOK, Answer
<1>5. CASE UNCHANGED vars
  BY <1>5 DEF vars, IInv, Types, TypeOK, ContextFollowsRules, AgeOf, CategoryOf, CenterOf,
              StatusAfter1, StatusAfter2, StatusAfter3
<1>. QED  BY <1>1, <1>2, <1>4, <1>5, <1>3 DEF Next

LEMMA InvariantHolds == Spec => []IInv
BY InitEstablishes, NextPreserves, PTL DEF Spec

-----------------------------------------------------------------------------
(* What the verdicts come to *)

\* The worse of the three verdicts, whichever of them is asked first.
Worst(g, d) ==
    promoteStatus(promoteStatus(promoteStatus("APROBADO", ExpenseAgeRule(g, d).estado),
                                CategoryLimitRule(g).estado),
                  CostCenterRule(g).estado)

\* The age rule counts the day of a threshold as past it: it judges an expense as
\* the policies, read strictly, mean one that is a day older.
LEMMA WorstIsMeant ==
    ASSUME NEW g \in Requests, NEW d \in Nat
    PROVE  /\ Worst(g, d) \in Statuses
           /\ Worst(g, d) = "RECHAZADO" <=> RejectedBy(g, d + 1)
           /\ Worst(g, d) = "APROBADO" <=> ~QuestionedBy(g, d + 1)
<1>. DEFINE a == ExpenseAgeRule(g, d).estado
            b == CategoryLimitRule(g).estado
            c == CostCenterRule(g).estado
            w1 == promoteStatus("APROBADO", a)
            w2 == promoteStatus(w1, b)
            w3 == promoteStatus(w2, c)
            l == g.limite_antiguedad
            q == g.limits
            first == Within(convertAmountToBase(g), q.aprobado_hasta)
            second == Within(convertAmountToBase(g), q.pendiente_hasta)
            old == d >= Larger(l.pendiente_dias, l.rechazado_dias)
<1>1. /\ a \in Statuses
      /\ a = "RECHAZADO" <=> old
      /\ a = "APROBADO" <=> d < l.pendiente_dias
  BY AgeVerdict
<1>2. /\ b \in Statuses
      /\ b = "RECHAZADO" <=> q # None /\ ~first /\ ~second
      /\ b = "APROBADO" <=> q = None \/ first
  BY CategoryVerdict
<1>3. c = IF g.prohibida THEN "RECHAZADO" ELSE "APROBADO"
  BY CostCenterVerdict
<1>4. /\ l.pendiente_dias \in Nat /\ l.rechazado_dias \in Nat
      /\ old <=> d + 1 > Larger(l.pendiente_dias, l.rechazado_dias)
      /\ ~(d < l.pendiente_dias) <=> d + 1 > l.pendiente_dias
      /\ old => ~(d < l.pendiente_dias)
  BY RequestFields DEF Larger
<1>5. /\ RejectedBy(g, d + 1) <=> g.prohibida \/ old \/ (q # None /\ ~first /\ ~second)
      /\ QuestionedBy(g, d + 1) <=> \/ RejectedBy(g, d + 1)
                                    \/ ~(d < l.pendiente_dias)
                                    \/ q # None /\ ~first
  BY <1>4 DEF RejectedBy, QuestionedBy
<1>. HIDE DEF a, b, c, first, second, old
<1>6. w1 = "RECHAZADO" <=> a = "RECHAZADO"
  BY <1>1, PromoteTakesTheWorse
<1>7. w1 \in Statuses /\ (w1 = "APROBADO" <=> a = "APROBADO")
  BY <1>1, PromoteTakesTheWorse
<1>8. /\ w2 \in Statuses
      /\ w2 = "RECHAZADO" <=> w1 = "RECHAZADO" \/ b = "RECHAZADO"
      /\ w2 = "APROBADO" <=> w1 = "APROBADO" /\ b = "APROBADO"
  BY <1>2, <1>7, PromoteTakesTheWorse
<1>9. /\ w3 \in Statuses
      /\ w3 = "RECHAZADO" <=> w2 = "RECHAZADO" \/ c = "RECHAZADO"
      /\ w3 = "APROBADO" <=> w2 = "APROBADO" /\ c = "APROBADO"
  BY <1>3, <1>8, PromoteTakesTheWorse
<1>10. w3 = Worst(g, d)
  BY DEF Worst, a, b, c
<1>. HIDE DEF w1, w2, w3
<1>11. w3 = "RECHAZADO" <=> RejectedBy(g, d + 1)
  BY <1>1, <1>2, <1>3, <1>6, <1>8, <1>9, <1>5
<1>12. w3 = "APROBADO" <=> /\ d < l.pendiente_dias
                           /\ q = None \/ first
                           /\ ~g.prohibida
  BY <1>1, <1>2, <1>3, <1>7, <1>8, <1>9
<1>13. w3 = "APROBADO" <=> ~QuestionedBy(g, d + 1)
  BY <1>4, <1>5, <1>12
<1>. QED  BY <1>9, <1>10, <1>11, <1>13

\* Judgement, which picks the worst of the set of verdicts, is that status.
LEMMA JudgementIsWorst ==
    ASSUME NEW g \in Requests, NEW d \in Nat
    PROVE  Judgement(g, d) = Worst(g, d)
<1>. DEFINE a == ExpenseAgeRule(g, d).estado
            b == CategoryLimitRule(g).estado
            c == CostCenterRule(g).estado
            w1 == promoteStatus("APROBADO", a)
            w2 == promoteStatus(w1, b)
            w3 == promoteStatus(w2, c)
            Worse(e) == \A f \in {a, b, c} : STATUS_PRIORITY[f] <= STATUS_PRIORITY[e]
            estados == {evaluate(VALIDATION_RULES[i], g, d).estado :
                          i \in DOMAIN VALIDATION_RULES}
<1>1. a \in Statuses /\ b \in Statuses /\ c \in Statuses
  BY AgeVerdict, CategoryVerdict, CostCenterVerdict
<1>2. estados = {a, b, c}
  <2>1. DOMAIN VALIDATION_RULES = {1, 2, 3}
    BY DEF VALIDATION_RULES
  <2>2. /\ evaluate(VALIDATION_RULES[1], g, d).estado = a
        /\ evaluate(VALIDATION_RULES[2], g, d).estado = b
        /\ evaluate(VALIDATION_RULES[3], g, d).estado = c
    BY ThreeRules, EvaluateRules
  <2>. HIDE DEF a, b, c
  <2>. QED  BY <2>1, <2>2
<1>3. Judgement(g, d) = CHOOSE e \in {a, b, c} : Worse(e)
  BY <1>2 DEF Judgement
<1>4. w3 = Worst(g, d)
  BY DEF Worst
<1>. HIDE DEF a, b, c
<1>5. w3 \in {a, b, c} /\ Worse(w3)
  BY <1>1 DEF promoteStatus, STATUS_PRIORITY
<1>6. \A e \in {a, b, c} : Worse(e) => e = w3
  BY <1>1, <1>5 DEF STATUS_PRIORITY
<1>7. (CHOOSE e \in {a, b, c} : Worse(e)) = w3
  BY <1>5, <1>6
<1>. QED  BY <1>3, <1>4, <1>7

\* What an answer is, for short.
AnswerIsWorst ==
    control = "answered" =>
        /\ gasto \in Requests /\ days \in Nat
        /\ days = daysSinceExpense(gasto, shift)
        /\ status = Worst(gasto, days)
        /\ alerts = AgeOf.alerta \union CategoryOf.alerta \union CenterOf.alerta

LEMMA AnswersAreWorst == IInv => AnswerIsWorst
BY DEF IInv, Types, TypeOK, ContextFollowsRules, AnswerIsWorst, Worst, AgeOf, CategoryOf,
       CenterOf, StatusAfter1, StatusAfter2, StatusAfter3

-----------------------------------------------------------------------------
(* The theorems *)

\* Every variable keeps its type: the context holds statuses and known codes, and
\* the age the rules see is a natural number.
THEOREM TypesHold == Spec => []TypeOK
<1>1. IInv => TypeOK
  BY DEF IInv
<1>. QED  BY <1>1, InvariantHolds, PTL

\* Whatever the policies, the status of an answer is the one they mean, and of the
\* next day where an age is exactly a threshold: the order of the rules and of the
\* two thresholds of a rule does not matter.
THEOREM StatusIsAlwaysDecided == Spec => []StatusIsDecided
<1>1. AnswerIsWorst => StatusIsDecided
  <2>. SUFFICES ASSUME AnswerIsWorst, control = "answered"
                PROVE  \/ status = Meant(gasto, days)
                       \/ days \in ThresholdDays(gasto) /\ status = Meant(gasto, days + 1)
    BY DEF StatusIsDecided
  <2>1. /\ status \in Statuses
        /\ status = "RECHAZADO" <=> RejectedBy(gasto, days + 1)
        /\ status = "APROBADO" <=> ~QuestionedBy(gasto, days + 1)
    BY WorstIsMeant DEF AnswerIsWorst
  <2>2. RejectedBy(gasto, days + 1) => QuestionedBy(gasto, days + 1)
    BY DEF QuestionedBy
  <2>3. status = Meant(gasto, days + 1)
    BY <2>1, <2>2 DEF Meant
  <2>4. ASSUME days \notin ThresholdDays(gasto)
        PROVE  Meant(gasto, days) = Meant(gasto, days + 1)
    <3>1. /\ days \in Nat
          /\ gasto.limite_antiguedad.pendiente_dias \in Nat
          /\ gasto.limite_antiguedad.rechazado_dias \in Nat
      BY RulesAssumption DEF AnswerIsWorst, Requests
    <3>2. \A n \in ThresholdDays(gasto) : days > n <=> days + 1 > n
      BY <2>4, <3>1 DEF ThresholdDays
    <3>3. Larger(gasto.limite_antiguedad.pendiente_dias, gasto.limite_antiguedad.rechazado_dias)
             \in ThresholdDays(gasto)
      BY <3>1 DEF Larger, ThresholdDays
    <3>4. RejectedBy(gasto, days) <=> RejectedBy(gasto, days + 1)
      BY <3>2, <3>3 DEF RejectedBy
    <3>5. QuestionedBy(gasto, days) <=> QuestionedBy(gasto, days + 1)
      BY <3>2, <3>4 DEF QuestionedBy, ThresholdDays
    <3> QED
      BY <3>4, <3>5 DEF Meant
  <2>. QED  BY <2>3, <2>4
<1>. QED  BY <1>1, AnswersAreWorst, InvariantHolds, PTL

\* An answer is not approved exactly when it carries an alert that says why.
THEOREM AlertsAlwaysExplain == Spec => []AlertsExplainStatus
<1>1. AnswerIsWorst => AlertsExplainStatus
  <2>. SUFFICES ASSUME AnswerIsWorst, control = "answered"
                PROVE  status # "APROBADO" <=> alerts \ {"CONFIG_CATEGORIA"} # {}
    BY DEF AlertsExplainStatus
  <2>1. gasto \in Requests /\ days \in Nat
    BY DEF AnswerIsWorst
  <2>2. alerts = AgeOf.alerta \union CategoryOf.alerta \union CenterOf.alerta
    BY DEF AnswerIsWorst
  <2>3. /\ AgeOf.estado \in Statuses
        /\ AgeOf.alerta = IF AgeOf.estado = "APROBADO" THEN {} ELSE {"LIMITE_ANTIGUEDAD"}
    BY <2>1, AgeVerdict DEF AgeOf
  <2>4. /\ CategoryOf.estado \in Statuses
        /\ CategoryOf.estado # "APROBADO" => CategoryOf.alerta = {"LIMITE_CATEGORIA"}
        /\ CategoryOf.estado = "APROBADO" => CategoryOf.alerta \subseteq {"CONFIG_CATEGORIA"}
    BY <2>1, CategoryVerdict DEF CategoryOf
  <2>5. /\ CenterOf.estado = IF gasto.prohibida THEN "RECHAZADO" ELSE "APROBADO"
        /\ CenterOf.alerta = IF gasto.prohibida THEN {"POLITICA_CENTRO_COSTO"} ELSE {}
    BY <2>1, CostCenterVerdict DEF CenterOf
  <2>6. status = promoteStatus(promoteStatus(promoteStatus("APROBADO", AgeOf.estado),
                                             CategoryOf.estado), CenterOf.estado)
    BY DEF AnswerIsWorst, Worst, AgeOf, CategoryOf, CenterOf
  <2>7. promoteStatus("APROBADO", AgeOf.estado) = "APROBADO" <=> AgeOf.estado = "APROBADO"
    BY <2>3, PromoteTakesTheWorse
  <2>8. status = "APROBADO" <=> /\ AgeOf.estado = "APROBADO"
                                /\ CategoryOf.estado = "APROBADO"
                                /\ CenterOf.estado = "APROBADO"
    BY <2>3, <2>4, <2>5, <2>6, <2>7, PromoteTakesTheWorse
  <2>9. CASE status = "APROBADO"
    BY <2>2, <2>3, <2>4, <2>5, <2>8, <2>9
  <2>10. CASE status # "APROBADO"
    BY <2>2, <2>3, <2>4, <2>5, <2>8, <2>10
  <2>. QED  BY <2>9, <2>10
<1>. QED  BY <1>1, AnswersAreWorst, InvariantHolds, PTL

\* Zones at most a day apart move the age the rules see by one day at most, and a
\* deployment whose system zone is APP_TIMEZONE sees the calendar's.
THEOREM AgeIsAlmostRight == Spec => []AgeIsAtMostADayOff
<1>1. ASSUME NEW g \in Requests, NEW s \in Shifts
      PROVE  /\ s \in -24 .. 24 =>
                  daysSinceExpense(g, s) \in Larger(0, g.age) - 1 .. Larger(0, g.age) + 1
             /\ s = 0 => daysSinceExpense(g, s) = Larger(0, g.age)
  <2>. DEFINE n == 24 * g.age + g.hour + s
              D == n \div 24
  <2>1. g.age \in Int /\ g.hour \in 0 .. 23 /\ s \in -26 .. 26
    BY RequestFields, ShiftIsInt
  <2>2. n \in Int
    BY <2>1
  <2>3. D \in Int /\ 24 * D <= n /\ n < 24 * D + 24
    BY <2>2, WholeDays
  <2>4. daysSinceExpense(g, s) = IF D > 0 THEN D ELSE 0
    BY DEF daysSinceExpense
  <2>. HIDE DEF D
  <2>5. s \in -24 .. 24 => D >= g.age - 1 /\ D <= g.age + 1
    BY <2>1, <2>3
  <2>6. s = 0 => D = g.age
    BY <2>1, <2>3
  <2>7. Larger(0, g.age) = IF g.age > 0 THEN g.age ELSE 0
    BY <2>1 DEF Larger
  <2>. HIDE DEF n
  <2>. QED  BY <2>1, <2>3, <2>4, <2>5, <2>6, <2>7
<1>2. AnswerIsWorst /\ shift \in Shifts => AgeIsAtMostADayOff
  <2>. SUFFICES ASSUME AnswerIsWorst, shift \in Shifts, control = "answered"
                PROVE  LET calendar == Larger(0, gasto.age) IN
                       /\ shift \in -24 .. 24 => days \in calendar - 1 .. calendar + 1
                       /\ shift = 0 => days = calendar
    BY DEF AgeIsAtMostADayOff
  <2>1. gasto \in Requests /\ days = daysSinceExpense(gasto, shift)
    BY DEF AnswerIsWorst
  <2>. QED  BY <1>1, <2>1
<1>3. IInv => shift \in Shifts
  BY DEF IInv, Types
<1>. QED  BY <1>2, <1>3, AnswersAreWorst, InvariantHolds, PTL

\* An expense that is older, or costs more, is never judged milder, whatever the
\* thresholds of the policies and in whatever order they stand.
THEOREM OlderOrDearerIsNeverMilder == Spec => []NeverMilder
<1>1. AnswerIsWorst /\ shift \in Shifts => NeverMilder
  <2>. DEFINE With(age, monto) == [gasto EXCEPT !.age = age, !.monto_base = monto]
  <2>. SUFFICES ASSUME AnswerIsWorst, shift \in Shifts, control = "answered",
                       NEW age \in Ages, NEW monto \in Amounts,
                       age >= gasto.age, monto >= convertAmountToBase(gasto)
                PROVE  STATUS_PRIORITY[Judgement(With(age, monto),
                                                 daysSinceExpense(With(age, monto), shift))]
                          >= STATUS_PRIORITY[status]
    BY DEF NeverMilder
  <2>. DEFINE other == With(age, monto)
              d == daysSinceExpense(other, shift)
              m == convertAmountToBase(gasto)
              l == gasto.limite_antiguedad
              q == gasto.limits
  <2>1. gasto \in Requests /\ days \in Nat /\ days = daysSinceExpense(gasto, shift)
    BY DEF AnswerIsWorst
  <2>2. other \in Requests
    BY <2>1 DEF Requests
  <2>3. /\ other.age = age /\ other.hour = gasto.hour
        /\ other.monto_base = monto
        /\ other.limite_antiguedad = l /\ other.limits = q
        /\ other.prohibida = gasto.prohibida
    BY <2>1 DEF Requests
  <2>4. d \in Nat
    BY <2>2, AgeIsNat
  <2>5. d >= days
    <3>1. /\ gasto.age \in Int /\ gasto.hour \in 0 .. 23 /\ age \in Int
          /\ shift \in -26 .. 26
      BY <2>1, RequestFields, ShiftIsInt, RulesAssumption
    <3>. DEFINE n == 24 * gasto.age + gasto.hour + shift
                k == 24 * age + gasto.hour + shift
                D == n \div 24
                E == k \div 24
    <3>2. n \in Int /\ k \in Int /\ n <= k
      BY <3>1
    <3>3. D \in Int /\ 24 * D <= n /\ n < 24 * D + 24
      BY <3>2, WholeDays
    <3>4. E \in Int /\ 24 * E <= k /\ k < 24 * E + 24
      BY <3>2, WholeDays
    <3>5. days = IF D > 0 THEN D ELSE 0
      BY <2>1 DEF daysSinceExpense
    <3>6. d = IF E > 0 THEN E ELSE 0
      BY <2>3 DEF daysSinceExpense
    <3>. HIDE DEF n, k, D, E, d
    <3>7. D <= E
      BY <3>2, <3>3, <3>4
    <3>. QED  BY <3>3, <3>4, <3>5, <3>6, <3>7
  <2>6. convertAmountToBase(other) = monto /\ monto >= m /\ m \in Nat /\ monto \in Nat
    BY <2>1, <2>3, AmountIsNat, RulesAssumption DEF convertAmountToBase
  <2>7. /\ l.pendiente_dias \in Nat /\ l.rechazado_dias \in Nat
        /\ q # None => /\ q.aprobado_hasta \in Int \union {None}
                       /\ q.pendiente_hasta \in Int \union {None}
    BY <2>1, RequestFields
  <2>. HIDE DEF other, d, m
  <2>8. ASSUME NEW limite \in Int \union {None}, Within(monto, limite)
        PROVE  Within(m, limite)
    BY <2>6, <2>8 DEF Within
  <2>9. q # None => /\ ~Within(m, q.aprobado_hasta) => ~Within(monto, q.aprobado_hasta)
                    /\ ~Within(m, q.pendiente_hasta) => ~Within(monto, q.pendiente_hasta)
    BY <2>7, <2>8
  <2>10. /\ days + 1 > l.pendiente_dias => d + 1 > l.pendiente_dias
         /\ days + 1 > Larger(l.pendiente_dias, l.rechazado_dias)
              => d + 1 > Larger(l.pendiente_dias, l.rechazado_dias)
    BY <2>1, <2>4, <2>5, <2>7 DEF Larger
  <2>11. RejectedBy(gasto, days + 1) => RejectedBy(other, d + 1)
    BY <2>3, <2>6, <2>9, <2>10 DEF RejectedBy, m
  <2>12. QuestionedBy(gasto, days + 1) => QuestionedBy(other, d + 1)
    BY <2>3, <2>6, <2>9, <2>10, <2>11 DEF QuestionedBy, m
  <2>13. /\ status \in Statuses
         /\ status = "RECHAZADO" <=> RejectedBy(gasto, days + 1)
         /\ status = "APROBADO" <=> ~QuestionedBy(gasto, days + 1)
    BY <2>1, WorstIsMeant DEF AnswerIsWorst
  <2>14. /\ Judgement(other, d) \in Statuses
         /\ Judgement(other, d) = "RECHAZADO" <=> RejectedBy(other, d + 1)
         /\ Judgement(other, d) = "APROBADO" <=> ~QuestionedBy(other, d + 1)
    BY <2>2, <2>4, WorstIsMeant, JudgementIsWorst
  <2>15. STATUS_PRIORITY[Judgement(other, d)] >= STATUS_PRIORITY[status]
    BY <2>11, <2>12, <2>13, <2>14 DEF STATUS_PRIORITY
  <2>. QED  BY <2>15 DEF other, d
<1>2. IInv => shift \in Shifts
  BY DEF IInv, Types
<1>. QED  BY <1>1, <1>2, AnswersAreWorst, InvariantHolds, PTL
=============================================================================
