------------------------------ MODULE Router ------------------------------
(***************************************************************************)
(* From the words of a message to a workflow, its roles, and the approval  *)
(* an execution of it needs (classify_intent, assess_risk, get_workflow,   *)
(* get_role, generate_plan). A message is what the keyword sets and the    *)
(* patterns find in it: at most two hits of a category are told apart.     *)
(***************************************************************************)
EXTENDS Naturals, Sequences, FiniteSetsExt

VARIABLE plan   \* the plan made last, with its message

-----------------------------------------------------------------------------
Category == {"action", "domain", "workspace", "presentation", "academic", "strategy"}

(* fast: empty, one word, or a trivial question; explains: it asks for an  *)
(* explanation; risky: one of the patterns of risk.py.                     *)
Message == [fast : BOOLEAN, explains : BOOLEAN, risky : BOOLEAN, hits : [Category -> 0..2]]

Role == {"CONTROL_TOWER", "WORKSPACE_KNOWLEDGE", "TECHNICAL_ARCHITECT", "EXECUTION_WORKER", "FAST_ROUTER"}

(* _REGISTRY of the workflows: the primary and the support roles.          *)
Workflow == [
    GENERAL          |-> <<{"CONTROL_TOWER"}, {"FAST_ROUTER"}>>,
    STRATEGY         |-> <<{"CONTROL_TOWER"}, {"WORKSPACE_KNOWLEDGE"}>>,
    GOOGLE_WORKSPACE |-> <<{"WORKSPACE_KNOWLEDGE"}, {"EXECUTION_WORKER"}>>,
    TECHNICAL        |-> <<{"TECHNICAL_ARCHITECT", "EXECUTION_WORKER"}, {"CONTROL_TOWER"}>>,
    PRESENTATION     |-> <<{"CONTROL_TOWER", "WORKSPACE_KNOWLEDGE"}, {}>>,
    ACADEMIC         |-> <<{"WORKSPACE_KNOWLEDGE"}, {"CONTROL_TOWER"}>>,
    FAST             |-> <<{"FAST_ROUTER"}, {}>>]

-----------------------------------------------------------------------------
Sure(n) == IF n >= 2 THEN "HIGH" ELSE "MEDIUM"

(* A domain or a strategy word of a message that asks for an explanation.  *)
Suppressed(m) == m.explains /\ (m.hits.domain > 0 \/ m.hits.strategy = 1)

(* classify_intent, its rules in their order: an action word counts the    *)
(* domain words with it; an explanation suppresses any number of domain    *)
(* words, and one of strategy.                                             *)
Rules(m) ==
    LET h == m.hits
    IN  << <<m.fast,                         "FAST",             "HIGH">>,
           <<h.action > 0,                   "TECHNICAL",        Sure(h.action + h.domain)>>,
           <<h.domain > 0 /\ ~m.explains,    "TECHNICAL",        Sure(h.domain)>>,
           <<h.workspace > 0,                "GOOGLE_WORKSPACE", "HIGH">>,
           <<h.presentation > 0,             "PRESENTATION",     "HIGH">>,
           <<h.academic > 0,                 "ACADEMIC",         Sure(h.academic)>>,
           <<h.strategy >= 2 \/ (h.strategy = 1 /\ ~m.explains), "STRATEGY", Sure(h.strategy)>>,
           <<Suppressed(m),                  "GENERAL",          "MEDIUM">>,
           <<TRUE,                           "GENERAL",          "LOW">> >>

(* The first that applies.                                                 *)
Classify(m) ==
    LET rules == Rules(m)
        first == Min({i \in DOMAIN rules : rules[i][1]})
    IN  [workflow |-> rules[first][2], confidence |-> rules[first][3]]

(* An assessment of the workflow alone.                                    *)
AssessWorkflow(workflow, m) ==
    CASE workflow = "GOOGLE_WORKSPACE"                           -> "REQUIRED"
      [] workflow \in {"STRATEGY", "PRESENTATION", "ACADEMIC"}   -> "NOTIFY"
      [] OTHER                                                   -> "NONE"

(* assess_risk: a pattern goes before the workflow.                        *)
Assess(workflow, m) == IF m.risky THEN "REQUIRED" ELSE AssessWorkflow(workflow, m)

PlanOf(m) ==
    LET route == Classify(m)
    IN  [message |-> m, route |-> route, approval |-> Assess(route.workflow, m),
         roles |-> Workflow[route.workflow][1] \cup Workflow[route.workflow][2]]

Quiet == [fast |-> TRUE, explains |-> FALSE, risky |-> FALSE, hits |-> [c \in Category |-> 0]]

Init == plan = PlanOf(Quiet)

(* generate_plan, for /route and /plan; submit of the executions classifies*)
(* and assesses likewise.                                                  *)
GeneratePlan(m) == plan' = PlanOf(m)

(* A behaviour follows one message.                                        *)
Next ==
    /\ plan = PlanOf(Quiet)
    /\ \E m \in Message : GeneratePlan(m)

Spec == Init /\ [][Next]_plan

-----------------------------------------------------------------------------
Strength(approval) == CASE approval = "NONE" -> 0 [] approval = "NOTIFY" -> 1 [] approval = "REQUIRED" -> 2

(* How a plan changes with the words of its message: a risky word only     *)
(* ever adds an approval and leaves the route; without an explanation      *)
(* asked for no word is ignored, and asking for one changes the route of   *)
(* nothing but what a technical noun or a lone strategy word decided;      *)
(* mentioning Google Workspace needs approval unless the message is        *)
(* trivial or technical; every role of a plan is registered                *)
(* (classify_intent, assess_risk, get_role).                               *)
WordsDecide ==
    LET m       == plan.message
        risky   == PlanOf([m EXCEPT !.risky = TRUE])
        asking  == PlanOf([m EXCEPT !.explains = TRUE])
        telling == PlanOf([m EXCEPT !.explains = FALSE])
    IN  /\ risky.route = plan.route /\ Strength(risky.approval) >= Strength(plan.approval)
        /\ risky.approval = "REQUIRED"
        /\ (telling.route.confidence = "LOW") <=>
              (~m.fast /\ \A c \in Category : m.hits[c] = 0)
        /\ asking.route # telling.route =>
              \/ telling.route.workflow = "TECHNICAL" /\ m.hits.action = 0
              \/ telling.route.workflow = "STRATEGY" /\ m.hits.strategy = 1
        /\ m.hits.workspace > 0 =>
              plan.approval = "REQUIRED" \/ plan.route.workflow \in {"FAST", "TECHNICAL"}
        /\ plan.roles # {} /\ plan.roles \subseteq Role
=============================================================================
