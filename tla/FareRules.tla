------------------------------ MODULE FareRules ------------------------------
(***************************************************************************)
(* Fare rules and their switches (publish_fare_rules and activate_fare_rules *)
(* of crates/lulan-api/src/admin.rs, load_rules of pricing.rs).             *)
(*                                                                         *)
(* A switch is a transaction of two UPDATEs: the first takes its snapshot,   *)
(* then the locks of the rows in it, and looks again at those rows (READ     *)
(* COMMITTED).  The ruleset in force is the newest active row.              *)
(***************************************************************************)
EXTENDS Integers, FiniteSets, FiniteSetsExt

CONSTANTS RuleSets,    \* fare_rules rows there may be
          Seeded,      \* the ruleset in force at first
          Switchers    \* fare rule publications and activations

ASSUME FareRulesAssumption ==
  Seeded \in RuleSets /\ IsFiniteSet(RuleSets) /\ IsFiniteSet(Switchers)

VARIABLES rule,        \* fare_rules rows
          switch       \* per operator: its transaction

rules_vars == <<rule, switch>>

ActiveRules == {r \in RuleSets : rule[r].state = "active"}

\* load_rules: ORDER BY created_at DESC LIMIT 1.
InForce == CHOOSE r \in ActiveRules : \A q \in ActiveRules : rule[q].created <= rule[r].created

Quiet   == [step |-> "idle", rule |-> Seeded, seen |-> {}, created |-> 0, alone |-> FALSE]

FareRulesTypeOK ==
  /\ rule \in [RuleSets -> [state : {"none", "active", "inactive"}, created : Nat]]
  /\ switch \in [Switchers -> [step : {"idle", "updating"}, rule : RuleSets,
                              seen : SUBSET RuleSets, created : Nat, alone : BOOLEAN]]

FareRulesInit ==
  /\ rule = [r \in RuleSets |-> [state |-> IF r = Seeded THEN "active" ELSE "none", created |-> 0]]
  /\ switch = [w \in Switchers |-> Quiet]

-----------------------------------------------------------------------------
\* created_at of a new row: when its transaction began.
Born(r) ==
  IF rule[r].state # "none" THEN 0
  ELSE 1 + Max({rule[q].created : q \in RuleSets} \cup {switch[v].created : v \in Switchers})

Idle == \A w \in Switchers : switch[w].step = "idle"

SwitchBeginBlind(w) ==                       \* mutant: active rows left as they are
  /\ switch[w].step = "idle"
  /\ \E r \in {x \in RuleSets : rule[x].state # "none" \/ Idle} :
       switch' = [v \in Switchers |->
         IF v = w THEN [step |-> "updating", rule |-> r, seen |-> {}, created |-> Born(r),
                        alone |-> Idle]
         ELSE [switch[v] EXCEPT !.alone = FALSE]]
  /\ UNCHANGED rule

\* BEGIN, activate's look for its row, and UPDATE ... SET active = false WHERE
\* active as far as its snapshot: the rows that were active then.  A new row has
\* an id of its own.
SwitchBegin(w) ==
  /\ switch[w].step = "idle"
  /\ \E r \in RuleSets :
       /\ rule[r].state = "none" =>
            \A v \in Switchers : switch[v].step = "idle" \/ switch[v].rule # r
       /\ switch' = [v \in Switchers |->
            IF v = w THEN [step |-> "updating", rule |-> r, seen |-> ActiveRules,
                           created |-> Born(r), alone |-> Idle]
            ELSE [switch[v] EXCEPT !.alone = FALSE]]
  /\ UNCHANGED rule

\* ... then the row locks: rows no longer active are passed over.  The INSERT, or
\* the second UPDATE, and COMMIT follow; others wait for the locks meanwhile, so
\* that the rest of the transaction is one step.
SwitchCommit(w) ==
  /\ switch[w].step = "updating"
  /\ rule' = [q \in RuleSets |->
       IF q = switch[w].rule
       THEN [state   |-> "active",
             created |-> IF rule[q].state = "none" THEN switch[w].created ELSE rule[q].created]
       ELSE IF q \in switch[w].seen \cap ActiveRules THEN [rule[q] EXCEPT !.state = "inactive"]
       ELSE rule[q]]
  /\ switch' = [switch EXCEPT ![w] = Quiet]

\* Lost connection, crash or deadlock: the transaction is rolled back.
SwitchAbort(w) ==
  /\ switch[w].step # "idle"
  /\ switch' = [switch EXCEPT ![w] = Quiet]
  /\ UNCHANGED rule

Switch(w) == SwitchBegin(w) \/ SwitchCommit(w) \/ SwitchAbort(w)

FareRulesNext == \E w \in Switchers : Switch(w)

FareRulesSpec == FareRulesInit /\ [][FareRulesNext]_rules_vars

-----------------------------------------------------------------------------
(* Properties *)

\* Operators never leave the engine without rules, whatever overlaps or is rolled
\* back, and a switch no other one overlapped is in force when it has returned
\* (admin.rs:272, 323).
SwitchesTakeEffect ==
  [][ActiveRules' # {} /\
     \A w \in Switchers :
       (SwitchCommit(w) /\ switch[w].alone) => InForce' = switch[w].rule]_rules_vars
=============================================================================
