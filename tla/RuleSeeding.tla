---------------------------- MODULE RuleSeeding ----------------------------
(***************************************************************************)
(* The MySQL rules at a start of the program (main.go) and the collection  *)
(* they come from (mongo_alert_rule_repository.go).  A start lists the     *)
(* collection; when it is empty, or the listing fails, every default rule  *)
(* is inserted by a call of its own; then the collection is listed again,  *)
(* and that is what the rule engine works with until the process ends.     *)
(* All calls share one context of five seconds, so once it has expired the *)
(* rest of them fail.                                                      *)
(*                                                                         *)
(* The program never changes or deletes a rule of this collection; who     *)
(* wants other thresholds edits it with a MongoDB client (external).       *)
(***************************************************************************)
EXTENDS Naturals, Sequences, SequencesExt

CONSTANTS DefaultIDs,    \* DefaultMySQLRules, in order: a sequence of ids
          ThresholdOf,   \* their thresholds; 0 occurs
          OwnThreshold   \* what operators set

ASSUME SeedingAssumption ==
    /\ DefaultIDs \in Seq(ToSet(DefaultIDs)) \ {<<>>} /\ ThresholdOf \in [ToSet(DefaultIDs) -> Nat] /\ OwnThreshold \in Nat

MySQLRuleIDs == ToSet(DefaultIDs)
NoDocument   == [present |-> FALSE]
DefaultMySQLRules == [i \in MySQLRuleIDs |-> [threshold |-> ThresholdOf[i]]]

\* A document leaves out what is zero, and a rule read back is zero there.
mongoAlertRuleDocumentFromAlertRule(rule) ==
    IF rule.threshold = 0 THEN [present |-> TRUE] ELSE [present |-> TRUE, thresholdNum |-> rule.threshold]
toAlertRule(d) == [threshold |-> IF "thresholdNum" \in DOMAIN d THEN d.thresholdNum ELSE 0]

VARIABLES
    ruleDocs,    \* the collection
    starting,    \* where the start is: pc, and the next default rule to insert
    ruleTimeout, \* the context of the start has expired
    engineRules, \* the rules of the engine: a function on some of the ids
    wanted,      \* history: what an operator last did to a rule: "nothing", "edited", "deleted"
    cutShort,    \* history: an insertion failed, or a start ended before its last
    reseeded     \* history: rules that a start went to insert since an operator deleted them

seedVars == <<ruleDocs, starting, ruleTimeout, engineRules, wanted, cutShort, reseeded>>

NotStarted == [pc |-> "down", next |-> 1]
RulesStored == {i \in MySQLRuleIDs : ruleDocs[i].present}

SeedingInit ==
    /\ ruleDocs = [i \in MySQLRuleIDs |-> NoDocument]
    /\ starting = NotStarted /\ ruleTimeout = FALSE /\ engineRules = <<>>
    /\ wanted = [i \in MySQLRuleIDs |-> "nothing"] /\ cutShort = FALSE /\ reseeded = {}

StartAt(pc) == starting' = [starting EXCEPT !.pc = pc]

\* The connection is made, or the engine runs on the defaults.
NewMongoAlertRuleRepository ==
    /\ starting.pc = "down" /\ ruleTimeout' = FALSE
    /\ \/ starting' = [pc |-> "list", next |-> 1] /\ UNCHANGED engineRules
       \/ starting' = [pc |-> "serving", next |-> 1] /\ engineRules' = DefaultMySQLRules
    /\ UNCHANGED <<ruleDocs, wanted, cutShort, reseeded>>

RuleContextExpires ==
    /\ starting.pc \in {"list", "seed", "load"} /\ ~ruleTimeout /\ ruleTimeout' = TRUE
    /\ UNCHANGED <<ruleDocs, starting, engineRules, wanted, cutShort, reseeded>>

\* The first listing: an error counts as an empty collection.
ListBeforeSeeding ==
    /\ starting.pc = "list"
    /\ \/ ~ruleTimeout /\ RulesStored # {} /\ StartAt("load") /\ UNCHANGED reseeded
       \/ ~ruleTimeout /\ RulesStored = {} /\ StartAt("seed") /\ reseeded' = MySQLRuleIDs
       \/ StartAt("seed") /\ reseeded' = MySQLRuleIDs
    /\ UNCHANGED <<ruleDocs, ruleTimeout, engineRules, wanted, cutShort>>

DefaultDocument(i) == mongoAlertRuleDocumentFromAlertRule(DefaultMySQLRules[i])

\* An upsert in place of the insertion, for the mutant of SeedingSound.
InsertRuleUpsert(i) ==
    ~ruleTimeout /\ ruleDocs' = [ruleDocs EXCEPT ![i] = DefaultDocument(i)]

\* InsertOne: a document with the id is left alone.
InsertRule(i) ==
    /\ ~ruleTimeout
    /\ ruleDocs' = [ruleDocs EXCEPT ![i] = IF @.present THEN @ ELSE DefaultDocument(i)]

\* A failure is logged and the next rule is tried; an insertion whose answer was
\* lost is like one that succeeded.
Create ==
    LET i == DefaultIDs[starting.next] IN
    /\ starting.pc = "seed"
    /\ \/ InsertRule(i) /\ UNCHANGED cutShort
       \/ UNCHANGED ruleDocs /\ cutShort' = TRUE
    /\ starting' = IF starting.next < Len(DefaultIDs) THEN [starting EXCEPT !.next = @ + 1]
                   ELSE [starting EXCEPT !.pc = "load"]
    /\ UNCHANGED <<ruleTimeout, engineRules, wanted, reseeded>>

\* The second listing: an error gives the defaults.
ListAgain ==
    /\ starting.pc = "load" /\ StartAt("serving")
    /\ \/ ~ruleTimeout /\ engineRules' = [i \in RulesStored |-> toAlertRule(ruleDocs[i])]
       \/ engineRules' = DefaultMySQLRules
    /\ UNCHANGED <<ruleDocs, ruleTimeout, wanted, cutShort, reseeded>>

\* The process ends; what it was inserting stays undone.
KillStart ==
    /\ starting.pc # "down"
    /\ starting' = NotStarted /\ engineRules' = <<>> /\ ruleTimeout' = FALSE
    /\ cutShort' = (cutShort \/ starting.pc = "seed")
    /\ UNCHANGED <<ruleDocs, wanted, reseeded>>

\* An operator sets another threshold, or deletes the rule.
OperatorChanges(i) ==
    /\ ruleDocs[i].present
    /\ \/ /\ ruleDocs' = [ruleDocs EXCEPT ![i] = mongoAlertRuleDocumentFromAlertRule([threshold |-> OwnThreshold])]
          /\ wanted' = [wanted EXCEPT ![i] = "edited"] /\ UNCHANGED reseeded
       \/ /\ ruleDocs' = [ruleDocs EXCEPT ![i] = NoDocument]
          /\ wanted' = [wanted EXCEPT ![i] = "deleted"]
          /\ reseeded' = IF starting.pc = "seed" THEN reseeded ELSE reseeded \ {i}
    /\ UNCHANGED <<starting, ruleTimeout, engineRules, cutShort>>

SeedingNext ==
    \/ NewMongoAlertRuleRepository \/ RuleContextExpires \/ ListBeforeSeeding \/ Create \/ ListAgain \/ KillStart
    \/ \E i \in MySQLRuleIDs : OperatorChanges(i)

SeedingSpec == SeedingInit /\ [][SeedingNext]_seedVars
-----------------------------------------------------------------------------
\* What the default rules become over failing starts and edits by hand: an edited
\* rule is never overwritten; a deleted one comes back only through a start that
\* found the collection empty or could not list it; a rule nobody deleted is
\* missing once a start has seeded only when an insertion failed or a start was
\* cut off, and then it stays missing, since a collection that is not empty is
\* not seeded again; and the engine judges a rule by the default or by an
\* operator's threshold (main.go seeding, Create, List).
SeedingSound ==
    /\ \A i \in MySQLRuleIDs :
         /\ wanted[i] = "edited" => ruleDocs[i].present /\ toAlertRule(ruleDocs[i]).threshold = OwnThreshold
         /\ wanted[i] = "deleted" /\ ruleDocs[i].present => i \in reseeded
         /\ wanted[i] = "nothing" /\ ~ruleDocs[i].present /\ RulesStored # {} /\ starting.pc # "seed" => cutShort
    /\ \A i \in DOMAIN engineRules :
         engineRules[i] = DefaultMySQLRules[i] \/ engineRules[i].threshold = OwnThreshold
=============================================================================
