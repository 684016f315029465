----------------------------- MODULE AlertRules -----------------------------
(***************************************************************************)
(* The alert rules of the API: the engine's list, the file it is persisted *)
(* to, the comparison of a condition with a result, and the cooldown       *)
(* between two alerts of a rule for a check.                               *)
(*                                                                         *)
(* A handler changes the list and writes the whole of it to a temporary    *)
(* file that it renames, all under the engine's lock; an error is logged   *)
(* and the request succeeds.  A POST does not look for the id, so the list *)
(* may hold two rules with one id, which share their cooldown.             *)
(***************************************************************************)
EXTENDS Integers, Sequences, SequencesExt

CONSTANTS RuleIDs,      \* ids that requests use
          RuleBodies,   \* what requests send besides the id: [conds, cooldown, enabled]
          DefaultRules,     \* DefaultAlertRules: a sequence of rules
          Results,      \* results of the one check: field -> [type, val], where numbers stand for texts and truth values
          MaxCooldown,  \* bound: the longest cooldown, in ticks
          MaxRules,     \* bound: length of the list
          MaxRequests   \* bound: requests and restarts

Rule(i, b)  == [id |-> i, conds |-> b.conds, cooldown |-> b.cooldown, enabled |-> b.enabled]
File(rules) == [st |-> "ok", rules |-> rules]
NoRuleFile  == [st |-> "absent", rules |-> <<>>]
BadFile     == [st |-> "not JSON", rules |-> <<>>]

ASSUME RulesAssumption ==
    /\ \A b \in RuleBodies : b.cooldown \in Int
    /\ DefaultRules \in Seq(Range(DefaultRules))
    /\ \A r \in Range(DefaultRules) : r.id \in RuleIDs /\ r.cooldown \in Int
    /\ MaxCooldown \in Nat

VARIABLES
    ruleList,   \* AlertRuleEngine.rules
    ruleFile,   \* alert_rules.json
    sinceFired, \* ticks since lastTriggered, by id
    requests,   \* requests and restarts so far
    fileLags,   \* history: the last write of the file failed, or there was none
    lastCool,   \* history: the cooldown of the rule that fired last, by id
    edited,     \* history: ids named by a request since their last alert
    tooSoon     \* history: ids that fired again within lastCool

ruleVars == <<ruleList, ruleFile, sinceFired, requests, fileLags, lastCool, edited, tooSoon>>

\* A file that is missing, empty or not JSON gives the defaults.
LoadRulesFromConfig(file) == IF file.st = "ok" THEN file.rules ELSE DefaultRules

Forgotten == /\ sinceFired' = [i \in RuleIDs |-> MaxCooldown] /\ lastCool' = [i \in RuleIDs |-> 0]
             /\ edited' = {} /\ tooSoon' = {}

AlertRulesInit ==
    /\ ruleFile \in {NoRuleFile, BadFile, File(DefaultRules)} /\ ruleList = DefaultRules
    /\ sinceFired = [i \in RuleIDs |-> MaxCooldown] /\ lastCool = [i \in RuleIDs |-> 0]
    /\ edited = {} /\ tooSoon = {} /\ requests = 0 /\ fileLags = (ruleFile # File(DefaultRules))

\* The temporary file and the rename: all of the list or none of it.
persistRules(rules) ==
    \/ ruleFile' = File(rules) /\ fileLags' = FALSE
    \/ UNCHANGED ruleFile /\ fileLags' = TRUE

Request(i) ==
    /\ requests < MaxRequests /\ requests' = requests + 1
    /\ edited' = edited \cup {i} /\ UNCHANGED <<sinceFired, lastCool, tooSoon>>

AddRule(i, b) ==
    /\ Request(i) /\ Len(ruleList) < MaxRules
    /\ ruleList' = Append(ruleList, Rule(i, b)) /\ persistRules(ruleList')

FirstWith(i) == SelectInSeq(ruleList, LAMBDA r : r.id = i)

\* A change of a rule that is not written, for the mutant of RulesSound.
UpdateRuleUnsaved(i, b) ==
    /\ Request(i) /\ FirstWith(i) > 0
    /\ ruleList' = [ruleList EXCEPT ![FirstWith(i)] = Rule(i, b)] /\ UNCHANGED <<ruleFile, fileLags>>

UpdateRule(i, b) ==
    /\ Request(i) /\ FirstWith(i) > 0
    /\ ruleList' = [ruleList EXCEPT ![FirstWith(i)] = Rule(i, b)] /\ persistRules(ruleList')

DeleteRule(i) ==
    /\ Request(i) /\ FirstWith(i) > 0
    /\ ruleList' = RemoveAt(ruleList, FirstWith(i)) /\ persistRules(ruleList')

\* A new process reads the file, and PersistIfNeeded writes it where there is none.
RestartRules ==
    /\ requests < MaxRequests /\ requests' = requests + 1
    /\ ruleList' = LoadRulesFromConfig(ruleFile)
    /\ \/ ruleFile = NoRuleFile /\ persistRules(ruleList')
       \/ ruleFile # NoRuleFile /\ UNCHANGED <<ruleFile, fileLags>>
    /\ Forgotten

-----------------------------------------------------------------------------
\* A value of another type matches nothing, not even not_equals.
compareStrings(actual, c) ==
    c.type = actual.type /\ \/ c.op = "equals" /\ actual.val = c.val
                            \/ c.op = "not_equals" /\ actual.val # c.val

\* The numbers of a request are floats, here in tenths; a duration is compared
\* with the integer part.
Expected(actual, c) == IF actual.type = "int" THEN (c.val \div 10) * 10 ELSE c.val

compareNumbers(actual, c) ==
    LET v == Expected(actual, c)
    IN  c.type = "float" /\ \/ c.op = "equals" /\ actual.val = v
                            \/ c.op = "not_equals" /\ actual.val # v
                            \/ c.op = "greater_than" /\ actual.val > v
                            \/ c.op = "less_than" /\ actual.val < v

\* A metric the result does not have matches nothing.
evaluateCondition(result, c) ==
    /\ c.field \in DOMAIN result
    /\ IF result[c.field].type \in {"int", "float"}
       THEN compareNumbers(result[c.field], c) ELSE compareStrings(result[c.field], c)

evaluateConditions(result, r) == r.conds # {} /\ \A c \in r.conds : evaluateCondition(result, c)

\* The rules in the order of the list; an alert starts the cooldown for the rules
\* behind it that have the same id.
RuleFires(s, r, result) == r.enabled /\ s.since[r.id] >= r.cooldown /\ evaluateConditions(result, r)

AfterRule(s, r, result) ==
    IF ~RuleFires(s, r, result) THEN s
    ELSE [since |-> [s.since EXCEPT ![r.id] = 0],
          cool  |-> [s.cool EXCEPT ![r.id] = r.cooldown],
          soon  |-> IF s.since[r.id] < s.cool[r.id] THEN s.soon \cup {r.id} ELSE s.soon \ {r.id},
          fired |-> s.fired \cup {r.id}]

BeforeRules == [since |-> sinceFired, cool |-> lastCool, soon |-> tooSoon, fired |-> {}]

AfterRules(result) ==
    LET s[n \in 0..Len(ruleList)] == IF n = 0 THEN BeforeRules ELSE AfterRule(s[n - 1], ruleList[n], result)
    IN  s[Len(ruleList)]

EvaluateRules(result) ==
    LET s == AfterRules(result)
    IN  /\ sinceFired' = s.since /\ lastCool' = s.cool /\ tooSoon' = s.soon
        /\ edited' = (edited \ s.fired) \cup (s.soon \cap edited)
        /\ UNCHANGED <<ruleList, ruleFile, requests, fileLags>>

TickRules ==
    /\ sinceFired' = [i \in RuleIDs |-> IF sinceFired[i] < MaxCooldown THEN sinceFired[i] + 1 ELSE MaxCooldown]
    /\ UNCHANGED <<ruleList, ruleFile, requests, fileLags, lastCool, edited, tooSoon>>

AlertRulesNext ==
    \/ \E i \in RuleIDs : DeleteRule(i) \/ \E b \in RuleBodies : AddRule(i, b) \/ UpdateRule(i, b)
    \/ RestartRules \/ TickRules
    \/ \E result \in Results : EvaluateRules(result)

RulesSpec == AlertRulesInit /\ [][AlertRulesNext]_ruleVars

-----------------------------------------------------------------------------
Twice(i) == \E m, n \in 1..Len(ruleList) : m # n /\ ruleList[m].id = i /\ ruleList[n].id = i

\* What a restart would load is what is in force, unless the last write failed or
\* the file could not be read; and a rule fires again within the cooldown it fired
\* with only after a request named its id or because another rule has it too
\* (alert_rules.go persist, LoadRulesFromConfig, evaluate; frontend_api.go).
RulesSound ==
    /\ ~fileLags => LoadRulesFromConfig(ruleFile) = ruleList
    /\ \A i \in tooSoon : i \in edited \/ Twice(i)
=============================================================================
