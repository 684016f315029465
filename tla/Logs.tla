-------------------------------- MODULE Logs --------------------------------
(***************************************************************************)
(* Log intelligence on MongoDB: entries, which requests of jobs send, and  *)
(* the families they are grouped into by fingerprint.                      *)
(*                                                                         *)
(* Storing an entry finds its family, inserts the family or increments its *)
(* counter, and inserts the entry: three operations that may each fail,    *)
(* after taking effect or not.  An operator's PATCH and the categorizer    *)
(* read a family and later replace the whole document, the categorizer     *)
(* after waiting for the AI provider, so they write back the counter they  *)
(* read.  PruneBefore has no caller.  A request with several entries is    *)
(* several entries of one caller, the rest of which an error drops.        *)
(***************************************************************************)
EXTENDS Naturals, FiniteSets

CONSTANTS Prints,      \* fingerprints, each with one family
          LogCalls,    \* requests in flight
          MaxSent,     \* bound: entries sent
          MaxWrites    \* bound: documents replaced

\* Requests in flight can be counted.
ASSUME LogsAssumption == IsFiniteSet(LogCalls)

NoFamily  == [count |-> 0]
NoLogCall == [op |-> "idle"]

VARIABLES
    families,   \* the documents: fingerprint -> counter, category and status
    stored,     \* entries in the collection, by fingerprint
    logCall,    \* what each request is in the middle of
    catBusy,    \* the request that holds Categorizer.mu, or none
    writes,     \* documents replaced so far
    sent,       \* history: entries sent, by fingerprint
    acked,      \* history: entries whose request was answered with success
    word,       \* history: the status that the last PATCH that took effect asked for
    overwritten \* history: families replaced by a document read before their last change

logVars == <<families, stored, logCall, catBusy, writes, sent, acked, word, overwritten>>

Family(cat)  == [count |-> 1, cat |-> cat, status |-> "active"]
Free(c)      == logCall[c] = NoLogCall
LogStep(c, l)   == logCall' = [logCall EXCEPT ![c] = l]
Quit(c)      == LogStep(c, NoLogCall)
Total(g)     == Cardinality({x \in Prints \X (1..MaxSent) : x[2] <= g[x[1]]})

LogsInit ==
    /\ families = [f \in Prints |-> NoFamily] /\ stored = [f \in Prints |-> 0]
    /\ logCall = [c \in LogCalls |-> NoLogCall] /\ catBusy = {} /\ writes = 0
    /\ sent = [f \in Prints |-> 0] /\ acked = [f \in Prints |-> 0]
    /\ word = [f \in Prints |-> "active"] /\ overwritten = {}

-----------------------------------------------------------------------------
\* InferEntryCategory: the words of the entry give a category or not; its tags and
\* level count too, so entries of one family may differ.
Inferred == {"unknown", "inferred"}

\* What is made of the provider's answer: a category it does not know is unknown.
Answers == {"unknown", "ai"}

\* ListFamilies with the category inferred for a family that has none; the words
\* of a family give what its first entry gave.
Uncategorized(f) ==
    families[f].count >= 2 /\ families[f].cat = "unknown" /\ families[f].status = "active"

\* Storing an entry: the family is looked for.
handleIngest(c, f, cat) ==
    /\ Free(c) /\ Total(sent) < MaxSent
    /\ sent' = [sent EXCEPT ![f] = @ + 1]
    /\ LogStep(c, [op |-> IF families[f] = NoFamily THEN "insert" ELSE "update",
                f |-> f, cat |-> cat, read |-> families[f]])
    /\ UNCHANGED <<families, stored, catBusy, writes, acked, word, overwritten>>

\* A new family; when the unique index refuses it, the one there is read again.
InsertFamily(c) ==
    LET l == logCall[c]
    IN  /\ l.op = "insert"
        /\ \/ /\ families[l.f] = NoFamily
              /\ families' = [families EXCEPT ![l.f] = Family(l.cat)]
              /\ LogStep(c, [l EXCEPT !.op = "entry"])
           \/ /\ families[l.f] # NoFamily /\ UNCHANGED families
              /\ LogStep(c, [l EXCEPT !.op = "update", !.read = families[l.f]])
           \/ /\ families' \in {families, [families EXCEPT ![l.f] = IF @ = NoFamily THEN Family(l.cat) ELSE @]}
              /\ Quit(c)
        /\ UNCHANGED <<stored, catBusy, writes, sent, acked, word, overwritten>>

\* Writing the counter that was read plus one, for the mutant of LogCountsSound.
IncrementedRead(fam, l) ==
    [fam EXCEPT !.count = l.read.count + 1, !.cat = IF l.read.cat = "unknown" THEN l.cat ELSE @]

\* $inc; the category is set when the one that was read is unknown.
Incremented(fam, l) ==
    [fam EXCEPT !.count = @ + 1, !.cat = IF l.read.cat = "unknown" THEN l.cat ELSE @]

IncrementFamily(c) ==
    LET l   == logCall[c]
        new == [families EXCEPT ![l.f] = Incremented(@, l)]
    IN  /\ l.op = "update"
        /\ \/ families' = new /\ LogStep(c, [l EXCEPT !.op = "entry"])
           \/ families' \in {families, new} /\ Quit(c)
        /\ UNCHANGED <<stored, catBusy, writes, sent, acked, word, overwritten>>

InsertEntry(c) ==
    LET l   == logCall[c]
        new == [stored EXCEPT ![l.f] = @ + 1]
    IN  /\ l.op = "entry" /\ Quit(c)
        /\ \/ stored' = new /\ acked' = [acked EXCEPT ![l.f] = @ + 1]
           \/ stored' \in {stored, new} /\ UNCHANGED acked
        /\ UNCHANGED <<families, catBusy, writes, sent, word, overwritten>>

-----------------------------------------------------------------------------
\* ReplaceOne takes effect, whatever the caller hears: d replaces the family,
\* which was "read" when the caller read it.
UpdateFamily(f, d, read) ==
    /\ families' = [families EXCEPT ![f] = d] /\ writes' = writes + 1
    /\ overwritten' = IF families[f] = read THEN overwritten ELSE overwritten \cup {f}

GetFamily(c, f) ==
    /\ Free(c) /\ families[f] # NoFamily /\ writes < MaxWrites
    /\ LogStep(c, [op |-> "patch", f |-> f, read |-> families[f]])
    /\ UNCHANGED <<families, stored, catBusy, writes, sent, acked, word, overwritten>>

PatchFamily(c, status, cat) ==
    LET l == logCall[c]
        d == [l.read EXCEPT !.status = status, !.cat = IF cat = "" THEN @ ELSE cat]
    IN  /\ l.op = "patch" /\ writes < MaxWrites /\ Quit(c)
        /\ \/ UpdateFamily(l.f, d, l.read) /\ word' = [word EXCEPT ![l.f] = status]
           \/ UNCHANGED <<families, writes, word, overwritten>>
        /\ UNCHANGED <<stored, catBusy, sent, acked>>

\* The lists that a categorization starts from, read once under Categorizer.mu:
\* the active families without a category that were seen twice, or one family.
CategorizeFamilies(c) ==
    /\ Free(c) /\ catBusy = {} /\ catBusy' = {c} /\ writes < MaxWrites
    /\ \E todo \in {{f \in Prints : Uncategorized(f)}} \cup {{f} : f \in {g \in Prints : families[g] # NoFamily}} :
         LogStep(c, [op |-> "label", todo |-> todo, read |-> families])
    /\ UNCHANGED <<families, stored, writes, sent, acked, word, overwritten>>

\* The provider answers for the next family, with a category it may not know, or
\* fails; the document as it was read is written back with the answer.
categorizeFamily(c, f, cat) ==
    LET l == logCall[c]
    IN  /\ l.op = "label" /\ f \in l.todo
        /\ LogStep(c, [l EXCEPT !.todo = @ \ {f}])
        /\ \/ writes < MaxWrites /\ UpdateFamily(f, [l.read[f] EXCEPT !.cat = cat], l.read[f])
           \/ UNCHANGED <<families, writes, overwritten>>
        /\ UNCHANGED <<stored, catBusy, sent, acked, word>>

CategorizeDone(c) ==
    /\ logCall[c].op = "label" /\ logCall[c].todo = {}
    /\ Quit(c) /\ catBusy' = {}
    /\ UNCHANGED <<families, stored, writes, sent, acked, word, overwritten>>

LogsNext ==
    \E c \in LogCalls :
        \/ \E f \in Prints :
            \/ \E cat \in Inferred : handleIngest(c, f, cat)
            \/ GetFamily(c, f)
            \/ \E cat \in Answers : categorizeFamily(c, f, cat)
        \/ InsertFamily(c) \/ IncrementFamily(c) \/ InsertEntry(c)
        \/ \E status \in {"active", "muted"}, cat \in {"", "chosen"} : PatchFamily(c, status, cat)
        \/ CategorizeFamilies(c) \/ CategorizeDone(c)

LogsSpec == LogsInit /\ [][LogsNext]_logVars

-----------------------------------------------------------------------------
\* A family counts an entry at most once, and every entry whose request succeeded
\* unless a document that was read earlier was written over the family; without
\* that its status is what the last PATCH that took effect asked for.  A stored
\* entry has a family (logs/mongo_repository.go IngestEntries, UpdateFamily;
\* logs/categorizer.go).
LogCountsSound ==
    \A f \in Prints :
        /\ families[f].count <= sent[f]
        /\ stored[f] > 0 => families[f] # NoFamily
        /\ f \notin overwritten =>
             /\ families[f].count >= acked[f]
             /\ families[f] # NoFamily => families[f].status = word[f]
=============================================================================
