---------------------------- MODULE MySQLSamples ----------------------------
(***************************************************************************)
(* The samples a MySQL check takes and the deltas computed from them.  An  *)
(* execution of the check stamps its sample, reads the status counters of  *)
(* the server, appends the sample, and computes the delta to the previous  *)
(* sample in two more calls.  Executions of the same check overlap (a      *)
(* scheduled one and one asked for), so samples may be stored in another   *)
(* order than their stamps and than their readings.  A restart of MySQL    *)
(* sets the counters to 0.  One counter stands for all; the rates are the  *)
(* deltas over the interval and are left out.                              *)
(*                                                                         *)
(* MongoDB keeps the samples of the program; the file repository is the    *)
(* one its tests use.                                                      *)
(***************************************************************************)
EXTENDS Integers

CONSTANTS SampleStores,  \* "mongo", "file"
          Executions,    \* overlapping executions
          MaxCount,      \* bound: what the server counts in all
          MaxBoots,      \* bound: restarts of MySQL
          MaxStamp,      \* bound: time stamps
          MaxSamples     \* bound: samples taken

NoSample == [id |-> 0, at |-> 0, count |-> 0, total |-> 0, boot |-> 0, pos |-> 0]
NoExec   == [pc |-> "idle", sample |-> NoSample, previous |-> NoSample]

VARIABLES
    sampleStore, \* which repository holds the samples
    counter,     \* the server's status counter
    total,       \* history: what the server has counted in all
    boot,        \* history: how often it restarted
    stamp,       \* the present time
    nextSample,  \* number of the next sample, for its unique id
    samples,     \* stored samples
    inserted,    \* insertions into the file repository: its list is in their order
    deltas,      \* stored deltas: of which sample, from which, and how much
    exec,        \* executions under way
    evidence     \* of an incident: whether the sample that opened it was stored,
                 \* and whether the latest one it shows is as recent

sampleVars == <<sampleStore, counter, total, boot, stamp, nextSample, samples, inserted, deltas, exec, evidence>>

SamplesInit ==
    /\ sampleStore \in SampleStores
    /\ counter = 0 /\ total = 0 /\ boot = 0 /\ stamp = 1 /\ nextSample = 1
    /\ samples = {} /\ inserted = 0 /\ deltas = {} /\ evidence = {}
    /\ exec = [e \in Executions |-> NoExec]

Running(e, from, to) == exec[e].pc = from /\ exec' = [exec EXCEPT ![e].pc = to]

\* The server counts, or restarts.
ServerCounts ==
    /\ total < MaxCount /\ total' = total + 1 /\ counter' = counter + 1
    /\ UNCHANGED <<sampleStore, boot, stamp, nextSample, samples, inserted, deltas, exec, evidence>>

ServerRestarts ==
    /\ boot < MaxBoots /\ boot' = boot + 1 /\ counter' = 0
    /\ UNCHANGED <<sampleStore, total, stamp, nextSample, samples, inserted, deltas, exec, evidence>>

\* Collect has connected: the sample gets its id and its stamp, which may equal
\* the one before, ...
Stamped(e, t) ==
    /\ exec[e].pc = "idle" /\ nextSample <= MaxSamples
    /\ t \in {stamp, stamp + 1} /\ t <= MaxStamp
    /\ exec' = [exec EXCEPT ![e].pc = "collect", ![e].sample = [NoSample EXCEPT !.id = nextSample, !.at = t]]
    /\ stamp' = t /\ nextSample' = nextSample + 1
    /\ UNCHANGED <<sampleStore, counter, total, boot, samples, inserted, deltas, evidence>>

\* ... and then the counters are read, or a query fails and there is no sample.
Collect(e) ==
    LET s == [exec[e].sample EXCEPT !.count = counter, !.total = total, !.boot = boot]
    IN  /\ exec[e].pc = "collect"
        /\ \/ exec' = [exec EXCEPT ![e].pc = "append", ![e].sample = s]
           \/ exec' = [exec EXCEPT ![e] = NoExec]
        /\ UNCHANGED <<sampleStore, counter, total, boot, stamp, nextSample, samples, inserted, deltas, evidence>>

\* An insertion that fails, or whose answer is lost, leaves the rules without a
\* delta.
AppendSample(e) ==
    LET s        == [exec[e].sample EXCEPT !.pos = inserted]
        next(pc) == exec' = [exec EXCEPT ![e].pc = pc, ![e].sample = s]
    IN  /\ exec[e].pc = "append"
        /\ \/ next("previous") /\ samples' = samples \cup {s}
           \/ next("evaluate") /\ samples' \in {samples, samples \cup {s}}
        /\ inserted' = IF sampleStore = "file" THEN inserted + 1 ELSE inserted
        /\ UNCHANGED <<sampleStore, counter, total, boot, stamp, nextSample, deltas, evidence>>

\* Mongo takes the latest stamp before the sample's own, and any of the samples
\* that share it; the file repository takes the last other sample.
PreviousOf(s) ==
    LET others  == {x \in samples : x.id # s.id}
        earlier == {x \in others : x.at < s.at}
    IN  IF sampleStore = "mongo" THEN {x \in earlier : \A y \in earlier : y.at <= x.at}
        ELSE {x \in others : \A y \in others : y.pos <= x.pos}

\* The difference whatever its sign, for the mutant of DeltasSound.
counterDiffAbs(current, previous) == IF current < previous THEN previous - current ELSE current - previous

counterDiff(current, previous) == IF current - previous < 0 THEN 0 ELSE current - previous

DeltaOf(s, p) == [id |-> s.id, current |-> s, previous |-> p, diff |-> counterDiff(s.count, p.count)]

\* ComputeAndAppendDelta: the sample is found again and its previous one read;
\* it fails when the sample was pruned or has no previous one.
FindPrevious(e) ==
    LET s == exec[e].sample
    IN  /\ exec[e].pc = "previous"
        /\ \/ /\ s \in samples
              /\ \E p \in PreviousOf(s) :
                   exec' = [exec EXCEPT ![e].pc = "delta", ![e].previous = p]
           \/ Running(e, "previous", "evaluate")
        /\ UNCHANGED <<sampleStore, counter, total, boot, stamp, nextSample, samples, inserted, deltas, evidence>>

\* The id is unique in Mongo, so a delta is never stored twice.
InsertDelta(e) ==
    LET d == DeltaOf(exec[e].sample, exec[e].previous)
    IN  /\ Running(e, "delta", "evaluate")
        /\ deltas' \in {deltas, IF \E x \in deltas : x.id = d.id THEN deltas ELSE deltas \cup {d}}
        /\ UNCHANGED <<sampleStore, counter, total, boot, stamp, nextSample, samples, inserted, evidence>>

Latest ==
    IF sampleStore = "mongo" THEN {x \in samples : \A y \in samples : y.at <= x.at}
    ELSE {x \in samples : \A y \in samples : y.pos <= x.pos}

\* The rules are evaluated (module MySQLRules).  When one opens an incident its
\* evidence holds the latest sample stored, or an error when there is none.
CaptureEvidence(e) ==
    /\ exec[e].pc = "evaluate"
    /\ exec' = [exec EXCEPT ![e] = NoExec]
    /\ \/ UNCHANGED evidence
       \/ /\ evidence = {}
          /\ \E s \in Latest : evidence' = {[stored |-> exec[e].sample \in samples,
                                             newer |-> s.at >= exec[e].sample.at]}
    /\ UNCHANGED <<sampleStore, counter, total, boot, stamp, nextSample, samples, inserted, deltas>>

\* The retention job removes samples and then deltas before a cutoff.
PruneSamples(cutoff) ==
    /\ samples' = {s \in samples : s.at >= cutoff}
    /\ deltas' \in {deltas, {d \in deltas : d.current.at >= cutoff}}
    /\ UNCHANGED <<sampleStore, counter, total, boot, stamp, nextSample, inserted, exec, evidence>>

SamplesNext ==
    \/ ServerCounts \/ ServerRestarts
    \/ \E cutoff \in 2 .. stamp : PruneSamples(cutoff)
    \/ \E e \in Executions :
        \/ \E t \in 1 .. MaxStamp : Stamped(e, t)
        \/ Collect(e) \/ AppendSample(e) \/ FindPrevious(e) \/ InsertDelta(e) \/ CaptureEvidence(e)

SamplesSpec == SamplesInit /\ [][SamplesNext]_sampleVars

-----------------------------------------------------------------------------
ReadBefore(p, s) == p.total <= s.total /\ p.boot <= s.boot

\* A delta never shows more than the server counted between the two readings,
\* across restarts of MySQL, overlapping executions, lost answers and pruning,
\* when the readings were taken in the order of the stamps; and a sample has at
\* most one.  The evidence of an incident is at least as recent as the sample
\* that opened it, if that one was stored (mongo_mysql_repository.go
\* ComputeAndAppendDelta, mysql_models.go counterDiff, CaptureEvidence).
DeltasSound ==
    /\ \A d \in deltas :
         /\ ReadBefore(d.previous, d.current) => d.diff <= d.current.total - d.previous.total
         /\ sampleStore = "mongo" => d.previous.at < d.current.at
         /\ \A x \in deltas : x.id = d.id => x = d
    /\ \A v \in evidence : (sampleStore = "mongo" /\ v.stored) => v.newer

=============================================================================
