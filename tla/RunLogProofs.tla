----------------------------- MODULE RunLogProofs -----------------------------
(***************************************************************************)
(* Proofs about RunLog, for any runs and siblings of a job, any number of  *)
(* metrics reports, and any number of crashes, cancel requests and lost    *)
(* replies.                                                                *)
(***************************************************************************)
EXTENDS RunLog, FiniteSetTheorems, SequenceTheorems, WellFoundedInduction, TLAPS

-----------------------------------------------------------------------------
(***************************************************************************)
(* The inductive invariant, run by run                                     *)
(***************************************************************************)

\* The write a writer is about to do, and the record it is about.
Step(r, w) == IF Free(r, w) THEN "none" ELSE call[r][w][1].to
Rec(r, w) == call[r][w][1].rec

\* What is left of an event is an end of the writes of its record.
LeftOf(c, rec) ==
  \/ InDocument(rec) /\ c \in {<<Entry("log", rec), Entry("records", rec), Entry("doc", rec)>>,
                               <<Entry("records", rec), Entry("doc", rec)>>,
                               <<Entry("doc", rec)>>}
  \/ ~InDocument(rec) /\ c \in {<<Entry("log", rec), Entry("records", rec)>>,
                                <<Entry("records", rec)>>}

CallsAreEvents(r) ==
  \A w \in Writers : Free(r, w) \/ LeftOf(call[r][w], Rec(r, w))

Kinds(w) == CASE w = "worker" -> {"created", "started", "restarted"}
              [] w = "user" -> {"hparams", "metrics"}
              [] w = "cancel" -> {"cancelled"}
              [] w = "reader" -> {"ended", "capture_after"}

\* A writer writes records of its own kind, of the current attempt.
WritersInOrder(r) ==
  \A w \in Writers : Step(r, w) # "none" =>
    /\ Rec(r, w) \in Records
    /\ Rec(r, w).event \in Kinds(w) /\ Rec(r, w).try = attempt[r]
    /\ Rec(r, w).event = "hparams" => Rec(r, w).n = Drawn(r, attempt[r])

\* How far launch, process and wrapup of one run are from each other.
LaunchInOrder(r) ==
  /\ proc[r] = "none" <=> pc[r] \in {"create", "start", "popen", "down"}
  /\ wrap[r] # "no" => pc[r] \in {"runstart", "launched", "down"}
  /\ r \in direct => pc[r] \notin {"create", "popen"}
  /\ wrap[r] # "no" /\ pc[r] # "down" =>
       IF Controlled(r) THEN proc[r] = "dead" ELSE pc[r] = "launched"
  /\ pc[r] \in {"create", "start", "popen"} => told[r] = 0 /\ ~hasty[r]
  /\ proc[r] = "dead" /\ ~hasty[r] => pc[r] = "launched"
  /\ proc[r] = "alive" => ~hasty[r]

\* What each writer may be about to write.
WorkerInOrder(r) ==
  proc[r] # "none" /\ (Controlled(r) \/ pc[r] = "launched") => Step(r, "worker") = "none"

UserInOrder(r) ==
  Step(r, "user") # "none" =>
    /\ proc[r] = "alive" /\ wrap[r] = "no"
    /\ \/ told[r] = 1 /\ Rec(r, "user").event = "hparams"
       \/ told[r] > 1 /\ Rec(r, "user").event = "metrics"

ReaderInOrder(r) ==
  Step(r, "reader") # "none" =>
    \/ wrap[r] = "update" /\ Rec(r, "reader").event = "ended"
    \/ wrap[r] = "exit" /\ Rec(r, "reader").event = "capture_after"

NobodyWritesWhenDown(r) == pc[r] = "down" => \A w \in Writers : Step(r, w) = "none"

PhasesInOrder(r) ==
  /\ LaunchInOrder(r) /\ WorkerInOrder(r) /\ UserInOrder(r) /\ ReaderInOrder(r)
  /\ NobodyWritesWhenDown(r)

Has(r, event) == Places(r, event) # {}
HasOwn(r, event) == \E i \in Places(r, event) : log[r][i].try = attempt[r]
Logged(r) == ~(Step(r, "user") = "log" /\ told[r] = 1)

\* The log file, attempt by attempt.
LogIsOrdered(r) ==
  /\ \A i \in DOMAIN log[r] : log[r][i].try <= attempt[r]
  /\ \A i, j \in DOMAIN log[r] : i < j => log[r][i].try <= log[r][j].try
  /\ \A i \in Places(r, "hparams") : log[r][i].n = Drawn(r, log[r][i].try)
                                     /\ log[r][i].try > 0
  /\ \A i \in Places(r, "metrics") :
       \E j \in Places(r, "hparams") : log[r][j].try = log[r][i].try
  /\ proc[r] = "alive" /\ told[r] > 0 /\ Logged(r) => HasOwn(r, "hparams")

EndIsOnce(r) ==
  /\ wrap[r] \in {"no", "all"} \/ (Step(r, "reader") = "log" /\ Rec(r, "reader").event = "ended")
       => ~HasOwn(r, "ended")
  /\ \A i, j \in 1 .. Len(log[r]) :
       i < j /\ log[r][i].event = "ended" /\ log[r][j].try = log[r][i].try
         => log[r][j].event \in {"capture_after", "cancelled"}

RecordsInLog(r) ==
  /\ ToSet(recs[r]) \subseteq ToSet(log[r])
  /\ \A rec \in ToSet(log[r]) :
       \/ rec \in ToSet(recs[r]) \cup cut[r]
       \/ \E w \in Writers : Step(r, w) = "records" /\ Rec(r, w) = rec
  /\ \A w \in Writers : Step(r, w) = "records" => Rec(r, w) \in ToSet(log[r])

Early(r) == wrap[r] \in {"no", "all", "update"}
Kept(r) == IF left[r] = "none" THEN "created" ELSE left[r]

\* The status of the document.
StatusInOrder(r) ==
  /\ pc[r] = "down" => doc[r].status = left[r]
  /\ Controlled(r) /\ attempt[r] > 1 =>
       /\ pc[r] = "create" => doc[r].status = left[r]
       /\ pc[r] \notin {"create", "down"} /\ Early(r) => doc[r].status = Kept(r)
       /\ Step(r, "worker") # "none" => Rec(r, "worker").event # "started"
  /\ Controlled(r) /\ attempt[r] = 1 =>
       /\ pc[r] = "popen" => \/ Step(r, "worker") = "none" /\ doc[r].status = "running"
                             \/ Step(r, "worker") # "none" /\ Rec(r, "worker").event = "started"
       /\ pc[r] \in {"runstart", "launched"} /\ Early(r) => doc[r].status = "running"
  /\ ~Controlled(r) /\ proc[r] = "alive" =>
       /\ pc[r] = "runstart" => \/ Step(r, "worker") = "none" /\ doc[r].status = "running"
                                \/ Step(r, "worker") # "none" /\ Rec(r, "worker").event = "started"
       /\ pc[r] = "launched" /\ Early(r) => doc[r].status = "running"

\* The start time and the duration.
TimesInOrder(r) ==
  /\ pc[r] = "launched" => doc[r].start = attempt[r]
  /\ wrap[r] # "no" /\ ~hasty[r] => pc[r] \in {"launched", "down"}
  /\ wrap[r] = "duration" => roll[r].start = attempt[r] \/ hasty[r]
  /\ wrap[r] \in {"done", "marked"} => doc[r].duration = attempt[r] \/ hasty[r]

\* The metrics.
IsLast(r, rec) ==
  \E i \in Places(r, "metrics") : log[r][i] = rec /\ \A j \in Places(r, "metrics") : j <= i

MetricsInOrder(r) ==
  /\ Step(r, "user") \in {"records", "doc"} /\ Rec(r, "user").event = "metrics"
       => IsLast(r, Rec(r, "user"))
  /\ proc[r] = "alive" /\ wrap[r] = "no" /\ told[r] > 1 /\ Step(r, "user") = "none"
       => IsLast(r, doc[r].metrics)
  /\ doc[r].metrics # NoMetrics => Has(r, "metrics")
  /\ wrap[r] = "update" => roll[r].metrics = RollUp(r) /\ roll[r].hparams = RollUpHparams(r)

EndedInOrder(r) ==
  Over(r) =>
    /\ LET last == LastOf(r, Places(r, "metrics")) IN doc[r].metrics = last \/ last.zero
    /\ doc[r].metrics # NoMetrics =>
         \/ doc[r].hparams = Drawn(r, doc[r].metrics.try)
         \/ /\ attempt[r] > 1
            /\ \A i \in Places(r, "metrics") : log[r][i].try = attempt[r] => log[r][i].zero

\* Once a run's log is in all_runs, only those that were about to create the
\* file then can remove it.
AggregateInOrder ==
  /\ \A r \in Runs : wrap[r] = "no" => agg[r] = "no"
  /\ \A r \in Runs : wrap[r] \notin {"no", "all"} => agg[r] = "in"
  /\ \A q \in Runs \cup Siblings : agg[q] \in {"append", "in"} => all.exists
  /\ \A r \in Runs : agg[r] = "in" =>
       /\ {q \in Runs \cup Siblings : agg[q] = "create"} \subseteq beside[r]
       /\ <<r, attempt[r]>> \in all.runs \/ beside[r] # {}

RunInOrder(r) ==
  /\ CallsAreEvents(r) /\ WritersInOrder(r) /\ PhasesInOrder(r)
  /\ LogIsOrdered(r) /\ EndIsOnce(r) /\ RecordsInLog(r)
  /\ StatusInOrder(r) /\ TimesInOrder(r)
  /\ MetricsInOrder(r) /\ EndedInOrder(r)

-----------------------------------------------------------------------------
(***************************************************************************)
(* Places in the log file                                                  *)
(***************************************************************************)

\* A set of places has a last one.
LEMMA LastPlace ==
  ASSUME NEW n \in Nat, NEW S \in SUBSET (1 .. n), S # {}
  PROVE  Max(S) \in S /\ \A j \in S : j <= Max(S)
<1> DEFINE R == {ss \in Nat \X Nat : ss[1] < ss[2]}
           T == {n - i : i \in S}
<1>1. IsWellFoundedOn(R, Nat)
  <2>1. R = OpToRel(<, Nat)
    BY DEF OpToRel
  <2> QED BY <2>1, NatLessThanWellFounded
<1>2. PICK x \in T : \A y \in T : ~(<<y, x>> \in R)
  <2>1. PICK i \in S : TRUE
    OBVIOUS
  <2>2. n - i \in T
    OBVIOUS
  <2>3. T \subseteq Nat
    OBVIOUS
  <2> HIDE DEF R, T
  <2> QED BY <1>1, <2>2, <2>3, WFMin
<1>3. PICK i \in S : x = n - i
  BY <1>2
<1>4. \A j \in S : j <= i
  <2> SUFFICES ASSUME NEW j \in S PROVE j <= i
    OBVIOUS
  <2>1. n - j \in T /\ j \in Nat /\ i \in Nat /\ n - j \in Nat /\ x \in Nat
    BY <1>3
  <2>2. <<n - j, x>> \notin R
    <3> HIDE DEF R, T
    <3> QED BY <1>2, <2>1
  <2>3. ~(n - j < x)
    BY <2>1, <2>2
  <2> HIDE DEF R, T
  <2> QED BY <1>3, <2>1, <2>3
<1> HIDE DEF R, T
<1>5. \E k \in S : \A j \in S : k >= j
  BY <1>4
<1> QED BY <1>5 DEF Max

\* LastOf returns the record at the last of the places.
LEMMA LastOfIs ==
  ASSUME NEW r, log[r] \in Seq(Records), NEW places \in SUBSET DOMAIN log[r]
  PROVE  /\ LastOf(r, places) \in Rolls
         /\ places # {} => \E i \in places :
              LastOf(r, places) = log[r][i] /\ \A j \in places : j <= i
<1>1. CASE places = {}
  BY <1>1 DEF LastOf, Rolls
<1>2. CASE places # {}
  <2>1. Len(log[r]) \in Nat /\ places \in SUBSET (1 .. Len(log[r]))
    OBVIOUS
  <2>2. Max(places) \in places /\ \A j \in places : j <= Max(places)
    BY <1>2, <2>1, LastPlace
  <2>3. LastOf(r, places) = log[r][Max(places)]
    BY <1>2 DEF LastOf
  <2>4. log[r][Max(places)] \in Records
    BY <2>2
  <2> QED BY <2>2, <2>3, <2>4 DEF Rolls
<1> QED BY <1>1, <1>2

LEMMA PlacesInLog ==
  ASSUME NEW r, NEW event
  PROVE  Places(r, event) \in SUBSET DOMAIN log[r] /\ Valid(r) \in SUBSET DOMAIN log[r]
BY DEF Places, Valid

LEMMA RollUpType ==
  ASSUME NEW r, log[r] \in Seq(Records)
  PROVE  RollUp(r) \in Rolls /\ RollUpHparams(r) \in Nat
<1>1. \A places \in SUBSET DOMAIN log[r] : LastOf(r, places) \in Rolls
  BY LastOfIs
<1>2. \A rec \in Rolls : rec.n \in Nat
  BY DEF Rolls, Records, NoMetrics
<1>3. RollUp(r) \in Rolls
  BY <1>1, PlacesInLog DEF RollUp
<1>4. LastOf(r, Places(r, "hparams")) \in Rolls
  BY <1>1, PlacesInLog
<1> QED BY <1>2, <1>3, <1>4 DEF RollUpHparams

-----------------------------------------------------------------------------
(***************************************************************************)
(* The writes of an event                                                  *)
(***************************************************************************)

\* An event begins with the log file.
LEMMA LogEventIs ==
  ASSUME NEW rec
  PROVE  /\ LogEvent(rec) # <<>> /\ LogEvent(rec)[1] = Entry("log", rec)
         /\ LeftOf(LogEvent(rec), rec)
<1> DEFINE L == Entry("log", rec)
           R == Entry("records", rec)
           D == Entry("doc", rec)
<1>1. CASE InDocument(rec)
  <2>1. LogEvent(rec) = <<L, R, D>>
    BY <1>1 DEF LogEvent
  <2> HIDE DEF L, R, D
  <2>2. LogEvent(rec) # <<>> /\ LogEvent(rec)[1] = L
    BY <2>1
  <2> QED BY <1>1, <2>1, <2>2 DEF LeftOf, L, R, D
<1>2. CASE ~InDocument(rec)
  <2>1. LogEvent(rec) = <<L, R>>
    BY <1>2 DEF LogEvent
  <2> HIDE DEF L, R, D
  <2>2. LogEvent(rec) # <<>> /\ LogEvent(rec)[1] = L
    BY <2>1
  <2> QED BY <1>2, <2>1, <2>2 DEF LeftOf, L, R
<1> QED BY <1>1, <1>2

Follows(to, rec) == IF to = "log" THEN "records"
                    ELSE IF to = "records" /\ InDocument(rec) THEN "doc" ELSE "none"

\* The write after the next one is of the same record.
LEMMA LeftOfTail ==
  ASSUME NEW c, NEW rec, LeftOf(c, rec)
  PROVE  /\ c # <<>> /\ c[1].rec = rec /\ Head(c) = c[1]
         /\ c[1].to \in {"log", "records", "doc"}
         /\ c[1].to = "doc" => InDocument(rec)
         /\ Follows(c[1].to, rec) = "none" => Tail(c) = <<>>
         /\ Follows(c[1].to, rec) # "none" =>
              /\ Tail(c) # <<>> /\ Tail(c)[1] = Entry(Follows(c[1].to, rec), rec)
              /\ LeftOf(Tail(c), rec)
<1> DEFINE L == Entry("log", rec)
           R == Entry("records", rec)
           D == Entry("doc", rec)
<1>1. /\ L.to = "log" /\ L.rec = rec /\ R.to = "records" /\ R.rec = rec
      /\ D.to = "doc" /\ D.rec = rec
  BY DEF Entry
<1>2. CASE c = <<L, R, D>> /\ InDocument(rec)
  <2> HIDE DEF L, R, D
  <2>1. c[1] = L /\ Tail(c) = <<R, D>> /\ Tail(c)[1] = R /\ c # <<>> /\ Tail(c) # <<>>
        /\ Head(c) = c[1]
    BY <1>2
  <2> QED BY <1>1, <1>2, <2>1 DEF LeftOf, Follows, L, R, D
<1>3. CASE c = <<R, D>> /\ InDocument(rec)
  <2> HIDE DEF L, R, D
  <2>1. c[1] = R /\ Tail(c) = <<D>> /\ Tail(c)[1] = D /\ c # <<>> /\ Tail(c) # <<>>
        /\ Head(c) = c[1]
    BY <1>3
  <2> QED BY <1>1, <1>3, <2>1 DEF LeftOf, Follows, L, R, D
<1>4. CASE c = <<D>> /\ InDocument(rec)
  <2> HIDE DEF L, R, D
  <2>1. c[1] = D /\ Tail(c) = <<>> /\ c # <<>> /\ Head(c) = c[1]
    BY <1>4
  <2> QED BY <1>1, <1>4, <2>1 DEF Follows
<1>5. CASE c = <<L, R>> /\ ~InDocument(rec)
  <2> HIDE DEF L, R, D
  <2>1. c[1] = L /\ Tail(c) = <<R>> /\ Tail(c)[1] = R /\ c # <<>> /\ Tail(c) # <<>>
        /\ Head(c) = c[1]
    BY <1>5
  <2> QED BY <1>1, <1>5, <2>1 DEF LeftOf, Follows, L, R
<1>6. CASE c = <<R>> /\ ~InDocument(rec)
  <2> HIDE DEF L, R, D
  <2>1. c[1] = R /\ Tail(c) = <<>> /\ c # <<>> /\ Head(c) = c[1]
    BY <1>6
  <2> QED BY <1>1, <1>6, <2>1 DEF Follows
<1> QED BY <1>2, <1>3, <1>4, <1>5, <1>6 DEF LeftOf

-----------------------------------------------------------------------------
(***************************************************************************)
(* Types                                                                   *)
(***************************************************************************)

Entries == [to : {"log", "records", "doc"}, rec : Records]

TypeOfCalls ==
  /\ log \in [Runs -> Seq(Records)] /\ recs \in [Runs -> Seq(Records)]
  /\ call \in [Runs -> [Writers -> Seq(Entries)]]
  /\ cut \in [Runs -> SUBSET Records]
TypeOfDocument ==
  /\ doc \in [Runs ->
       [status : {"none", "created", "running", "ended"}, hparams : Nat,
        metrics : Rolls, restarts : Nat, start : Nat, duration : Nat]]
  /\ roll \in [Runs -> [metrics : Rolls, hparams : Nat, restarts : Nat, start : Nat]]
TypeOfPhases ==
  /\ told \in [Runs -> 0 .. MaxMetrics + 1]
  /\ direct \subseteq Runs
  /\ agg \in [Runs \cup Siblings -> {"no", "test", "create", "append", "in"}]
  /\ pc \in [Runs -> {"create", "start", "popen", "runstart", "launched", "down"}]
  /\ proc \in [Runs -> {"none", "alive", "dead"}]
  /\ wrap \in [Runs -> {"no", "all", "update",
                        "capture", "exit", "duration", "done", "marked"}]
  /\ cancel \in [Runs -> {"no", "kill", "over"}]
  /\ attempt \in [Runs -> Nat \ {0}]
TypeOfHistory ==
  /\ all \in [exists : BOOLEAN, runs : SUBSET ((Runs \cup Siblings) \X Nat)]
  /\ beside \in [Runs \cup Siblings -> SUBSET (Runs \cup Siblings)]
  /\ left \in [Runs -> {"none", "created", "running", "ended"}]
  /\ hasty \in [Runs -> BOOLEAN]

\* The type invariant in four parts, each about variables that change together.
LEMMA TypeParts ==
  TypeOK <=> TypeOfCalls /\ TypeOfDocument /\ TypeOfPhases /\ TypeOfHistory
BY DEF TypeOK, TypeOfCalls, TypeOfDocument, TypeOfPhases, TypeOfHistory, Entries

\* What is logged are records.
LEMMA RecordTypes ==
  ASSUME NEW r \in Runs, TypeOfPhases
  PROVE  /\ \A event \in Names : Record(r, event) \in Records
         /\ \A event \in Names, n \in Nat, zero \in BOOLEAN :
              DataRecord(r, event, n, zero) \in Records
         /\ NoMetrics \in Rolls
         /\ Drawn(r, attempt[r]) \in Nat \ {0}
<1>1. attempt[r] \in Nat \ {0}
  BY DEF TypeOfPhases
<1>2. ASSUME NEW event \in Names, NEW n \in Nat, NEW zero \in BOOLEAN
      PROVE  DataRecord(r, event, n, zero) \in Records
  <2> HIDE DEF Names
  <2> QED BY <1>1, <1>2 DEF DataRecord, Records
<1>3. ASSUME NEW event \in Names PROVE Record(r, event) \in Records
  BY <1>2 DEF Record
<1>4. NoMetrics \in Rolls /\ Drawn(r, attempt[r]) \in Nat \ {0}
  BY <1>1 DEF Rolls, Drawn
<1> QED BY <1>2, <1>3, <1>4

LEMMA EventTypes ==
  ASSUME NEW rec \in Records PROVE LogEvent(rec) \in Seq(Entries)
<1>1. Entry("log", rec) \in Entries /\ Entry("records", rec) \in Entries
      /\ Entry("doc", rec) \in Entries
  BY DEF Entry, Entries
<1> QED BY <1>1 DEF LogEvent

LEMMA HeadTypes ==
  ASSUME NEW r \in Runs, NEW w \in Writers, TypeOfCalls, ~Free(r, w)
  PROVE  /\ Head(call[r][w]) \in Entries /\ Head(call[r][w]) = call[r][w][1]
         /\ Head(call[r][w]).rec \in Records
         /\ Tail(call[r][w]) \in Seq(Entries)
<1>1. call[r][w] \in Seq(Entries) /\ call[r][w] # <<>>
  BY DEF TypeOfCalls, Free
<1>2. Head(call[r][w]) \in Entries /\ Tail(call[r][w]) \in Seq(Entries)
      /\ Head(call[r][w]) = call[r][w][1]
  BY <1>1
<1> QED BY <1>2 DEF Entries

\* What an event changes of the calls.
LEMMA LogsTypes ==
  ASSUME NEW r \in Runs, NEW w \in Writers, NEW rec \in Records, TypeOfCalls, Logs(r, w, rec)
  PROVE  call' \in [Runs -> [Writers -> Seq(Entries)]]
BY EventTypes DEF Logs, TypeOfCalls

LEMMA CutTypes ==
  ASSUME NEW r \in Runs, NEW W \in SUBSET Writers, TypeOfCalls
  PROVE  CutShort(r, W) \in SUBSET Records
BY HeadTypes DEF CutShort

LEMMA WriterNames ==
  "worker" \in Writers /\ "user" \in Writers /\ "cancel" \in Writers /\ "reader" \in Writers
BY DEF Writers

LEMMA DiesTypes ==
  ASSUME NEW r \in Runs, TypeOfCalls, Dies(r)
  PROVE  TypeOfCalls'
<1> DEFINE W == IF Controlled(r) THEN {"user"} ELSE Writers
<1>1. W \in SUBSET Writers
  BY WriterNames
<1>2. CutShort(r, W) \in SUBSET Records
  <2> HIDE DEF W
  <2> QED BY <1>1, CutTypes
<1>3. cut' = [cut EXCEPT ![r] = @ \cup CutShort(r, W)] /\ log' = log /\ recs' = recs
      /\ call' = [call EXCEPT ![r] = [w \in Writers |-> IF w \in W THEN <<>> ELSE @[w]]]
  BY DEF Dies, store
<1> HIDE DEF W
<1>4. cut' \in [Runs -> SUBSET Records]
  BY <1>2, <1>3 DEF TypeOfCalls
<1>5. call' \in [Runs -> [Writers -> Seq(Entries)]]
  <2>1. [w \in Writers |-> IF w \in W THEN <<>> ELSE call[r][w]] \in [Writers -> Seq(Entries)]
    BY DEF TypeOfCalls
  <2> QED BY <1>3, <2>1 DEF TypeOfCalls
<1> QED BY <1>3, <1>4, <1>5 DEF TypeOfCalls

\* A write keeps log file, records and calls of their types.
LEMMA WriteTypes ==
  ASSUME NEW r \in Runs, NEW w \in Writers, TypeOfCalls, Write(r, w)
  PROVE  TypeOfCalls'
<1> DEFINE h == Head(call[r][w])
<1>1. ~Free(r, w) /\ call' = [call EXCEPT ![r][w] = Tail(@)] /\ cut' = cut
  BY DEF Write, history
<1>2. h.rec \in Records /\ Tail(call[r][w]) \in Seq(Entries)
  BY <1>1, HeadTypes
<1>3. call' \in [Runs -> [Writers -> Seq(Entries)]]
  BY <1>1, <1>2 DEF TypeOfCalls
<1>4. \/ log' = [log EXCEPT ![r] = Append(@, h.rec)] /\ recs' = recs
      \/ recs' = [recs EXCEPT ![r] = Append(@, h.rec)] /\ log' = log
      \/ recs' = [recs EXCEPT ![r] = @ \o <<h.rec, h.rec>>] /\ log' = log
      \/ log' = log /\ recs' = recs
  BY DEF Write
<1> HIDE DEF h
<1>5. log' \in [Runs -> Seq(Records)] /\ recs' \in [Runs -> Seq(Records)]
  <2>1. \A s \in Seq(Records) : Append(s, h.rec) \in Seq(Records)
    BY <1>2
  <2>2. <<h.rec, h.rec>> \in Seq(Records)
    BY <1>2
  <2>3. \A s \in Seq(Records) : s \o <<h.rec, h.rec>> \in Seq(Records)
    BY <2>2
  <2>4. CASE log' = [log EXCEPT ![r] = Append(@, h.rec)] /\ recs' = recs
    BY <2>1, <2>4 DEF TypeOfCalls
  <2>5. CASE recs' = [recs EXCEPT ![r] = Append(@, h.rec)] /\ log' = log
    BY <2>1, <2>5 DEF TypeOfCalls
  <2>6. CASE recs' = [recs EXCEPT ![r] = @ \o <<h.rec, h.rec>>] /\ log' = log
    BY <2>3, <2>6 DEF TypeOfCalls
  <2> QED BY <1>4, <2>4, <2>5, <2>6 DEF TypeOfCalls
<1> QED BY <1>1, <1>3, <1>5 DEF TypeOfCalls

\* Every step keeps the types, part by part.
LEMMA StepKeepsTypesOfCalls ==
  ASSUME TypeOfCalls, TypeOfPhases, [Next]_vars PROVE TypeOfCalls'
<1>1. ASSUME NEW r \in Runs, NEW w \in Writers, Write(r, w) PROVE TypeOfCalls'
  BY <1>1, WriteTypes
<1>2. ASSUME NEW r \in Runs, Create(r) PROVE TypeOfCalls'
    BY <1>2, LogsTypes, RecordTypes, WriterNames DEF Create, TypeOfCalls, store, history, Names
<1>3. ASSUME NEW r \in Runs, Start(r) PROVE TypeOfCalls'
    BY <1>3, LogsTypes, RecordTypes, WriterNames DEF Start, TypeOfCalls, store, history, Names
<1>4. ASSUME NEW r \in Runs, Popen(r) PROVE TypeOfCalls'
    BY <1>4 DEF Popen, TypeOfCalls, store, history
<1>5. ASSUME NEW r \in Runs, RunStart(r) PROVE TypeOfCalls'
    BY <1>5 DEF RunStart, TypeOfCalls, store, history
<1>6. ASSUME NEW r \in Runs, LogHparams(r) PROVE TypeOfCalls'
    BY <1>6, LogsTypes, RecordTypes, WriterNames DEF LogHparams, TypeOfCalls, store, history,
    Names
<1>7. ASSUME NEW r \in Runs, LogMetrics(r) PROVE TypeOfCalls'
  <2>1. PICK zero \in BOOLEAN : Logs(r, "user", DataRecord(r, "metrics", told[r], zero))
    BY <1>7 DEF LogMetrics
  <2>2. told[r] \in Nat
    BY DEF TypeOfPhases
  <2>3. call' \in [Runs -> [Writers -> Seq(Entries)]]
    BY <2>1, <2>2, LogsTypes, RecordTypes, WriterNames DEF Names
  <2> QED BY <1>7, <2>3 DEF LogMetrics, TypeOfCalls, store, history
<1>8. ASSUME NEW r \in Runs, ProcessEnds(r) PROVE TypeOfCalls'
  BY <1>8, DiesTypes DEF ProcessEnds
<1>9. ASSUME NEW r \in Runs, CancelLogs(r) PROVE TypeOfCalls'
    BY <1>9, LogsTypes, RecordTypes, WriterNames DEF CancelLogs, TypeOfCalls, store, history,
    Names
<1>10. ASSUME NEW r \in Runs, CancelKills(r) PROVE TypeOfCalls'
  <2>1. CASE Dies(r)
    BY <2>1, DiesTypes
  <2>2. CASE UNCHANGED <<store, call, history>>
    BY <2>2 DEF TypeOfCalls, store, history
  <2> QED BY <1>10, <2>1, <2>2 DEF CancelKills
<1>11. ASSUME NEW r \in Runs, StartWrapup(r) PROVE TypeOfCalls'
    BY <1>11 DEF StartWrapup, TypeOfCalls, store, history
<1>12. ASSUME NEW r \in Runs, LogEnded(r) PROVE TypeOfCalls'
    BY <1>12, LogsTypes, RecordTypes, WriterNames DEF LogEnded, TypeOfCalls, store, history,
    Names
<1>13. ASSUME NEW r \in Runs, UpdateAtEnd(r) PROVE TypeOfCalls'
    BY <1>13 DEF UpdateAtEnd, TypeOfCalls, store, history
<1>14. ASSUME NEW r \in Runs, CaptureAfter(r) PROVE TypeOfCalls'
    BY <1>14, LogsTypes, RecordTypes, WriterNames DEF CaptureAfter, TypeOfCalls, store, history,
    Names
<1>15. ASSUME NEW r \in Runs, RunExitReads(r) PROVE TypeOfCalls'
    BY <1>15 DEF RunExitReads, TypeOfCalls, store, history
<1>16. ASSUME NEW r \in Runs, RunExitWrites(r) PROVE TypeOfCalls'
    BY <1>16 DEF RunExitWrites, TypeOfCalls, store, history
<1>17. ASSUME NEW r \in Runs, Mark(r) PROVE TypeOfCalls'
    BY <1>17 DEF Mark, TypeOfCalls, store, history
<1>18. ASSUME NEW r \in Runs, Crash(r) PROVE TypeOfCalls'
  <2>1. CutShort(r, Writers) \in SUBSET Records
    BY CutTypes
  <2>2. Quiet \in [Writers -> Seq(Entries)]
    BY DEF Quiet
  <2> QED BY <1>18, <2>1, <2>2 DEF Crash, TypeOfCalls, store
<1>19. ASSUME NEW r \in Runs, Reboot(r) PROVE TypeOfCalls'
    BY <1>19 DEF Reboot, TypeOfCalls, store, history
<1>20. ASSUME NEW r \in Runs \cup Siblings, AllExists(r) PROVE TypeOfCalls'
    BY <1>20 DEF AllExists, TypeOfCalls, notAgg, history
<1>21. ASSUME NEW r \in Runs \cup Siblings, AllCreate(r) PROVE TypeOfCalls'
    BY <1>21 DEF AllCreate, TypeOfCalls, notAgg, history
<1>22. ASSUME NEW r \in Runs \cup Siblings, AllAppend(r) PROVE TypeOfCalls'
    BY <1>22 DEF AllAppend, TypeOfCalls, notAgg, history
<1>23. CASE UNCHANGED vars
  BY <1>23 DEF vars, TypeOfCalls, store, history
<1> QED BY <1>1, <1>2, <1>3, <1>4, <1>5, <1>6, <1>7, <1>8, <1>9, <1>10, <1>11, <1>12, <1>13,
           <1>14, <1>15, <1>16, <1>17, <1>18, <1>19, <1>20, <1>21, <1>22, <1>23 DEF Next,
           Launch, User, Cancel, Wrapup, Aggregate

\* The fields of a document.
Docs == [status : {"none", "created", "running", "ended"}, hparams : Nat,
         metrics : Rolls, restarts : Nat, start : Nat, duration : Nat]
Ends == [metrics : Rolls, hparams : Nat, restarts : Nat, start : Nat]

\* The document after the end of the run, field by field.
LEMMA EndedDocument ==
  ASSUME NEW d \in Docs, NEW end \in Ends
  PROVE  /\ Ended(d, end) \in Docs
         /\ Ended(d, end).status = "ended"
         /\ Ended(d, end).hparams = IF end.hparams = 0 THEN d.hparams ELSE end.hparams
         /\ Ended(d, end).metrics = IF end.metrics = NoMetrics THEN d.metrics ELSE end.metrics
         /\ Ended(d, end).start = d.start /\ Ended(d, end).duration = d.duration
BY DEF Ended, Docs, Ends

\* The document after an event, field by field.
LEMMA UpdatedDocument ==
  ASSUME NEW d \in Docs, NEW rec \in Records
  PROVE  /\ Updated(d, rec) \in Docs
         /\ Updated(d, rec).status = IF rec.event = "started" THEN "running" ELSE d.status
         /\ Updated(d, rec).hparams = IF rec.event = "hparams" THEN rec.n ELSE d.hparams
         /\ Updated(d, rec).metrics = IF rec.event = "metrics" THEN rec ELSE d.metrics
         /\ Updated(d, rec).start = d.start /\ Updated(d, rec).duration = d.duration
<1>1. rec \in Rolls /\ rec.n \in Nat
  BY DEF Rolls, Records
<1>2. CASE rec.event = "hparams"
  BY <1>1, <1>2 DEF Updated, Docs
<1>3. CASE rec.event = "metrics"
  BY <1>1, <1>3 DEF Updated, Docs
<1>4. CASE rec.event = "started"
  BY <1>4 DEF Updated, Docs
<1>5. CASE rec.event \notin {"hparams", "metrics", "started"}
  BY <1>5 DEF Updated
<1> QED BY <1>2, <1>3, <1>4, <1>5

\* What each step does with the document of its run.
LEMMA WriteDocument ==
  ASSUME NEW r \in Runs, NEW w \in Writers, TypeOfCalls, Write(r, w)
  PROVE  \/ doc' = doc
         \/ /\ ~Free(r, w) /\ call[r][w][1].to = "doc"
            /\ doc' = [doc EXCEPT ![r] = Updated(@, call[r][w][1].rec)]
BY HeadTypes DEF Write

LEMMA DocumentTypes ==
  TypeOfDocument <=> doc \in [Runs -> Docs] /\ roll \in [Runs -> Ends]
BY DEF TypeOfDocument, Docs, Ends

LEMMA PlacesAreFinite ==
  ASSUME NEW r \in Runs, TypeOfCalls, NEW event
  PROVE  Cardinality(Places(r, event)) \in Nat
<1>1. Places(r, event) \subseteq 1 .. Len(log[r]) /\ Len(log[r]) \in Nat
  BY DEF Places, TypeOfCalls
<1>2. IsFiniteSet(1 .. Len(log[r]))
  BY <1>1, FS_Interval
<1> QED BY <1>1, <1>2, FS_Subset, FS_CardinalityType

LEMMA StepKeepsTypesOfDocument ==
  ASSUME TypeOfCalls, TypeOfDocument, TypeOfPhases, [Next]_vars PROVE TypeOfDocument'
<1>1. ASSUME NEW r \in Runs, NEW w \in Writers, Write(r, w) PROVE TypeOfDocument'
  <2>1. CASE doc' = doc
    BY <1>1, <2>1 DEF Write, TypeOfDocument
  <2>2. CASE /\ ~Free(r, w) /\ doc' = [doc EXCEPT ![r] = Updated(doc[r], call[r][w][1].rec)]
    <3>1. call[r][w][1].rec \in Records
      BY <2>2, HeadTypes
    <3>2. Updated(doc[r], call[r][w][1].rec) \in Docs
      BY <3>1, UpdatedDocument, DocumentTypes
    <3>3. doc' \in [Runs -> Docs]
      BY <2>2, <3>2, DocumentTypes
    <3>4. roll' = roll
      BY <1>1 DEF Write
    <3> QED BY <3>3, <3>4 DEF TypeOfDocument, Docs
  <2> QED BY <1>1, <2>1, <2>2, WriteDocument
<1>2. ASSUME NEW r \in Runs, Create(r) PROVE TypeOfDocument'
    BY <1>2 DEF Create, TypeOfDocument, store
<1>3. ASSUME NEW r \in Runs, Start(r) PROVE TypeOfDocument'
    BY <1>3 DEF Start, TypeOfDocument, store
<1>4. ASSUME NEW r \in Runs, Popen(r) PROVE TypeOfDocument'
    BY <1>4 DEF Popen, TypeOfDocument, store
<1>5. ASSUME NEW r \in Runs, RunStart(r) PROVE TypeOfDocument'
  <2>1. attempt[r] \in Nat
    BY DEF TypeOfPhases
  <2>2. doc' = [doc EXCEPT ![r].start = attempt[r]] /\ roll' = roll
    BY <1>5 DEF RunStart
  <2>3. \A d \in Docs : [d EXCEPT !.start = attempt[r]] \in Docs
    BY <2>1 DEF Docs
  <2>4. doc' = [doc EXCEPT ![r] = [doc[r] EXCEPT !.start = attempt[r]]]
    BY <2>2
  <2>5. doc' \in [Runs -> Docs]
    BY <2>3, <2>4, DocumentTypes
  <2> QED BY <2>2, <2>5 DEF TypeOfDocument, Docs
<1>6. ASSUME NEW r \in Runs, LogHparams(r) PROVE TypeOfDocument'
    BY <1>6 DEF LogHparams, TypeOfDocument, store
<1>7. ASSUME NEW r \in Runs, LogMetrics(r) PROVE TypeOfDocument'
    BY <1>7 DEF LogMetrics, TypeOfDocument, store
<1>8. ASSUME NEW r \in Runs, ProcessEnds(r) PROVE TypeOfDocument'
    BY <1>8 DEF ProcessEnds, TypeOfDocument, store, Dies
<1>9. ASSUME NEW r \in Runs, CancelLogs(r) PROVE TypeOfDocument'
    BY <1>9 DEF CancelLogs, TypeOfDocument, store
<1>10. ASSUME NEW r \in Runs, CancelKills(r) PROVE TypeOfDocument'
  <2>1. doc' = doc /\ roll' = roll
    BY <1>10 DEF CancelKills, Dies, store
  <2> QED BY <2>1 DEF TypeOfDocument
<1>11. ASSUME NEW r \in Runs, StartWrapup(r) PROVE TypeOfDocument'
    BY <1>11 DEF StartWrapup, TypeOfDocument, store
<1>12. ASSUME NEW r \in Runs, LogEnded(r) PROVE TypeOfDocument'
  <2> DEFINE p == RollUp(r)
             h == RollUpHparams(r)
             n == Cardinality(Places(r, "restarted"))
  <2>1. p \in Rolls /\ h \in Nat /\ n \in Nat
    BY RollUpType, PlacesAreFinite DEF TypeOfCalls
  <2>2. roll' = [roll EXCEPT ![r] = [metrics |-> p, hparams |-> h, restarts |-> n, start |-> 0]]
        /\ doc' = doc
    BY <1>12 DEF LogEnded, store
  <2> HIDE DEF p, h, n
  <2> QED BY <2>1, <2>2 DEF TypeOfDocument
<1>13. ASSUME NEW r \in Runs, UpdateAtEnd(r) PROVE TypeOfDocument'
  <2>1. Ended(doc[r], roll[r]) \in Docs
    BY EndedDocument, DocumentTypes
  <2>2. doc' \in [Runs -> Docs]
    BY <1>13, <2>1, DocumentTypes DEF UpdateAtEnd
  <2>3. roll' = roll
    BY <1>13 DEF UpdateAtEnd
  <2> QED BY <2>2, <2>3 DEF TypeOfDocument, Docs
<1>14. ASSUME NEW r \in Runs, CaptureAfter(r) PROVE TypeOfDocument'
    BY <1>14 DEF CaptureAfter, TypeOfDocument, store
<1>15. ASSUME NEW r \in Runs, RunExitReads(r) PROVE TypeOfDocument'
    BY <1>15 DEF RunExitReads, TypeOfDocument, store
<1>16. ASSUME NEW r \in Runs, RunExitWrites(r) PROVE TypeOfDocument'
    BY <1>16 DEF RunExitWrites, TypeOfDocument, store
<1>17. ASSUME NEW r \in Runs, Mark(r) PROVE TypeOfDocument'
    BY <1>17 DEF Mark, TypeOfDocument, store
<1>18. ASSUME NEW r \in Runs, Crash(r) PROVE TypeOfDocument'
    BY <1>18 DEF Crash, TypeOfDocument, store
<1>19. ASSUME NEW r \in Runs, Reboot(r) PROVE TypeOfDocument'
    BY <1>19 DEF Reboot, TypeOfDocument, store, NoRoll, Rolls
<1>20. ASSUME NEW r \in Runs \cup Siblings, AllExists(r) PROVE TypeOfDocument'
    BY <1>20 DEF AllExists, TypeOfDocument, notAgg
<1>21. ASSUME NEW r \in Runs \cup Siblings, AllCreate(r) PROVE TypeOfDocument'
    BY <1>21 DEF AllCreate, TypeOfDocument, notAgg
<1>22. ASSUME NEW r \in Runs \cup Siblings, AllAppend(r) PROVE TypeOfDocument'
    BY <1>22 DEF AllAppend, TypeOfDocument, notAgg
<1>23. CASE UNCHANGED vars
  BY <1>23 DEF vars, TypeOfDocument, store
<1> QED BY <1>1, <1>2, <1>3, <1>4, <1>5, <1>6, <1>7, <1>8, <1>9, <1>10, <1>11, <1>12, <1>13,
           <1>14, <1>15, <1>16, <1>17, <1>18, <1>19, <1>20, <1>21, <1>22, <1>23 DEF Next,
           Launch, User, Cancel, Wrapup, Aggregate

LEMMA StepKeepsTypesOfPhases ==
  ASSUME TypeOfPhases, [Next]_vars PROVE TypeOfPhases'
<1>1. ASSUME NEW r \in Runs, NEW w \in Writers, Write(r, w) PROVE TypeOfPhases'
    BY <1>1 DEF Write, TypeOfPhases, store, life, history, Goto
<1>2. ASSUME NEW r \in Runs, Create(r) PROVE TypeOfPhases'
    BY <1>2 DEF Create, TypeOfPhases, store, life, history, Goto
<1>3. ASSUME NEW r \in Runs, Start(r) PROVE TypeOfPhases'
    BY <1>3 DEF Start, TypeOfPhases, store, life, history, Goto
<1>4. ASSUME NEW r \in Runs, Popen(r) PROVE TypeOfPhases'
    BY <1>4 DEF Popen, TypeOfPhases, store, life, history, Goto
<1>5. ASSUME NEW r \in Runs, RunStart(r) PROVE TypeOfPhases'
    BY <1>5 DEF RunStart, TypeOfPhases, store, life, history, Goto
<1>6. ASSUME NEW r \in Runs, LogHparams(r) PROVE TypeOfPhases'
    BY <1>6, LogBounds DEF LogHparams, TypeOfPhases, store, life, history, Goto
<1>7. ASSUME NEW r \in Runs, LogMetrics(r) PROVE TypeOfPhases'
    BY <1>7, LogBounds DEF LogMetrics, TypeOfPhases, life, history
<1>8. ASSUME NEW r \in Runs, ProcessEnds(r) PROVE TypeOfPhases'
    BY <1>8 DEF ProcessEnds, TypeOfPhases, life, history, Dies
<1>9. ASSUME NEW r \in Runs, CancelLogs(r) PROVE TypeOfPhases'
    BY <1>9 DEF CancelLogs, TypeOfPhases, store, life, history, Goto
<1>10. ASSUME NEW r \in Runs, CancelKills(r) PROVE TypeOfPhases'
  <2>1. CASE Dies(r)
    BY <1>10, <2>1 DEF CancelKills, Dies, TypeOfPhases, store, life, history
  <2>2. CASE UNCHANGED <<store, call, pc, proc, told, wrap, agg, roll, life, history, faults>>
    BY <1>10, <2>2 DEF CancelKills, TypeOfPhases, store, life, history
  <2> QED BY <1>10, <2>1, <2>2 DEF CancelKills
<1>11. ASSUME NEW r \in Runs, StartWrapup(r) PROVE TypeOfPhases'
    BY <1>11 DEF StartWrapup, TypeOfPhases, life, history, WrapOn
<1>12. ASSUME NEW r \in Runs, LogEnded(r) PROVE TypeOfPhases'
    BY <1>12 DEF LogEnded, TypeOfPhases, life, history, WrapOn
<1>13. ASSUME NEW r \in Runs, UpdateAtEnd(r) PROVE TypeOfPhases'
    BY <1>13 DEF UpdateAtEnd, TypeOfPhases, life, history, WrapOn
<1>14. ASSUME NEW r \in Runs, CaptureAfter(r) PROVE TypeOfPhases'
    BY <1>14 DEF CaptureAfter, TypeOfPhases, life, history, WrapOn
<1>15. ASSUME NEW r \in Runs, RunExitReads(r) PROVE TypeOfPhases'
    BY <1>15 DEF RunExitReads, TypeOfPhases, life, history, WrapOn
<1>16. ASSUME NEW r \in Runs, RunExitWrites(r) PROVE TypeOfPhases'
    BY <1>16 DEF RunExitWrites, TypeOfPhases, life, history, WrapOn
<1>17. ASSUME NEW r \in Runs, Mark(r) PROVE TypeOfPhases'
    BY <1>17 DEF Mark, TypeOfPhases, life, history, WrapOn
<1>18. ASSUME NEW r \in Runs, Crash(r) PROVE TypeOfPhases'
    BY <1>18 DEF Crash, TypeOfPhases, store, life, history, Goto
<1>19. ASSUME NEW r \in Runs, Reboot(r) PROVE TypeOfPhases'
    BY <1>19, LogBounds DEF Reboot, TypeOfPhases, store, life, history, Goto
<1>20. ASSUME NEW r \in Runs \cup Siblings, AllExists(r) PROVE TypeOfPhases'
    BY <1>20 DEF AllExists, TypeOfPhases, notAgg, life, history, AggOn, AggAt
<1>21. ASSUME NEW r \in Runs \cup Siblings, AllCreate(r) PROVE TypeOfPhases'
    BY <1>21 DEF AllCreate, TypeOfPhases, notAgg, life, history, AggOn, AggAt
<1>22. ASSUME NEW r \in Runs \cup Siblings, AllAppend(r) PROVE TypeOfPhases'
    BY <1>22 DEF AllAppend, TypeOfPhases, notAgg, life, history, AggOn, AggAt
<1>23. CASE UNCHANGED vars
  BY <1>23 DEF vars, TypeOfPhases, life, history
<1> QED BY <1>1, <1>2, <1>3, <1>4, <1>5, <1>6, <1>7, <1>8, <1>9, <1>10, <1>11, <1>12, <1>13,
           <1>14, <1>15, <1>16, <1>17, <1>18, <1>19, <1>20, <1>21, <1>22, <1>23 DEF Next,
           Launch, User, Cancel, Wrapup, Aggregate

LEMMA DiesHistory ==
  ASSUME NEW r \in Runs, TypeOfHistory, Dies(r) PROVE TypeOfHistory'
<1>1. At(r, "runstart") \in BOOLEAN
  BY DEF At
<1>2. hasty' = [hasty EXCEPT ![r] = At(r, "runstart")]
  BY DEF Dies
<1>3. hasty' \in [Runs -> BOOLEAN]
  BY <1>1, <1>2 DEF TypeOfHistory
<1> QED BY <1>3 DEF Dies, TypeOfHistory, store

LEMMA StepKeepsTypesOfHistory ==
  ASSUME TypeOfPhases, TypeOfDocument, TypeOfHistory, [Next]_vars PROVE TypeOfHistory'
<1>1. ASSUME NEW r \in Runs, NEW w \in Writers, Write(r, w) PROVE TypeOfHistory'
    BY <1>1 DEF Write, TypeOfHistory, store, life, history
<1>2. ASSUME NEW r \in Runs, Create(r) PROVE TypeOfHistory'
    BY <1>2 DEF Create, TypeOfHistory, store, life, history
<1>3. ASSUME NEW r \in Runs, Start(r) PROVE TypeOfHistory'
    BY <1>3 DEF Start, TypeOfHistory, store, life, history
<1>4. ASSUME NEW r \in Runs, Popen(r) PROVE TypeOfHistory'
    BY <1>4 DEF Popen, TypeOfHistory, store, life, history
<1>5. ASSUME NEW r \in Runs, RunStart(r) PROVE TypeOfHistory'
    BY <1>5 DEF RunStart, TypeOfHistory, store, life, history
<1>6. ASSUME NEW r \in Runs, LogHparams(r) PROVE TypeOfHistory'
    BY <1>6 DEF LogHparams, TypeOfHistory, store, life, history
<1>7. ASSUME NEW r \in Runs, LogMetrics(r) PROVE TypeOfHistory'
    BY <1>7 DEF LogMetrics, TypeOfHistory, store, life, history
<1>8. ASSUME NEW r \in Runs, ProcessEnds(r) PROVE TypeOfHistory'
  BY <1>8, DiesHistory DEF ProcessEnds
<1>9. ASSUME NEW r \in Runs, CancelLogs(r) PROVE TypeOfHistory'
    BY <1>9 DEF CancelLogs, TypeOfHistory, store, life, history
<1>10. ASSUME NEW r \in Runs, CancelKills(r) PROVE TypeOfHistory'
  <2>1. CASE Dies(r)
    BY <2>1, DiesHistory
  <2>2. CASE UNCHANGED <<all, beside, left, hasty>>
    BY <2>2 DEF TypeOfHistory
  <2> QED BY <1>10, <2>1, <2>2 DEF CancelKills, store, history
<1>11. ASSUME NEW r \in Runs, StartWrapup(r) PROVE TypeOfHistory'
    BY <1>11 DEF StartWrapup, TypeOfHistory, store, life, history
<1>12. ASSUME NEW r \in Runs, LogEnded(r) PROVE TypeOfHistory'
    BY <1>12 DEF LogEnded, TypeOfHistory, store, life, history
<1>13. ASSUME NEW r \in Runs, UpdateAtEnd(r) PROVE TypeOfHistory'
    BY <1>13 DEF UpdateAtEnd, TypeOfHistory, store, life, history
<1>14. ASSUME NEW r \in Runs, CaptureAfter(r) PROVE TypeOfHistory'
    BY <1>14 DEF CaptureAfter, TypeOfHistory, store, life, history
<1>15. ASSUME NEW r \in Runs, RunExitReads(r) PROVE TypeOfHistory'
    BY <1>15 DEF RunExitReads, TypeOfHistory, store, life, history
<1>16. ASSUME NEW r \in Runs, RunExitWrites(r) PROVE TypeOfHistory'
    BY <1>16 DEF RunExitWrites, TypeOfHistory, store, life, history
<1>17. ASSUME NEW r \in Runs, Mark(r) PROVE TypeOfHistory'
    BY <1>17 DEF Mark, TypeOfHistory, store, life, history
<1>18. ASSUME NEW r \in Runs, Crash(r) PROVE TypeOfHistory'
    BY <1>18 DEF Crash, TypeOfHistory, store, life, history, TypeOfDocument
<1>19. ASSUME NEW r \in Runs, Reboot(r) PROVE TypeOfHistory'
    BY <1>19 DEF Reboot, TypeOfHistory, store, life, history
<1>20. ASSUME NEW r \in Runs \cup Siblings, AllExists(r) PROVE TypeOfHistory'
    BY <1>20 DEF AllExists, TypeOfHistory, notAgg, history
<1>21. ASSUME NEW r \in Runs \cup Siblings, AllCreate(r) PROVE TypeOfHistory'
    BY <1>21 DEF AllCreate, TypeOfHistory, notAgg, history
<1>22. ASSUME NEW r \in Runs \cup Siblings, AllAppend(r) PROVE TypeOfHistory'
  <2>1. Try(r) \in Nat
    BY DEF TypeOfPhases, Try
  <2>2. all' \in [exists : BOOLEAN, runs : SUBSET ((Runs \cup Siblings) \X Nat)]
    BY <1>22, <2>1 DEF AllAppend, TypeOfHistory
  <2>3. {q \in DOMAIN agg : agg[q] = "create"} \subseteq Runs \cup Siblings
    BY DEF TypeOfPhases
  <2> QED BY <1>22, <2>1, <2>2, <2>3 DEF AllAppend, TypeOfHistory
<1>23. CASE UNCHANGED vars
  BY <1>23 DEF vars, TypeOfHistory, store, history
<1> QED BY <1>1, <1>2, <1>3, <1>4, <1>5, <1>6, <1>7, <1>8, <1>9, <1>10, <1>11, <1>12, <1>13,
           <1>14, <1>15, <1>16, <1>17, <1>18, <1>19, <1>20, <1>21, <1>22, <1>23 DEF Next,
           Launch, User, Cancel, Wrapup, Aggregate

LEMMA InitTypes == Init => TypeOK
<1> SUFFICES ASSUME Init PROVE TypeOK
  OBVIOUS
<1>1. TypeOfPhases
  BY LogBounds DEF Init, TypeOfPhases
<1>2. TypeOfCalls
  <2>1. \A r \in Runs : Record(r, "created") \in Records
    BY <1>1, RecordTypes DEF Names
  <2>2. \A r \in Runs : <<Record(r, "created")>> \in Seq(Records)
    BY <2>1
  <2>3. Quiet \in [Writers -> Seq(Entries)]
    BY DEF Quiet
  <2> QED BY <2>2, <2>3 DEF Init, TypeOfCalls
<1>3. TypeOfDocument
  BY DEF Init, TypeOfDocument, NoRoll, Rolls
<1>4. TypeOfHistory
  BY DEF Init, TypeOfHistory
<1> QED BY <1>1, <1>2, <1>3, <1>4, TypeParts

LEMMA StepKeepsTypes == TypeOK /\ [Next]_vars => TypeOK'
BY TypeParts, StepKeepsTypesOfCalls, StepKeepsTypesOfDocument, StepKeepsTypesOfPhases,
   StepKeepsTypesOfHistory DEF TypeOK, TypeOfCalls, TypeOfDocument, TypeOfPhases, TypeOfHistory,
   Entries

\* Every variable has its type.
THEOREM TypeCorrect == Spec => []TypeOK
<1>1. Init => TypeOK
  BY InitTypes
<1>2. TypeOK /\ [Next]_vars => TypeOK'
  BY StepKeepsTypes
<1> QED BY <1>1, <1>2, PTL DEF Spec

-----------------------------------------------------------------------------
(***************************************************************************)
(* The steps of one run                                                    *)
(***************************************************************************)

\* What one run's part of the invariant depends on.
StateOf(r) ==
  <<log[r], recs[r], doc[r], call[r], pc[r], proc[r], told[r], wrap[r], roll[r],
    attempt[r], cut[r], left[r], hasty[r], direct>>

OwnStep(r) == \/ \E w \in Writers : Write(r, w)
              \/ Launch(r) \/ User(r) \/ Cancel(r) \/ Wrapup(r) \/ Crash(r) \/ Reboot(r)

Domains ==
  /\ DOMAIN log = Runs /\ DOMAIN recs = Runs /\ DOMAIN doc = Runs /\ DOMAIN call = Runs
  /\ DOMAIN pc = Runs /\ DOMAIN proc = Runs /\ DOMAIN told = Runs /\ DOMAIN wrap = Runs
  /\ DOMAIN roll = Runs /\ DOMAIN attempt = Runs /\ DOMAIN cut = Runs
  /\ DOMAIN left = Runs /\ DOMAIN hasty = Runs /\ DOMAIN cancel = Runs
  /\ \A r \in Runs : DOMAIN call[r] = Writers

LEMMA TypedDomains == TypeOK => Domains
BY DEF TypeOK, Domains

\* A run's part of the invariant depends on nothing but its own state.
LEMMA Unchanged ==
  ASSUME NEW r, UNCHANGED StateOf(r)
  PROVE  RunInOrder(r) => RunInOrder(r)'
<1> USE DEF StateOf
<1>1. /\ log'[r] = log[r] /\ recs'[r] = recs[r] /\ doc'[r] = doc[r] /\ call'[r] = call[r]
      /\ pc'[r] = pc[r] /\ proc'[r] = proc[r] /\ told'[r] = told[r] /\ wrap'[r] = wrap[r]
      /\ roll'[r] = roll[r] /\ attempt'[r] = attempt[r] /\ cut'[r] = cut[r]
      /\ left'[r] = left[r] /\ hasty'[r] = hasty[r] /\ direct' = direct
  OBVIOUS
<1> HIDE DEF StateOf
<1>2. CallsAreEvents(r)' <=> CallsAreEvents(r)
  BY <1>1 DEF CallsAreEvents, Free, Rec
<1>3. WritersInOrder(r)' <=> WritersInOrder(r)
  BY <1>1 DEF WritersInOrder, Step, Rec, Free, Drawn, Controlled
<1>4. PhasesInOrder(r)' <=> PhasesInOrder(r)
  BY <1>1 DEF PhasesInOrder, LaunchInOrder, WorkerInOrder, UserInOrder, ReaderInOrder,
              NobodyWritesWhenDown, Step, Rec, Free, Controlled
<1>5. LogIsOrdered(r)' <=> LogIsOrdered(r)
  BY <1>1 DEF LogIsOrdered, Step, Free, Controlled, Drawn, Logged, HasOwn, Places
<1>6. EndIsOnce(r)' <=> EndIsOnce(r)
  BY <1>1 DEF EndIsOnce, Step, Rec, Free, HasOwn, Places
<1>7. RecordsInLog(r)' <=> RecordsInLog(r)
  BY <1>1 DEF RecordsInLog, Step, Rec, Free
<1>8. StatusInOrder(r)' <=> StatusInOrder(r)
  BY <1>1 DEF StatusInOrder, Step, Rec, Free, Controlled, Early, Kept
<1>9. TimesInOrder(r)' <=> TimesInOrder(r)
  BY <1>1 DEF TimesInOrder
<1>10. MetricsInOrder(r)' <=> MetricsInOrder(r)
  BY <1>1 DEF MetricsInOrder, Step, Rec, Free, IsLast, Has, RollUp, RollUpHparams, LastOf,
              Places, Valid
<1>11. EndedInOrder(r)' <=> EndedInOrder(r)
  BY <1>1 DEF EndedInOrder, Over, LastOf, Places, Drawn, Controlled
<1> QED BY <1>2, <1>3, <1>4, <1>5, <1>6, <1>7, <1>8, <1>9, <1>10, <1>11 DEF RunInOrder

\* A step of one run leaves the others alone.
LEMMA OtherRuns ==
  ASSUME NEW r \in Runs, NEW q \in Runs \ {r}, Domains, OwnStep(r)
  PROVE  UNCHANGED StateOf(q)
<1> USE DEF StateOf, Domains, store, life, history
<1>1. ASSUME NEW w \in Writers, Write(r, w) PROVE UNCHANGED StateOf(q)
    BY <1>1 DEF Write
<1>2. ASSUME Create(r) PROVE UNCHANGED StateOf(q)
    BY <1>2 DEF Create, Goto, Logs
<1>3. ASSUME Start(r) PROVE UNCHANGED StateOf(q)
    BY <1>3 DEF Start, Goto, Logs
<1>4. ASSUME Popen(r) PROVE UNCHANGED StateOf(q)
    BY <1>4 DEF Popen, Goto
<1>5. ASSUME RunStart(r) PROVE UNCHANGED StateOf(q)
    BY <1>5 DEF RunStart, Goto
<1>6. ASSUME LogHparams(r) PROVE UNCHANGED StateOf(q)
    BY <1>6 DEF LogHparams, Logs
<1>7. ASSUME LogMetrics(r) PROVE UNCHANGED StateOf(q)
    BY <1>7 DEF LogMetrics, Logs
<1>8. ASSUME ProcessEnds(r) PROVE UNCHANGED StateOf(q)
    BY <1>8 DEF ProcessEnds, Dies
<1>9. ASSUME CancelLogs(r) PROVE UNCHANGED StateOf(q)
    BY <1>9 DEF CancelLogs, Logs
<1>10. ASSUME CancelKills(r) PROVE UNCHANGED StateOf(q)
    BY <1>10 DEF CancelKills, Dies
<1>11. ASSUME StartWrapup(r) PROVE UNCHANGED StateOf(q)
    BY <1>11 DEF StartWrapup, WrapOn
<1>12. ASSUME LogEnded(r) PROVE UNCHANGED StateOf(q)
    BY <1>12 DEF LogEnded, Logs, WrapOn
<1>13. ASSUME UpdateAtEnd(r) PROVE UNCHANGED StateOf(q)
    BY <1>13 DEF UpdateAtEnd, WrapOn
<1>14. ASSUME CaptureAfter(r) PROVE UNCHANGED StateOf(q)
    BY <1>14 DEF CaptureAfter, Logs, WrapOn
<1>15. ASSUME RunExitReads(r) PROVE UNCHANGED StateOf(q)
    BY <1>15 DEF RunExitReads, WrapOn
<1>16. ASSUME RunExitWrites(r) PROVE UNCHANGED StateOf(q)
    BY <1>16 DEF RunExitWrites, WrapOn
<1>17. ASSUME Mark(r) PROVE UNCHANGED StateOf(q)
    BY <1>17 DEF Mark, WrapOn
<1>18. ASSUME Crash(r) PROVE UNCHANGED StateOf(q)
    BY <1>18 DEF Crash, Goto
<1>19. ASSUME Reboot(r) PROVE UNCHANGED StateOf(q)
    BY <1>19 DEF Reboot, Goto
<1> QED BY <1>1, <1>2, <1>3, <1>4, <1>5, <1>6, <1>7, <1>8, <1>9, <1>10, <1>11, <1>12, <1>13,
           <1>14, <1>15, <1>16, <1>17, <1>18, <1>19 DEF OwnStep, Launch, User, Cancel, Wrapup

\* What happens to one run in a step.
RunStep(r) == \/ \E w \in Writers : Write(r, w)
              \/ Launch(r) \/ LogHparams(r) \/ LogMetrics(r) \/ CancelLogs(r)
              \/ (proc[r] = "alive" /\ Dies(r))
              \/ Wrapup(r) \/ Crash(r) \/ Reboot(r)

\* To a run, every step is one of its own or none at all.
LEMMA StepOfOneRun ==
  ASSUME TypeOK, [Next]_vars, NEW r \in Runs
  PROVE  RunStep(r) \/ UNCHANGED StateOf(r)
<1>1. Domains
  BY TypedDomains
<1>2. ASSUME OwnStep(r) PROVE RunStep(r) \/ UNCHANGED StateOf(r)
  <2>1. CASE CancelKills(r)
    BY <2>1 DEF CancelKills, StateOf, RunStep, store, life, history
  <2> QED BY <1>2, <2>1 DEF OwnStep, RunStep, User, Cancel, ProcessEnds
<1>3. ASSUME NEW q \in Runs, OwnStep(q) PROVE OwnStep(r) \/ UNCHANGED StateOf(r)
  BY <1>1, <1>3, OtherRuns
<1>4. ASSUME NEW q \in Runs \cup Siblings, Aggregate(q) PROVE UNCHANGED StateOf(r)
  BY <1>4 DEF Aggregate, AllExists, AllCreate, AllAppend, notAgg, StateOf, history, life
<1>5. CASE UNCHANGED vars
  BY <1>5 DEF vars, StateOf, store, life, history
<1> QED BY <1>2, <1>3, <1>4, <1>5 DEF Next, OwnStep

-----------------------------------------------------------------------------
(***************************************************************************)
(* What each step does with the calls                                      *)
(***************************************************************************)

SameCall(r, w) == Step(r, w)' = Step(r, w) /\ Rec(r, w)' = Rec(r, w)

LEMMA CallUnchanged ==
  ASSUME NEW r, NEW w, call'[r][w] = call[r][w]
  PROVE  SameCall(r, w)
BY DEF SameCall, Step, Rec, Free

LEMMA CallsUnchanged ==
  ASSUME NEW r, call'[r] = call[r]
  PROVE  /\ \A w \in Writers : SameCall(r, w)
         /\ CallsAreEvents(r) => CallsAreEvents(r)'
<1>1. \A w \in Writers : SameCall(r, w)
  BY CallUnchanged
<1>2. CallsAreEvents(r) => CallsAreEvents(r)'
  BY DEF CallsAreEvents, Free, Rec
<1> QED BY <1>1, <1>2

LEMMA NothingToDo ==
  ASSUME NEW r, NEW w, call'[r][w] = <<>>
  PROVE  Step(r, w)' = "none"
BY DEF Step, Free

\* Beginning an event.
LEMMA CallsOfLogs ==
  ASSUME NEW r \in Runs, NEW w \in Writers, NEW rec, Domains, Logs(r, w, rec)
  PROVE  /\ Step(r, w) = "none" /\ Step(r, w)' = "log" /\ Rec(r, w)' = rec
         /\ \A v \in Writers \ {w} : SameCall(r, v)
         /\ CallsAreEvents(r) => CallsAreEvents(r)'
<1>1. Free(r, w) /\ call'[r][w] = LogEvent(rec)
      /\ \A v \in Writers \ {w} : call'[r][v] = call[r][v]
  BY DEF Logs, Domains
<1>2. LogEvent(rec) # <<>> /\ LogEvent(rec)[1] = Entry("log", rec)
      /\ LeftOf(LogEvent(rec), rec)
  BY LogEventIs
<1>3. Entry("log", rec).to = "log" /\ Entry("log", rec).rec = rec
  BY DEF Entry
<1>4. Step(r, w) = "none" /\ Step(r, w)' = "log" /\ Rec(r, w)' = rec
  BY <1>1, <1>2, <1>3 DEF Step, Rec, Free
<1>5. \A v \in Writers \ {w} : SameCall(r, v)
  BY <1>1, CallUnchanged
<1>6. ASSUME CallsAreEvents(r), NEW v \in Writers
      PROVE  Free(r, v)' \/ LeftOf(call'[r][v], Rec(r, v)')
  <2>1. CASE v = w
    BY <1>1, <1>2, <1>4, <2>1
  <2>2. CASE v # w
    BY <1>1, <1>6, <2>2 DEF CallsAreEvents, Free, Rec
  <2> QED BY <2>1, <2>2
<1>7. CallsAreEvents(r) => CallsAreEvents(r)'
  BY <1>6 DEF CallsAreEvents
<1> QED BY <1>4, <1>5, <1>7

\* Doing the next write of an event.
LEMMA CallsOfWrite ==
  ASSUME NEW r \in Runs, NEW w \in Writers, Domains, CallsAreEvents(r), Write(r, w)
  PROVE  /\ Step(r, w) \in {"log", "records", "doc"}
         /\ Step(r, w)' = Follows(Step(r, w), Rec(r, w))
         /\ Step(r, w)' # "none" => Rec(r, w)' = Rec(r, w)
         /\ Step(r, w) = "doc" => InDocument(Rec(r, w))
         /\ \A v \in Writers \ {w} : SameCall(r, v)
         /\ CallsAreEvents(r)'
         /\ IF Step(r, w) = "log" THEN log'[r] = Append(log[r], Rec(r, w))
            ELSE log'[r] = log[r]
         /\ IF Step(r, w) = "records"
            THEN \/ recs'[r] = Append(recs[r], Rec(r, w))
                 \/ recs'[r] = recs[r] \o <<Rec(r, w), Rec(r, w)>>
            ELSE recs'[r] = recs[r]
         /\ IF Step(r, w) = "doc" THEN doc'[r] = Updated(doc[r], Rec(r, w))
            ELSE doc'[r] = doc[r]
<1> DEFINE c == call[r][w]
           rec == Rec(r, w)
<1>1. ~Free(r, w) /\ LeftOf(c, rec) /\ call' = [call EXCEPT ![r][w] = Tail(@)]
  BY DEF Write, CallsAreEvents
<1>2. call'[r][w] = Tail(c) /\ \A v \in Writers \ {w} : call'[r][v] = call[r][v]
  BY <1>1 DEF Domains
<1>3. c # <<>> /\ Step(r, w) = c[1].to /\ Head(c) = c[1] /\ rec = c[1].rec
  BY <1>1, LeftOfTail DEF Step, Free, Rec
<1>4. \A v \in Writers \ {w} : SameCall(r, v)
  BY <1>2, CallUnchanged
<1> DEFINE next == Follows(Step(r, w), rec)
<1>5. /\ Step(r, w) \in {"log", "records", "doc"}
      /\ Step(r, w) = "doc" => InDocument(rec)
      /\ next = "none" => Tail(c) = <<>>
      /\ next # "none" =>
           Tail(c) # <<>> /\ Tail(c)[1] = Entry(next, rec) /\ LeftOf(Tail(c), rec)
  <2> DEFINE after == Follows(c[1].to, rec)
  <2>1. /\ c[1].to \in {"log", "records", "doc"} /\ (c[1].to = "doc" => InDocument(rec))
        /\ after = "none" => Tail(c) = <<>>
        /\ after # "none" =>
             Tail(c) # <<>> /\ Tail(c)[1] = Entry(after, rec) /\ LeftOf(Tail(c), rec)
    <3> HIDE DEF c, rec
    <3> QED BY <1>1, LeftOfTail
  <2>2. after = next
    BY <1>3
  <2> HIDE DEF c, rec, after, next
  <2> QED BY <1>3, <2>1, <2>2
<1>6. Entry(next, rec).to = next /\ Entry(next, rec).rec = rec
  BY DEF Entry
<1> HIDE DEF next
<1>7. Step(r, w)' = next /\ (next # "none" => Rec(r, w)' = rec)
  BY <1>2, <1>5, <1>6 DEF Step, Rec, Free
<1>8. CallsAreEvents(r)'
  <2> SUFFICES ASSUME NEW v \in Writers PROVE Free(r, v)' \/ LeftOf(call'[r][v], Rec(r, v)')
    BY DEF CallsAreEvents
  <2>1. CASE v = w /\ next = "none"
    BY <1>2, <1>5, <2>1 DEF Free
  <2>2. CASE v = w /\ next # "none"
    BY <1>2, <1>5, <1>7, <2>2
  <2>3. CASE v # w
    BY <1>2, <2>3 DEF CallsAreEvents, Free, Rec
  <2> QED BY <2>1, <2>2, <2>3
<1>9. /\ Step(r, w) = "log" => log' = [log EXCEPT ![r] = Append(@, rec)]
      /\ Step(r, w) # "log" => log' = log
      /\ Step(r, w) = "records" => \/ recs' = [recs EXCEPT ![r] = Append(@, rec)]
                                   \/ recs' = [recs EXCEPT ![r] = @ \o <<rec, rec>>]
      /\ Step(r, w) # "records" => recs' = recs
      /\ Step(r, w) = "doc" => doc' = [doc EXCEPT ![r] = Updated(@, rec)]
      /\ Step(r, w) # "doc" => doc' = doc
  BY <1>3 DEF Write
<1> HIDE DEF c, rec
<1>10. /\ IF Step(r, w) = "log" THEN log'[r] = Append(log[r], rec) ELSE log'[r] = log[r]
       /\ IF Step(r, w) = "records"
          THEN recs'[r] = Append(recs[r], rec) \/ recs'[r] = recs[r] \o <<rec, rec>>
          ELSE recs'[r] = recs[r]
       /\ IF Step(r, w) = "doc" THEN doc'[r] = Updated(doc[r], rec) ELSE doc'[r] = doc[r]
  BY <1>9 DEF Domains
<1> QED BY <1>4, <1>5, <1>7, <1>8, <1>10 DEF next, rec

\* The calls of a process that dies are gone.
LEMMA CallsOfDies ==
  ASSUME NEW r \in Runs, Domains, Dies(r)
  PROVE  /\ \A w \in Writers : IF w = "user" \/ ~Controlled(r) THEN Step(r, w)' = "none"
                              ELSE SameCall(r, w)
         /\ CallsAreEvents(r) => CallsAreEvents(r)'
<1> DEFINE W == IF Controlled(r) THEN {"user"} ELSE Writers
<1>1. \A w \in Writers : call'[r][w] = IF w \in W THEN <<>> ELSE call[r][w]
  BY DEF Dies, Domains
<1>2. \A w \in Writers : w \in W <=> w = "user" \/ ~Controlled(r)
  BY WriterNames
<1> HIDE DEF W
<1>3. \A w \in Writers : IF w \in W THEN Step(r, w)' = "none" ELSE SameCall(r, w)
  BY <1>1, CallUnchanged, NothingToDo
<1>4. CallsAreEvents(r) => CallsAreEvents(r)'
  BY <1>1 DEF CallsAreEvents, Free, Rec
<1> QED BY <1>2, <1>3, <1>4

LEMMA CallsOfCrash ==
  ASSUME NEW r \in Runs, Domains, Crash(r)
  PROVE  (\A w \in Writers : Step(r, w)' = "none") /\ CallsAreEvents(r)'
<1>1. \A w \in Writers : call'[r][w] = <<>>
  BY DEF Crash, Domains, Quiet
<1> QED BY <1>1, NothingToDo DEF CallsAreEvents, Free

\* The steps that leave every call of their run alone.
LEMMA CallsOfOthers ==
  ASSUME NEW r \in Runs,
         Popen(r) \/ RunStart(r) \/ StartWrapup(r) \/ UpdateAtEnd(r) \/ RunExitReads(r)
           \/ RunExitWrites(r) \/ Mark(r) \/ Reboot(r)
  PROVE  /\ \A w \in Writers : SameCall(r, w)
         /\ CallsAreEvents(r) => CallsAreEvents(r)'
<1>1. call' = call
  BY DEF Popen, RunStart, StartWrapup, UpdateAtEnd, RunExitReads, RunExitWrites, Mark, Reboot
<1> QED BY <1>1, CallsUnchanged

-----------------------------------------------------------------------------
(***************************************************************************)
(* What each step does with the rest of its run                            *)
(***************************************************************************)

LEMMA CallsAfterWrite ==
  ASSUME NEW r \in Runs, NEW w \in Writers, Domains, CallsAreEvents(r), Write(r, w)
  PROVE  \A v \in Writers : Step(r, v)' # "none" => Step(r, v) # "none" /\ Rec(r, v)' = Rec(r, v)
BY CallsOfWrite DEF SameCall

\* The values the proofs split on.
LEMMA PhaseTypes ==
  ASSUME NEW r \in Runs, TypeOK
  PROVE  /\ pc[r] \in {"create", "start", "popen", "runstart", "launched", "down"}
         /\ proc[r] \in {"none", "alive", "dead"}
         /\ wrap[r] \in {"no", "all", "update", "capture", "exit", "duration", "done", "marked"}
         /\ told[r] \in Nat /\ attempt[r] \in Nat \ {0} /\ hasty[r] \in BOOLEAN
BY DEF TypeOK

\* A writer begins an event.
Begins(r, w) == /\ Step(r, w) = "none" /\ Step(r, w)' = "log"
                /\ \A v \in Writers \ {w} : SameCall(r, v)

LEMMA BeginsToLog ==
  ASSUME NEW r \in Runs, NEW w \in Writers, NEW rec, Domains, Logs(r, w, rec)
  PROVE  Begins(r, w) /\ Rec(r, w)' = rec
BY CallsOfLogs DEF Begins

LEMMA WriteDoes ==
  ASSUME NEW r \in Runs, NEW w \in Writers, Write(r, w)
  PROVE  UNCHANGED <<cut[r], left[r], pc[r], proc[r], told[r], wrap[r], roll[r], hasty[r],
                     attempt[r], direct>>
BY DEF Write, life, history

\* For every action: its guard, and what it changes of its run.
LEMMA CreateDoes ==
  ASSUME NEW r \in Runs, TypeOK, Domains, Create(r)
  PROVE  /\ pc[r] = "create"
         /\ Begins(r, "worker")
         /\ Rec(r, "worker")'.event = "created"
         /\ Rec(r, "worker")'.try = attempt[r]
         /\ Rec(r, "worker")' \in Records
         /\ pc'[r] = "start"
         /\ doc'[r].status = IF doc[r].status = "none" THEN "created" ELSE doc[r].status
         /\ doc'[r].hparams = doc[r].hparams
         /\ doc'[r].metrics = doc[r].metrics
         /\ doc'[r].start = doc[r].start
         /\ doc'[r].duration = doc[r].duration
         /\ UNCHANGED <<log[r], recs[r], cut[r], left[r], proc[r], told[r], wrap[r],
                         roll[r], hasty[r], attempt[r], direct>>
<1>1. Logs(r, "worker", Record(r, "created"))
  BY DEF Create
<1>2. Begins(r, "worker") /\ Rec(r, "worker")' = Record(r, "created")
  BY <1>1, BeginsToLog, WriterNames
<1>3. Record(r, "created") \in Records
  BY RecordTypes, TypeParts DEF Names
<1>4. Rec(r, "worker")'.event = "created" /\ Rec(r, "worker")'.try = attempt[r]
  BY <1>2 DEF Record, DataRecord
<1>5. doc[r] \in Docs /\ doc \in [Runs -> Docs]
  BY DocumentTypes, TypeParts
<1> QED BY <1>2, <1>3, <1>4, <1>5 DEF Docs, Create, Domains, store, life, history, At, Goto

LEMMA StartDoes ==
  ASSUME NEW r \in Runs, TypeOK, Domains, Start(r)
  PROVE  /\ pc[r] = "start"
         /\ Begins(r, "worker")
         /\ Rec(r, "worker")'.event =
              (IF attempt[r] > 1 /\ Controlled(r) THEN "restarted" ELSE "started")
         /\ Rec(r, "worker")'.try = attempt[r]
         /\ Rec(r, "worker")' \in Records
         /\ pc'[r] = IF Controlled(r) THEN "popen" ELSE "runstart"
         /\ proc'[r] = IF Controlled(r) THEN proc[r] ELSE "alive"
         /\ doc'[r] = doc[r]
         /\ UNCHANGED <<log[r], recs[r], cut[r], left[r], told[r], wrap[r], roll[r],
                         hasty[r], attempt[r], direct>>
<1>1. Logs(r, "worker",
           Record(r, IF attempt[r] > 1 /\ Controlled(r) THEN "restarted" ELSE "started"))
  BY DEF Start
<1>2. /\ Begins(r, "worker")
      /\ Rec(r, "worker")' =
           Record(r, IF attempt[r] > 1 /\ Controlled(r) THEN "restarted" ELSE "started")
  BY <1>1, BeginsToLog, WriterNames
<1>3. Record(r, IF attempt[r] > 1 /\ Controlled(r) THEN "restarted" ELSE "started") \in Records
  BY RecordTypes, TypeParts DEF Names
<1>4. /\ Rec(r, "worker")'.event =
           (IF attempt[r] > 1 /\ Controlled(r) THEN "restarted" ELSE "started")
      /\ Rec(r, "worker")'.try = attempt[r]
  BY <1>2 DEF Record, DataRecord
<1> QED BY <1>2, <1>3, <1>4 DEF Start, Domains, store, life, history, At, Goto, Controlled

LEMMA PopenDoes ==
  ASSUME NEW r \in Runs, TypeOK, Domains, Popen(r)
  PROVE  /\ pc[r] = "popen"
         /\ Step(r, "worker") = "none"
         /\ \A w \in Writers : SameCall(r, w)
         /\ pc'[r] = "runstart"
         /\ proc'[r] = "alive"
         /\ doc'[r] = doc[r]
         /\ UNCHANGED <<log[r], recs[r], cut[r], left[r], told[r], wrap[r], roll[r],
                         hasty[r], attempt[r], direct>>
<1>1. \A w \in Writers : SameCall(r, w)
  BY CallsOfOthers
<1> QED BY <1>1 DEF Popen, Domains, store, life, history, At, Goto, Step

LEMMA RunStartDoes ==
  ASSUME NEW r \in Runs, TypeOK, Domains, RunStart(r)
  PROVE  /\ pc[r] = "runstart"
         /\ Step(r, "worker") = "none"
         /\ Controlled(r) \/ proc[r] = "alive"
         /\ \A w \in Writers : SameCall(r, w)
         /\ pc'[r] = "launched"
         /\ doc'[r].status = doc[r].status
         /\ doc'[r].hparams = doc[r].hparams
         /\ doc'[r].metrics = doc[r].metrics
         /\ doc'[r].start = attempt[r]
         /\ doc'[r].duration = doc[r].duration
         /\ UNCHANGED <<log[r], recs[r], cut[r], left[r], proc[r], told[r], wrap[r],
                         roll[r], hasty[r], attempt[r], direct>>
<1>1. \A w \in Writers : SameCall(r, w)
  BY CallsOfOthers
<1>2. doc[r] \in Docs /\ doc \in [Runs -> Docs]
  BY DocumentTypes, TypeParts
<1> QED BY <1>1, <1>2 DEF Docs, RunStart, Domains, store, life, history, At, Goto, Step

LEMMA LogHparamsDoes ==
  ASSUME NEW r \in Runs, TypeOK, Domains, LogHparams(r)
  PROVE  /\ proc[r] = "alive" /\ wrap[r] = "no" /\ (r \in direct => pc[r] = "launched")
         /\ told[r] = 0
         /\ Begins(r, "user")
         /\ Rec(r, "user")'.event = "hparams"
         /\ Rec(r, "user")'.try = attempt[r]
         /\ Rec(r, "user")' \in Records
         /\ Rec(r, "user")'.n = Drawn(r, attempt[r])
         /\ told'[r] = 1
         /\ doc'[r] = doc[r]
         /\ UNCHANGED <<log[r], recs[r], cut[r], left[r], pc[r], proc[r], wrap[r], roll[r],
                         hasty[r], attempt[r], direct>>
<1>1. Logs(r, "user", DataRecord(r, "hparams", Drawn(r, attempt[r]), FALSE))
  BY DEF LogHparams
<1>2. Begins(r, "user") /\ Rec(r, "user")' = DataRecord(r, "hparams", Drawn(r, attempt[r]), FALSE)
  BY <1>1, BeginsToLog, WriterNames
<1>3. Drawn(r, attempt[r]) \in Nat
  BY RecordTypes, TypeParts
<1>4. DataRecord(r, "hparams", Drawn(r, attempt[r]), FALSE) \in Records
  BY <1>3, RecordTypes, TypeParts DEF Names
<1>5. /\ Rec(r, "user")'.event = "hparams" /\ Rec(r, "user")'.try = attempt[r]
      /\ Rec(r, "user")'.n = Drawn(r, attempt[r])
  BY <1>2 DEF DataRecord
<1> QED BY <1>2, <1>4, <1>5 DEF LogHparams, Domains, store, life, history, Logging, At

LEMMA LogMetricsDoes ==
  ASSUME NEW r \in Runs, TypeOK, Domains, LogMetrics(r)
  PROVE  /\ proc[r] = "alive" /\ wrap[r] = "no" /\ (r \in direct => pc[r] = "launched")
         /\ told[r] > 0
         /\ Begins(r, "user")
         /\ Rec(r, "user")'.event = "metrics"
         /\ Rec(r, "user")'.try = attempt[r]
         /\ Rec(r, "user")' \in Records
         /\ told'[r] = told[r] + 1
         /\ doc'[r] = doc[r]
         /\ UNCHANGED <<log[r], recs[r], cut[r], left[r], pc[r], proc[r], wrap[r], roll[r],
                         hasty[r], attempt[r], direct>>
<1>1. PICK zero \in BOOLEAN : Logs(r, "user", DataRecord(r, "metrics", told[r], zero))
  BY DEF LogMetrics
<1>2. Begins(r, "user") /\ Rec(r, "user")' = DataRecord(r, "metrics", told[r], zero)
  BY <1>1, BeginsToLog, WriterNames
<1>3. told[r] \in Nat
  BY DEF TypeOK
<1>4. DataRecord(r, "metrics", told[r], zero) \in Records
  BY <1>3, RecordTypes, TypeParts DEF Names
<1>5. Rec(r, "user")'.event = "metrics" /\ Rec(r, "user")'.try = attempt[r]
  BY <1>2 DEF DataRecord
<1> QED BY <1>2, <1>4, <1>5 DEF LogMetrics, Domains, store, life, history, Logging, At

LEMMA DiesDoes ==
  ASSUME NEW r \in Runs, TypeOK, Domains, proc[r] = "alive", Dies(r)
  PROVE  /\ proc[r] = "alive"
         /\ Step(r, "user")' = "none"
         /\ \A w \in Writers :
              IF Controlled(r) /\ w # "user" THEN SameCall(r, w) ELSE Step(r, w)' = "none"
         /\ proc'[r] = "dead"
         /\ cut'[r] = cut[r] \cup CutShort(r, IF Controlled(r) THEN {"user"} ELSE Writers)
         /\ hasty'[r] <=> (pc[r] = "runstart")
         /\ doc'[r] = doc[r]
         /\ UNCHANGED <<log[r], recs[r], left[r], pc[r], told[r], wrap[r], roll[r],
                         attempt[r], direct>>
<1>1. \A w \in Writers :
        IF Controlled(r) /\ w # "user" THEN SameCall(r, w) ELSE Step(r, w)' = "none"
  BY CallsOfDies
<1>2. hasty \in [Runs -> BOOLEAN]
  BY DEF TypeOK
<1> QED BY <1>1, WriterNames, <1>2 DEF Dies, Domains, store, life, history, At

LEMMA CancelLogsDoes ==
  ASSUME NEW r \in Runs, TypeOK, Domains, CancelLogs(r)
  PROVE  /\ proc[r] = "alive"
         /\ Begins(r, "cancel")
         /\ Rec(r, "cancel")'.event = "cancelled"
         /\ Rec(r, "cancel")'.try = attempt[r]
         /\ Rec(r, "cancel")' \in Records
         /\ doc'[r] = doc[r]
         /\ UNCHANGED <<log[r], recs[r], cut[r], left[r], pc[r], proc[r], told[r], wrap[r],
                         roll[r], hasty[r], attempt[r], direct>>
<1>1. Logs(r, "cancel", Record(r, "cancelled"))
  BY DEF CancelLogs
<1>2. Begins(r, "cancel") /\ Rec(r, "cancel")' = Record(r, "cancelled")
  BY <1>1, BeginsToLog, WriterNames
<1>3. Record(r, "cancelled") \in Records
  BY RecordTypes, TypeParts DEF Names
<1>4. Rec(r, "cancel")'.event = "cancelled" /\ Rec(r, "cancel")'.try = attempt[r]
  BY <1>2 DEF Record, DataRecord
<1> QED BY <1>2, <1>3, <1>4 DEF CancelLogs, Domains, store, life, history

LEMMA StartWrapupDoes ==
  ASSUME NEW r \in Runs, TypeOK, Domains, StartWrapup(r)
  PROVE  /\ wrap[r] = "no" /\ IF Controlled(r) THEN pc[r] # "down" ELSE proc[r] = "alive"
         /\ IF Controlled(r) THEN proc[r] = "dead"
            ELSE pc[r] = "launched" /\ Step(r, "user") = "none"
         /\ \A w \in Writers : SameCall(r, w)
         /\ wrap'[r] = "all"
         /\ doc'[r] = doc[r]
         /\ UNCHANGED <<log[r], recs[r], cut[r], left[r], pc[r], proc[r], told[r], roll[r],
                         hasty[r], attempt[r], direct>>
<1>1. \A w \in Writers : SameCall(r, w)
  BY CallsOfOthers
<1> QED BY <1>1 DEF StartWrapup, Domains, store, life, history, WrapAt, WrapOn, At, Step

LEMMA LogEndedDoes ==
  ASSUME NEW r \in Runs, TypeOK, Domains, LogEnded(r)
  PROVE  /\ wrap[r] = "all" /\ IF Controlled(r) THEN pc[r] # "down" ELSE proc[r] = "alive"
         /\ agg[r] = "in"
         /\ roll'[r].metrics = RollUp(r) /\ roll'[r].hparams = RollUpHparams(r)
         /\ Begins(r, "reader")
         /\ Rec(r, "reader")'.event = "ended"
         /\ Rec(r, "reader")'.try = attempt[r]
         /\ Rec(r, "reader")' \in Records
         /\ wrap'[r] = "update"
         /\ doc'[r] = doc[r]
         /\ UNCHANGED <<log[r], recs[r], cut[r], left[r], pc[r], proc[r], told[r], hasty[r],
                         attempt[r], direct>>
<1>1. Logs(r, "reader", Record(r, "ended"))
  BY DEF LogEnded
<1>2. Begins(r, "reader") /\ Rec(r, "reader")' = Record(r, "ended")
  BY <1>1, BeginsToLog, WriterNames
<1>3. Record(r, "ended") \in Records
  BY RecordTypes, TypeParts DEF Names
<1>4. Rec(r, "reader")'.event = "ended" /\ Rec(r, "reader")'.try = attempt[r]
  BY <1>2 DEF Record, DataRecord
<1>5. roll \in [Runs -> Ends]
  BY DocumentTypes, TypeParts
<1> QED BY <1>2, <1>3, <1>4, <1>5 DEF Ends, LogEnded, Domains, store, life, history, WrapAt,
  WrapOn

LEMMA UpdateAtEndDoes ==
  ASSUME NEW r \in Runs, TypeOK, Domains, UpdateAtEnd(r)
  PROVE  /\ wrap[r] = "update" /\ IF Controlled(r) THEN pc[r] # "down" ELSE proc[r] = "alive"
         /\ Step(r, "reader") = "none"
         /\ \A w \in Writers : SameCall(r, w)
         /\ wrap'[r] = "capture"
         /\ doc'[r].status = "ended"
         /\ doc'[r].hparams = IF roll[r].hparams = 0 THEN doc[r].hparams ELSE roll[r].hparams
         /\ doc'[r].metrics =
              IF roll[r].metrics = NoMetrics THEN doc[r].metrics ELSE roll[r].metrics
         /\ doc'[r].start = doc[r].start
         /\ doc'[r].duration = doc[r].duration
         /\ UNCHANGED <<log[r], recs[r], cut[r], left[r], pc[r], proc[r], told[r], roll[r],
                         hasty[r], attempt[r], direct>>
<1>1. \A w \in Writers : SameCall(r, w)
  BY CallsOfOthers
<1>2. doc[r] \in Docs /\ roll[r] \in Ends
  BY DocumentTypes, TypeParts
<1>3. doc'[r] = Ended(doc[r], roll[r])
  BY DEF UpdateAtEnd, Domains
<1>4. /\ doc'[r].status = "ended"
      /\ doc'[r].hparams = IF roll[r].hparams = 0 THEN doc[r].hparams ELSE roll[r].hparams
      /\ doc'[r].metrics = IF roll[r].metrics = NoMetrics THEN doc[r].metrics ELSE roll[r].metrics
      /\ doc'[r].start = doc[r].start /\ doc'[r].duration = doc[r].duration
  BY <1>2, <1>3, EndedDocument
<1> QED BY <1>1, <1>4 DEF UpdateAtEnd, Domains, store, life, history, WrapAt, WrapOn, Step

LEMMA CaptureAfterDoes ==
  ASSUME NEW r \in Runs, TypeOK, Domains, CaptureAfter(r)
  PROVE  /\ wrap[r] = "capture" /\ IF Controlled(r) THEN pc[r] # "down" ELSE proc[r] = "alive"
         /\ Begins(r, "reader")
         /\ Rec(r, "reader")'.event = "capture_after"
         /\ Rec(r, "reader")'.try = attempt[r]
         /\ Rec(r, "reader")' \in Records
         /\ wrap'[r] = "exit"
         /\ doc'[r] = doc[r]
         /\ UNCHANGED <<log[r], recs[r], cut[r], left[r], pc[r], proc[r], told[r], roll[r],
                         hasty[r], attempt[r], direct>>
<1>1. Logs(r, "reader", Record(r, "capture_after"))
  BY DEF CaptureAfter
<1>2. Begins(r, "reader") /\ Rec(r, "reader")' = Record(r, "capture_after")
  BY <1>1, BeginsToLog, WriterNames
<1>3. Record(r, "capture_after") \in Records
  BY RecordTypes, TypeParts DEF Names
<1>4. Rec(r, "reader")'.event = "capture_after" /\ Rec(r, "reader")'.try = attempt[r]
  BY <1>2 DEF Record, DataRecord
<1> QED BY <1>2, <1>3, <1>4 DEF CaptureAfter, Domains, store, life, history, WrapAt, WrapOn

LEMMA RunExitReadsDoes ==
  ASSUME NEW r \in Runs, TypeOK, Domains, RunExitReads(r)
  PROVE  /\ wrap[r] = "exit" /\ IF Controlled(r) THEN pc[r] # "down" ELSE proc[r] = "alive"
         /\ Step(r, "reader") = "none"
         /\ roll'[r].start = doc[r].start
         /\ \A w \in Writers : SameCall(r, w)
         /\ wrap'[r] = IF doc[r].start = 0 THEN "done" ELSE "duration"
         /\ doc'[r] = doc[r]
         /\ UNCHANGED <<log[r], recs[r], cut[r], left[r], pc[r], proc[r], told[r], hasty[r],
                         attempt[r], direct>>
<1>1. \A w \in Writers : SameCall(r, w)
  BY CallsOfOthers
<1>2. roll \in [Runs -> Ends]
  BY DocumentTypes, TypeParts
<1> QED BY <1>1, <1>2 DEF Ends, RunExitReads, Domains, store, life, history, WrapAt, WrapOn,
  Step

LEMMA RunExitWritesDoes ==
  ASSUME NEW r \in Runs, TypeOK, Domains, RunExitWrites(r)
  PROVE  /\ wrap[r] = "duration" /\ IF Controlled(r) THEN pc[r] # "down" ELSE proc[r] = "alive"
         /\ \A w \in Writers : SameCall(r, w)
         /\ wrap'[r] = "done"
         /\ doc'[r].status = doc[r].status
         /\ doc'[r].hparams = doc[r].hparams
         /\ doc'[r].metrics = doc[r].metrics
         /\ doc'[r].start = doc[r].start
         /\ doc'[r].duration = roll[r].start
         /\ UNCHANGED <<log[r], recs[r], cut[r], left[r], pc[r], proc[r], told[r], roll[r],
                         hasty[r], attempt[r], direct>>
<1>1. \A w \in Writers : SameCall(r, w)
  BY CallsOfOthers
<1>2. doc[r] \in Docs /\ doc \in [Runs -> Docs]
  BY DocumentTypes, TypeParts
<1> QED BY <1>1, <1>2 DEF Docs, RunExitWrites, Domains, store, life, history, WrapAt, WrapOn

LEMMA MarkDoes ==
  ASSUME NEW r \in Runs, TypeOK, Domains, Mark(r)
  PROVE  /\ wrap[r] = "done" /\ IF Controlled(r) THEN pc[r] # "down" ELSE proc[r] = "alive"
         /\ \A w \in Writers : SameCall(r, w)
         /\ wrap'[r] = "marked"
         /\ doc'[r] = doc[r]
         /\ UNCHANGED <<log[r], recs[r], cut[r], left[r], pc[r], proc[r], told[r], roll[r],
                         hasty[r], attempt[r], direct>>
<1>1. \A w \in Writers : SameCall(r, w)
  BY CallsOfOthers
<1> QED BY <1>1 DEF Mark, Domains, store, life, history, WrapAt, WrapOn

LEMMA CrashDoes ==
  ASSUME NEW r \in Runs, TypeOK, Domains, Crash(r)
  PROVE  /\ pc[r] # "down"
         /\ \A w \in Writers : Step(r, w)' = "none"
         /\ pc'[r] = "down"
         /\ proc'[r] = "none"
         /\ cut'[r] = cut[r] \cup CutShort(r, Writers)
         /\ left'[r] = doc[r].status
         /\ doc'[r] = doc[r]
         /\ UNCHANGED <<log[r], recs[r], told[r], wrap[r], roll[r], hasty[r], attempt[r],
                         direct>>
<1>1. \A w \in Writers : Step(r, w)' = "none"
  BY CallsOfCrash
<1> QED BY <1>1 DEF Crash, Domains, store, life, history, At, Goto

LEMMA RebootDoes ==
  ASSUME NEW r \in Runs, TypeOK, Domains, Reboot(r)
  PROVE  /\ pc[r] = "down"
         /\ \A w \in Writers : SameCall(r, w)
         /\ pc'[r] = IF Controlled(r) THEN "create" ELSE "start"
         /\ told'[r] = 0
         /\ wrap'[r] = "no"
         /\ roll'[r] = NoRoll
         /\ ~hasty'[r]
         /\ attempt'[r] = attempt[r] + 1
         /\ doc'[r] = doc[r]
         /\ UNCHANGED <<log[r], recs[r], cut[r], left[r], proc[r], direct>>
<1>1. \A w \in Writers : SameCall(r, w)
  BY CallsOfOthers
<1>2. roll \in [Runs -> Ends]
  BY DocumentTypes, TypeParts
<1>3. hasty \in [Runs -> BOOLEAN]
  BY DEF TypeOK
<1> QED BY <1>1, <1>2, <1>3 DEF Ends, Reboot, Domains, store, life, history, At, Goto
-----------------------------------------------------------------------------
(***************************************************************************)
(* Writers, launch and wrapup                                              *)
(***************************************************************************)

\* Every step keeps a writer to records of its own kind and attempt.
LEMMA WritersKeepOrder ==
  ASSUME NEW r \in Runs, TypeOK, Domains, CallsAreEvents(r), WritersInOrder(r),
         PhasesInOrder(r), RunStep(r)
  PROVE  WritersInOrder(r)'
<1> DEFINE Fits(w, rec) ==
      /\ rec \in Records /\ rec.event \in Kinds(w) /\ rec.try = attempt[r]
      /\ rec.event = "hparams" => rec.n = Drawn(r, attempt[r])
<1>1. ASSUME NEW w \in Writers, Step(r, w) # "none" PROVE Fits(w, Rec(r, w))
  BY <1>1 DEF WritersInOrder
<1>2. ASSUME NEW w \in Writers, NEW rec, Fits(w, rec), Logs(r, w, rec),
             UNCHANGED <<attempt, direct>>
      PROVE  WritersInOrder(r)'
  <2>1. Step(r, w)' = "log" /\ Rec(r, w)' = rec /\ \A v \in Writers \ {w} : SameCall(r, v)
    BY <1>2, CallsOfLogs
  <2> HIDE DEF Fits
  <2>2. \A v \in Writers : Step(r, v)' # "none" => Fits(v, Rec(r, v)')
    BY <1>1, <1>2, <2>1 DEF SameCall
  <2>3. attempt' = attempt /\ direct' = direct
    BY <1>2
  <2> QED BY <2>2, <2>3 DEF Fits, WritersInOrder, Drawn, Controlled
<1>3. ASSUME UNCHANGED <<attempt, direct>>,
             \A w \in Writers : Step(r, w)' # "none" =>
               Step(r, w) # "none" /\ Rec(r, w)' = Rec(r, w)
      PROVE  WritersInOrder(r)'
  <2> HIDE DEF Fits
  <2>1. \A v \in Writers : Step(r, v)' # "none" => Fits(v, Rec(r, v)')
    BY <1>1, <1>3
  <2>2. attempt' = attempt /\ direct' = direct
    BY <1>3
  <2> QED BY <2>1, <2>2 DEF Fits, WritersInOrder, Drawn, Controlled
<1>4. \A event \in Names : Record(r, event) \in Records /\ Record(r, event).event = event
                           /\ Record(r, event).try = attempt[r]
  BY RecordTypes, TypeParts DEF Record, DataRecord
<1>5. \A event \in Names, n \in Nat, zero \in BOOLEAN :
        /\ DataRecord(r, event, n, zero) \in Records
        /\ DataRecord(r, event, n, zero).event = event
        /\ DataRecord(r, event, n, zero).try = attempt[r]
        /\ DataRecord(r, event, n, zero).n = n
  BY RecordTypes, TypeParts DEF DataRecord
<1>6. /\ \A event \in {"created", "started", "restarted"} : Fits("worker", Record(r, event))
      /\ Fits("cancel", Record(r, "cancelled"))
      /\ \A event \in {"ended", "capture_after"} : Fits("reader", Record(r, event))
  BY <1>4 DEF Kinds, Names
<1>7. Fits("user", DataRecord(r, "hparams", Drawn(r, attempt[r]), FALSE))
  <2>1. Drawn(r, attempt[r]) \in Nat
    BY RecordTypes, TypeParts
  <2>2. "hparams" \in Names /\ FALSE \in BOOLEAN
    BY DEF Names
  <2>3. "hparams" \in Kinds("user")
    BY DEF Kinds
  <2> HIDE DEF Names, Kinds
  <2> QED BY <1>5, <2>1, <2>2, <2>3
<1>8. \A n \in Nat, zero \in BOOLEAN : Fits("user", DataRecord(r, "metrics", n, zero))
  BY <1>5 DEF Kinds, Names
<1>9. ASSUME NEW w \in Writers, Write(r, w) PROVE WritersInOrder(r)'
  BY <1>3, <1>9, CallsOfWrite DEF Write, life, SameCall
<1> HIDE DEF Fits
<1>10. CASE Create(r)
  BY <1>2, <1>6, <1>10, WriterNames DEF Create, life
<1>11. CASE Start(r)
  BY <1>2, <1>6, <1>11, WriterNames DEF Start, life
<1>12. CASE LogHparams(r)
  BY <1>2, <1>7, <1>12, WriterNames DEF LogHparams, life
<1>13. CASE LogMetrics(r)
  <2>1. told[r] \in Nat
    BY DEF TypeOK
  <2> QED BY <1>2, <1>8, <1>13, <2>1, WriterNames DEF LogMetrics, life
<1>14. CASE CancelLogs(r)
  BY <1>2, <1>6, <1>14, WriterNames DEF CancelLogs, life
<1>15. CASE LogEnded(r)
  BY <1>2, <1>6, <1>15, WriterNames DEF LogEnded, life
<1>16. CASE CaptureAfter(r)
  BY <1>2, <1>6, <1>16, WriterNames DEF CaptureAfter, life
<1>17. CASE Dies(r)
  BY <1>3, <1>17, CallsOfDies DEF Dies, life, SameCall
<1>18. CASE Crash(r)
  BY <1>3, <1>18, CallsOfCrash DEF Crash, life
<1>19. CASE Reboot(r)
  <2>1. \A w \in Writers : Step(r, w)' = "none"
    BY <1>19, CallsOfOthers DEF Reboot, At, PhasesInOrder, NobodyWritesWhenDown, SameCall
  <2> QED BY <2>1 DEF WritersInOrder
<1>20. CASE Popen(r) \/ RunStart(r) \/ StartWrapup(r) \/ UpdateAtEnd(r) \/ RunExitReads(r)
              \/ RunExitWrites(r) \/ Mark(r)
  BY <1>3, <1>20, CallsOfOthers
     DEF SameCall, life, Popen, RunStart, StartWrapup, UpdateAtEnd, RunExitReads,
         RunExitWrites, Mark
<1> QED BY <1>9, <1>10, <1>11, <1>12, <1>13, <1>14, <1>15, <1>16, <1>17, <1>18, <1>19,
           <1>20 DEF RunStep, Launch, Wrapup

\* Every step keeps launch, process and wrapup in step.
LEMMA LaunchKeepsOrder ==
  ASSUME NEW r \in Runs, TypeOK, Domains, LaunchInOrder(r), RunStep(r)
  PROVE  LaunchInOrder(r)'
<1> USE PhaseTypes DEF Controlled, LaunchInOrder
<1>1. ASSUME NEW w \in Writers, Write(r, w) PROVE LaunchInOrder(r)'
    BY <1>1, WriteDoes
<1>2. ASSUME Create(r) PROVE LaunchInOrder(r)'
    BY <1>2, CreateDoes
<1>3. ASSUME Start(r) PROVE LaunchInOrder(r)'
    BY <1>3, StartDoes
<1>4. ASSUME Popen(r) PROVE LaunchInOrder(r)'
    BY <1>4, PopenDoes
<1>5. ASSUME RunStart(r) PROVE LaunchInOrder(r)'
    BY <1>5, RunStartDoes
<1>6. ASSUME LogHparams(r) PROVE LaunchInOrder(r)'
    BY <1>6, LogHparamsDoes
<1>7. ASSUME LogMetrics(r) PROVE LaunchInOrder(r)'
    BY <1>7, LogMetricsDoes
<1>8. ASSUME proc[r] = "alive", Dies(r) PROVE LaunchInOrder(r)'
    BY <1>8, DiesDoes
<1>9. ASSUME CancelLogs(r) PROVE LaunchInOrder(r)'
    BY <1>9, CancelLogsDoes
<1>10. ASSUME StartWrapup(r) PROVE LaunchInOrder(r)'
    BY <1>10, StartWrapupDoes
<1>11. ASSUME LogEnded(r) PROVE LaunchInOrder(r)'
    BY <1>11, LogEndedDoes
<1>12. ASSUME UpdateAtEnd(r) PROVE LaunchInOrder(r)'
    BY <1>12, UpdateAtEndDoes
<1>13. ASSUME CaptureAfter(r) PROVE LaunchInOrder(r)'
    BY <1>13, CaptureAfterDoes
<1>14. ASSUME RunExitReads(r) PROVE LaunchInOrder(r)'
    BY <1>14, RunExitReadsDoes
<1>15. ASSUME RunExitWrites(r) PROVE LaunchInOrder(r)'
    BY <1>15, RunExitWritesDoes
<1>16. ASSUME Mark(r) PROVE LaunchInOrder(r)'
    BY <1>16, MarkDoes
<1>17. ASSUME Crash(r) PROVE LaunchInOrder(r)'
    BY <1>17, CrashDoes
<1>18. ASSUME Reboot(r) PROVE LaunchInOrder(r)'
    BY <1>18, RebootDoes
<1> QED BY <1>1, <1>2, <1>3, <1>4, <1>5, <1>6, <1>7, <1>8, <1>9, <1>10, <1>11, <1>12, <1>13,
           <1>14, <1>15, <1>16, <1>17, <1>18 DEF RunStep, Launch, Wrapup

\* The controller's worker is done before the process is there.
LEMMA WorkerKeepsOrder ==
  ASSUME NEW r \in Runs, TypeOK, Domains, CallsAreEvents(r), LaunchInOrder(r),
         WorkerInOrder(r), NobodyWritesWhenDown(r), RunStep(r)
  PROVE  WorkerInOrder(r)'
<1> USE WriterNames, PhaseTypes DEF Controlled, LaunchInOrder, NobodyWritesWhenDown, SameCall,
         WorkerInOrder, Begins
<1>1. ASSUME NEW w \in Writers, Write(r, w) PROVE WorkerInOrder(r)'
    BY <1>1, WriteDoes, CallsAfterWrite
<1>2. ASSUME Create(r) PROVE WorkerInOrder(r)'
    BY <1>2, CreateDoes
<1>3. ASSUME Start(r) PROVE WorkerInOrder(r)'
    BY <1>3, StartDoes
<1>4. ASSUME Popen(r) PROVE WorkerInOrder(r)'
    BY <1>4, PopenDoes
<1>5. ASSUME RunStart(r) PROVE WorkerInOrder(r)'
    BY <1>5, RunStartDoes
<1>6. ASSUME LogHparams(r) PROVE WorkerInOrder(r)'
    BY <1>6, LogHparamsDoes
<1>7. ASSUME LogMetrics(r) PROVE WorkerInOrder(r)'
    BY <1>7, LogMetricsDoes
<1>8. ASSUME proc[r] = "alive", Dies(r) PROVE WorkerInOrder(r)'
    BY <1>8, DiesDoes
<1>9. ASSUME CancelLogs(r) PROVE WorkerInOrder(r)'
    BY <1>9, CancelLogsDoes
<1>10. ASSUME StartWrapup(r) PROVE WorkerInOrder(r)'
    BY <1>10, StartWrapupDoes
<1>11. ASSUME LogEnded(r) PROVE WorkerInOrder(r)'
    BY <1>11, LogEndedDoes
<1>12. ASSUME UpdateAtEnd(r) PROVE WorkerInOrder(r)'
    BY <1>12, UpdateAtEndDoes
<1>13. ASSUME CaptureAfter(r) PROVE WorkerInOrder(r)'
    BY <1>13, CaptureAfterDoes
<1>14. ASSUME RunExitReads(r) PROVE WorkerInOrder(r)'
    BY <1>14, RunExitReadsDoes
<1>15. ASSUME RunExitWrites(r) PROVE WorkerInOrder(r)'
    BY <1>15, RunExitWritesDoes
<1>16. ASSUME Mark(r) PROVE WorkerInOrder(r)'
    BY <1>16, MarkDoes
<1>17. ASSUME Crash(r) PROVE WorkerInOrder(r)'
    BY <1>17, CrashDoes
<1>18. ASSUME Reboot(r) PROVE WorkerInOrder(r)'
    BY <1>18, RebootDoes
<1> QED BY <1>1, <1>2, <1>3, <1>4, <1>5, <1>6, <1>7, <1>8, <1>9, <1>10, <1>11, <1>12, <1>13,
           <1>14, <1>15, <1>16, <1>17, <1>18 DEF RunStep, Launch, Wrapup

\* Only a live process that is not wrapped up writes for the user.
LEMMA UserKeepsOrder ==
  ASSUME NEW r \in Runs, TypeOK, Domains, CallsAreEvents(r), LaunchInOrder(r),
         UserInOrder(r), NobodyWritesWhenDown(r), RunStep(r)
  PROVE  UserInOrder(r)'
<1> USE WriterNames, PhaseTypes DEF Controlled, LaunchInOrder, NobodyWritesWhenDown, SameCall,
         UserInOrder, Begins
<1>1. ASSUME NEW w \in Writers, Write(r, w) PROVE UserInOrder(r)'
    BY <1>1, WriteDoes, CallsAfterWrite
<1>2. ASSUME Create(r) PROVE UserInOrder(r)'
    BY <1>2, CreateDoes
<1>3. ASSUME Start(r) PROVE UserInOrder(r)'
    BY <1>3, StartDoes
<1>4. ASSUME Popen(r) PROVE UserInOrder(r)'
    BY <1>4, PopenDoes
<1>5. ASSUME RunStart(r) PROVE UserInOrder(r)'
    BY <1>5, RunStartDoes
<1>6. ASSUME LogHparams(r) PROVE UserInOrder(r)'
    BY <1>6, LogHparamsDoes
<1>7. ASSUME LogMetrics(r) PROVE UserInOrder(r)'
    BY <1>7, LogMetricsDoes
<1>8. ASSUME proc[r] = "alive", Dies(r) PROVE UserInOrder(r)'
    BY <1>8, DiesDoes
<1>9. ASSUME CancelLogs(r) PROVE UserInOrder(r)'
    BY <1>9, CancelLogsDoes
<1>10. ASSUME StartWrapup(r) PROVE UserInOrder(r)'
    BY <1>10, StartWrapupDoes
<1>11. ASSUME LogEnded(r) PROVE UserInOrder(r)'
    BY <1>11, LogEndedDoes
<1>12. ASSUME UpdateAtEnd(r) PROVE UserInOrder(r)'
    BY <1>12, UpdateAtEndDoes
<1>13. ASSUME CaptureAfter(r) PROVE UserInOrder(r)'
    BY <1>13, CaptureAfterDoes
<1>14. ASSUME RunExitReads(r) PROVE UserInOrder(r)'
    BY <1>14, RunExitReadsDoes
<1>15. ASSUME RunExitWrites(r) PROVE UserInOrder(r)'
    BY <1>15, RunExitWritesDoes
<1>16. ASSUME Mark(r) PROVE UserInOrder(r)'
    BY <1>16, MarkDoes
<1>17. ASSUME Crash(r) PROVE UserInOrder(r)'
    BY <1>17, CrashDoes
<1>18. ASSUME Reboot(r) PROVE UserInOrder(r)'
    BY <1>18, RebootDoes
<1> QED BY <1>1, <1>2, <1>3, <1>4, <1>5, <1>6, <1>7, <1>8, <1>9, <1>10, <1>11, <1>12, <1>13,
           <1>14, <1>15, <1>16, <1>17, <1>18 DEF RunStep, Launch, Wrapup

\* The wrapup waits for its own events.
LEMMA ReaderKeepsOrder ==
  ASSUME NEW r \in Runs, TypeOK, Domains, CallsAreEvents(r), LaunchInOrder(r),
         ReaderInOrder(r), NobodyWritesWhenDown(r), RunStep(r)
  PROVE  ReaderInOrder(r)'
<1> USE WriterNames, PhaseTypes DEF Controlled, LaunchInOrder, NobodyWritesWhenDown,
         ReaderInOrder, SameCall, Begins
<1>1. ASSUME NEW w \in Writers, Write(r, w) PROVE ReaderInOrder(r)'
    BY <1>1, WriteDoes, CallsAfterWrite
<1>2. ASSUME Create(r) PROVE ReaderInOrder(r)'
    BY <1>2, CreateDoes
<1>3. ASSUME Start(r) PROVE ReaderInOrder(r)'
    BY <1>3, StartDoes
<1>4. ASSUME Popen(r) PROVE ReaderInOrder(r)'
    BY <1>4, PopenDoes
<1>5. ASSUME RunStart(r) PROVE ReaderInOrder(r)'
    BY <1>5, RunStartDoes
<1>6. ASSUME LogHparams(r) PROVE ReaderInOrder(r)'
    BY <1>6, LogHparamsDoes
<1>7. ASSUME LogMetrics(r) PROVE ReaderInOrder(r)'
    BY <1>7, LogMetricsDoes
<1>8. ASSUME proc[r] = "alive", Dies(r) PROVE ReaderInOrder(r)'
    BY <1>8, DiesDoes
<1>9. ASSUME CancelLogs(r) PROVE ReaderInOrder(r)'
    BY <1>9, CancelLogsDoes
<1>10. ASSUME StartWrapup(r) PROVE ReaderInOrder(r)'
    BY <1>10, StartWrapupDoes
<1>11. ASSUME LogEnded(r) PROVE ReaderInOrder(r)'
    BY <1>11, LogEndedDoes
<1>12. ASSUME UpdateAtEnd(r) PROVE ReaderInOrder(r)'
    BY <1>12, UpdateAtEndDoes
<1>13. ASSUME CaptureAfter(r) PROVE ReaderInOrder(r)'
    BY <1>13, CaptureAfterDoes
<1>14. ASSUME RunExitReads(r) PROVE ReaderInOrder(r)'
    BY <1>14, RunExitReadsDoes
<1>15. ASSUME RunExitWrites(r) PROVE ReaderInOrder(r)'
    BY <1>15, RunExitWritesDoes
<1>16. ASSUME Mark(r) PROVE ReaderInOrder(r)'
    BY <1>16, MarkDoes
<1>17. ASSUME Crash(r) PROVE ReaderInOrder(r)'
    BY <1>17, CrashDoes
<1>18. ASSUME Reboot(r) PROVE ReaderInOrder(r)'
    BY <1>18, RebootDoes
<1> QED BY <1>1, <1>2, <1>3, <1>4, <1>5, <1>6, <1>7, <1>8, <1>9, <1>10, <1>11, <1>12, <1>13,
           <1>14, <1>15, <1>16, <1>17, <1>18 DEF RunStep, Launch, Wrapup

\* Nothing is in progress on a node that is down.
LEMMA NobodyStartsWhenDown ==
  ASSUME NEW r \in Runs, TypeOK, Domains, CallsAreEvents(r), LaunchInOrder(r),
         NobodyWritesWhenDown(r), RunStep(r)
  PROVE  NobodyWritesWhenDown(r)'
<1> USE WriterNames, PhaseTypes DEF Controlled, LaunchInOrder, NobodyWritesWhenDown, SameCall,
         Begins
<1>1. ASSUME NEW w \in Writers, Write(r, w) PROVE NobodyWritesWhenDown(r)'
    BY <1>1, WriteDoes, CallsAfterWrite
<1>2. ASSUME Create(r) PROVE NobodyWritesWhenDown(r)'
    BY <1>2, CreateDoes
<1>3. ASSUME Start(r) PROVE NobodyWritesWhenDown(r)'
    BY <1>3, StartDoes
<1>4. ASSUME Popen(r) PROVE NobodyWritesWhenDown(r)'
    BY <1>4, PopenDoes
<1>5. ASSUME RunStart(r) PROVE NobodyWritesWhenDown(r)'
    BY <1>5, RunStartDoes
<1>6. ASSUME LogHparams(r) PROVE NobodyWritesWhenDown(r)'
    BY <1>6, LogHparamsDoes
<1>7. ASSUME LogMetrics(r) PROVE NobodyWritesWhenDown(r)'
    BY <1>7, LogMetricsDoes
<1>8. ASSUME proc[r] = "alive", Dies(r) PROVE NobodyWritesWhenDown(r)'
    BY <1>8, DiesDoes
<1>9. ASSUME CancelLogs(r) PROVE NobodyWritesWhenDown(r)'
    BY <1>9, CancelLogsDoes
<1>10. ASSUME StartWrapup(r) PROVE NobodyWritesWhenDown(r)'
    BY <1>10, StartWrapupDoes
<1>11. ASSUME LogEnded(r) PROVE NobodyWritesWhenDown(r)'
    BY <1>11, LogEndedDoes
<1>12. ASSUME UpdateAtEnd(r) PROVE NobodyWritesWhenDown(r)'
    BY <1>12, UpdateAtEndDoes
<1>13. ASSUME CaptureAfter(r) PROVE NobodyWritesWhenDown(r)'
    BY <1>13, CaptureAfterDoes
<1>14. ASSUME RunExitReads(r) PROVE NobodyWritesWhenDown(r)'
    BY <1>14, RunExitReadsDoes
<1>15. ASSUME RunExitWrites(r) PROVE NobodyWritesWhenDown(r)'
    BY <1>15, RunExitWritesDoes
<1>16. ASSUME Mark(r) PROVE NobodyWritesWhenDown(r)'
    BY <1>16, MarkDoes
<1>17. ASSUME Crash(r) PROVE NobodyWritesWhenDown(r)'
    BY <1>17, CrashDoes
<1>18. ASSUME Reboot(r) PROVE NobodyWritesWhenDown(r)'
    BY <1>18, RebootDoes
<1> QED BY <1>1, <1>2, <1>3, <1>4, <1>5, <1>6, <1>7, <1>8, <1>9, <1>10, <1>11, <1>12, <1>13,
           <1>14, <1>15, <1>16, <1>17, <1>18 DEF RunStep, Launch, Wrapup

-----------------------------------------------------------------------------
(***************************************************************************)
(* The log file and the document's records                                 *)
(***************************************************************************)

LEMMA Appended ==
  ASSUME NEW s \in Seq(Records), NEW rec \in Records
  PROVE  /\ Len(s) \in Nat /\ DOMAIN s = 1 .. Len(s)
         /\ DOMAIN Append(s, rec) = 1 .. Len(s) + 1
         /\ Len(Append(s, rec)) = Len(s) + 1
         /\ \A i \in 1 .. Len(s) : Append(s, rec)[i] = s[i] /\ s[i] \in Records
         /\ Append(s, rec)[Len(s) + 1] = rec
OBVIOUS

LEMMA SetOfAppended ==
  ASSUME NEW s \in Seq(Records), NEW rec \in Records
  PROVE  ToSet(Append(s, rec)) = ToSet(s) \cup {rec}
BY Appended DEF ToSet

LEMMA SetOfTwice ==
  ASSUME NEW s \in Seq(Records), NEW rec \in Records
  PROVE  ToSet(s \o <<rec, rec>>) = ToSet(s) \cup {rec}
<1>1. DOMAIN (s \o <<rec, rec>>) = 1 .. Len(s) + 2 /\ DOMAIN s = 1 .. Len(s) /\ Len(s) \in Nat
  OBVIOUS
<1>2. /\ \A i \in 1 .. Len(s) : (s \o <<rec, rec>>)[i] = s[i]
      /\ (s \o <<rec, rec>>)[Len(s) + 1] = rec /\ (s \o <<rec, rec>>)[Len(s) + 2] = rec
  OBVIOUS
<1> DEFINE t == s \o <<rec, rec>>
<1> HIDE DEF t
<1>3. DOMAIN t = 1 .. Len(s) + 2 /\ \A i \in 1 .. Len(s) : t[i] = s[i]
  BY <1>1, <1>2 DEF t
<1>4. t[Len(s) + 1] = rec /\ t[Len(s) + 2] = rec
  BY <1>2 DEF t
<1>5. ToSet(t) \subseteq ToSet(s) \cup {rec}
  <2> SUFFICES ASSUME NEW i \in DOMAIN t PROVE t[i] \in ToSet(s) \cup {rec}
    BY DEF ToSet
  <2>1. i \in 1 .. Len(s) \/ i = Len(s) + 1 \/ i = Len(s) + 2
    BY <1>1, <1>3
  <2> QED BY <1>1, <1>3, <1>4, <2>1 DEF ToSet
<1>6. ToSet(s) \cup {rec} \subseteq ToSet(t)
  <2>1. \A i \in DOMAIN s : i \in DOMAIN t /\ t[i] = s[i]
    BY <1>1, <1>3
  <2>2. Len(s) + 1 \in DOMAIN t
    BY <1>1, <1>3
  <2> QED BY <1>4, <2>1, <2>2 DEF ToSet
<1>7. ToSet(t) = ToSet(s) \cup {rec}
  BY <1>5, <1>6
<1> QED BY <1>7 DEF t

LEMMA CutAtRecords ==
  ASSUME NEW r \in Runs, NEW W \in SUBSET Writers
  PROVE  CutShort(r, W) = {Rec(r, w) : w \in {x \in W : Step(r, x) = "records"}}
BY DEF CutShort, Step, Rec, Free

\* The steps that leave the log file and the document's records alone.
LEMMA QuietSteps ==
  ASSUME NEW r \in Runs, TypeOK, Domains, RunStep(r)
  PROVE  \/ \E w \in Writers : Write(r, w)
         \/ proc[r] = "alive" /\ Dies(r)
         \/ Crash(r)
         \/ /\ UNCHANGED <<log[r], recs[r], cut[r]>>
            /\ (\A w \in Writers : SameCall(r, w)) \/ \E w \in Writers : Begins(r, w)
<1> DEFINE Q == /\ UNCHANGED <<log[r], recs[r], cut[r]>>
                /\ (\A w \in Writers : SameCall(r, w)) \/ \E w \in Writers : Begins(r, w)
<1>1. Create(r) => Q
  BY CreateDoes, WriterNames
<1>2. Start(r) => Q
  BY StartDoes, WriterNames
<1>3. Popen(r) => Q
  BY PopenDoes, WriterNames
<1>4. RunStart(r) => Q
  BY RunStartDoes, WriterNames
<1>5. LogHparams(r) => Q
  BY LogHparamsDoes, WriterNames
<1>6. LogMetrics(r) => Q
  BY LogMetricsDoes, WriterNames
<1>7. CancelLogs(r) => Q
  BY CancelLogsDoes, WriterNames
<1>8. StartWrapup(r) => Q
  BY StartWrapupDoes, WriterNames
<1>9. LogEnded(r) => Q
  BY LogEndedDoes, WriterNames
<1>10. UpdateAtEnd(r) => Q
  BY UpdateAtEndDoes, WriterNames
<1>11. CaptureAfter(r) => Q
  BY CaptureAfterDoes, WriterNames
<1>12. RunExitReads(r) => Q
  BY RunExitReadsDoes, WriterNames
<1>13. RunExitWrites(r) => Q
  BY RunExitWritesDoes, WriterNames
<1>14. Mark(r) => Q
  BY MarkDoes, WriterNames
<1>15. Reboot(r) => Q
  BY RebootDoes, WriterNames
<1> QED BY <1>1, <1>2, <1>3, <1>4, <1>5, <1>6, <1>7, <1>8, <1>9, <1>10, <1>11, <1>12, <1>13,
           <1>14, <1>15 DEF RunStep, Launch, Wrapup

LEMMA RecordsStay ==
  ASSUME NEW r \in Runs, RecordsInLog(r), UNCHANGED <<log[r], recs[r], cut[r]>>,
         \A w \in Writers : Step(r, w)' = "records" <=> Step(r, w) = "records",
         \A w \in Writers : Step(r, w) = "records" => Rec(r, w)' = Rec(r, w)
  PROVE  RecordsInLog(r)'
<1>1. ToSet(recs[r])' = ToSet(recs[r]) /\ ToSet(log[r])' = ToSet(log[r]) /\ cut'[r] = cut[r]
  BY DEF ToSet
<1> QED BY <1>1 DEF RecordsInLog

\* Every step keeps the document's records to those of the log file.
LEMMA RecordsKeepToLog ==
  ASSUME NEW r \in Runs, TypeOK, Domains, CallsAreEvents(r), WritersInOrder(r),
         RecordsInLog(r), RunStep(r)
  PROVE  RecordsInLog(r)'
<1> USE WriterNames DEF RecordsInLog
<1>1. ASSUME NEW w \in Writers, Write(r, w) PROVE RecordsInLog(r)'
  <2> DEFINE rec == Rec(r, w)
  <2>1. rec \in Records /\ log[r] \in Seq(Records) /\ recs[r] \in Seq(Records)
    BY <1>1, CallsOfWrite DEF WritersInOrder, TypeOK
  <2>2. \A v \in Writers \ {w} : Step(r, v)' = Step(r, v) /\ Rec(r, v)' = Rec(r, v)
    BY <1>1, CallsOfWrite DEF SameCall
  <2>3. cut'[r] = cut[r] /\ Step(r, w) \in {"log", "records", "doc"}
        /\ Step(r, w)' = Follows(Step(r, w), rec) /\ (Step(r, w)' # "none" => Rec(r, w)' = rec)
    BY <1>1, CallsOfWrite, WriteDoes
  <2>4. CASE Step(r, w) = "log"
    <3>1. log'[r] = Append(log[r], rec) /\ recs'[r] = recs[r]
      BY <1>1, <2>4, CallsOfWrite
    <3>2. ToSet(log[r])' = ToSet(log[r]) \cup {rec} /\ ToSet(recs[r])' = ToSet(recs[r])
      BY <2>1, <3>1, SetOfAppended DEF ToSet
    <3>3. Step(r, w)' = "records" /\ Rec(r, w)' = rec
      BY <2>3, <2>4 DEF Follows
    <3> HIDE DEF rec
    <3> QED BY <2>2, <2>3, <2>4, <3>2, <3>3
  <2>5. CASE Step(r, w) = "records"
    <3>1. log'[r] = log[r]
          /\ recs'[r] \in {Append(recs[r], rec), recs[r] \o <<rec, rec>>}
      BY <1>1, <2>5, CallsOfWrite
    <3>2. ToSet(Append(recs[r], rec)) = ToSet(recs[r]) \cup {rec}
          /\ ToSet(recs[r] \o <<rec, rec>>) = ToSet(recs[r]) \cup {rec}
      BY <2>1, SetOfAppended, SetOfTwice
    <3>5. ToSet(recs'[r]) = ToSet(recs[r]) \cup {rec}
      BY <3>1, <3>2
    <3>6. ToSet(log'[r]) = ToSet(log[r])
      BY <3>1
    <3>3. Step(r, w)' # "records"
      BY <2>3, <2>5 DEF Follows
    <3> QED BY <2>2, <2>3, <2>5, <3>5, <3>6, <3>3
  <2>6. CASE Step(r, w) = "doc"
    <3>1. log'[r] = log[r] /\ recs'[r] = recs[r]
      BY <1>1, <2>6, CallsOfWrite
    <3>2. ToSet(recs[r])' = ToSet(recs[r]) /\ ToSet(log[r])' = ToSet(log[r])
      BY <3>1 DEF ToSet
    <3>3. Step(r, w)' # "records"
      BY <2>3, <2>6 DEF Follows
    <3> QED BY <2>2, <2>3, <2>6, <3>2, <3>3
  <2> QED BY <2>3, <2>4, <2>5, <2>6
<1>2. ASSUME proc[r] = "alive", Dies(r) PROVE RecordsInLog(r)'
  <2> DEFINE W == IF Controlled(r) THEN {"user"} ELSE Writers
  <2>1. cut'[r] = cut[r] \cup CutShort(r, W)
    BY <1>2, DiesDoes
  <2>2. CutShort(r, W) = {Rec(r, v) : v \in {x \in W : Step(r, x) = "records"}}
    BY CutAtRecords
  <2>3. \A v \in Writers : IF v \notin W THEN SameCall(r, v) ELSE Step(r, v)' = "none"
    BY <1>2, DiesDoes
  <2>4. ToSet(recs[r])' = ToSet(recs[r]) /\ ToSet(log[r])' = ToSet(log[r])
    BY <1>2, DiesDoes DEF ToSet
  <2> HIDE DEF W
  <2> QED BY <2>1, <2>2, <2>3, <2>4 DEF SameCall
<1>3. ASSUME Crash(r) PROVE RecordsInLog(r)'
  <2>1. cut'[r] = cut[r] \cup CutShort(r, Writers) /\ \A v \in Writers : Step(r, v)' = "none"
    BY <1>3, CrashDoes
  <2>2. CutShort(r, Writers) = {Rec(r, v) : v \in {x \in Writers : Step(r, x) = "records"}}
    BY CutAtRecords
  <2>3. ToSet(recs[r])' = ToSet(recs[r]) /\ ToSet(log[r])' = ToSet(log[r])
    BY <1>3, CrashDoes DEF ToSet
  <2> QED BY <2>1, <2>2, <2>3
<1> USE DEF SameCall, Begins
<1>4. ASSUME UNCHANGED <<log[r], recs[r], cut[r]>>, \A w \in Writers : SameCall(r, w)
      PROVE  RecordsInLog(r)'
  <2> HIDE DEF RecordsInLog
  <2> QED BY <1>4, RecordsStay
<1>5. ASSUME UNCHANGED <<log[r], recs[r], cut[r]>>, NEW w \in Writers, Begins(r, w)
      PROVE  RecordsInLog(r)'
  <2> HIDE DEF RecordsInLog
  <2> QED BY <1>5, RecordsStay
<1> HIDE DEF SameCall, Begins, RecordsInLog
<1> QED BY <1>1, <1>2, <1>3, <1>4, <1>5, QuietSteps

\* What the log has of a run after a write to it, and without one.
LEMMA LogGrows ==
  ASSUME NEW r \in Runs, NEW rec \in Records, log[r] \in Seq(Records),
         log'[r] = Append(log[r], rec)
  PROVE  /\ Len(log[r]) \in Nat /\ DOMAIN log[r] = 1 .. Len(log[r])
         /\ DOMAIN log'[r] = 1 .. Len(log[r]) + 1 /\ Len(log[r])' = Len(log[r]) + 1
         /\ \A i \in 1 .. Len(log[r]) : log'[r][i] = log[r][i] /\ log[r][i] \in Records
         /\ log'[r][Len(log[r]) + 1] = rec
         /\ \A event : Places(r, event)' =
              IF rec.event = event THEN Places(r, event) \cup {Len(log[r]) + 1}
              ELSE Places(r, event)
<1>1. /\ Len(log[r]) \in Nat /\ DOMAIN log[r] = 1 .. Len(log[r])
      /\ DOMAIN log'[r] = 1 .. Len(log[r]) + 1 /\ Len(log[r])' = Len(log[r]) + 1
      /\ \A i \in 1 .. Len(log[r]) : log'[r][i] = log[r][i] /\ log[r][i] \in Records
      /\ log'[r][Len(log[r]) + 1] = rec
  BY Appended
<1>2. ASSUME NEW event
      PROVE  Places(r, event)' =
               IF rec.event = event THEN Places(r, event) \cup {Len(log[r]) + 1}
               ELSE Places(r, event)
  <2> DEFINE n == Len(log[r])
  <2>1. Places(r, event)' = {i \in 1 .. n + 1 : log'[r][i].event = event}
    BY <1>1 DEF Places
  <2>2. Places(r, event) = {i \in 1 .. n : log[r][i].event = event}
    BY <1>1 DEF Places
  <2> HIDE DEF n
  <2>3. n \in Nat /\ (\A i \in 1 .. n : log'[r][i] = log[r][i]) /\ log'[r][n + 1] = rec
    BY <1>1 DEF n
  <2>4. n + 1 \in 1 .. n + 1 /\ \A i \in 1 .. n + 1 : i \in 1 .. n \/ i = n + 1
    BY <2>3
  <2>5. 1 .. n \subseteq 1 .. n + 1
    BY <2>3
  <2>6. Places(r, event)' =
          IF rec.event = event THEN Places(r, event) \cup {n + 1} ELSE Places(r, event)
    BY <2>1, <2>2, <2>3, <2>4, <2>5
  <2> QED BY <2>6 DEF n
<1> QED BY <1>1, <1>2

LEMMA LogStays ==
  ASSUME NEW r, log'[r] = log[r]
  PROVE  \A event : Places(r, event)' = Places(r, event)
BY DEF Places

-----------------------------------------------------------------------------
(***************************************************************************)
(* The order of the log file                                               *)
(***************************************************************************)

\* A write to the log file appends a record of the current attempt.
LEMMA LogWritten ==
  ASSUME NEW r \in Runs, NEW w \in Writers, TypeOK, Domains, CallsAreEvents(r),
         WritersInOrder(r), Write(r, w), Step(r, w) = "log"
  PROVE  /\ Rec(r, w) \in Records /\ Rec(r, w).event \in Kinds(w)
         /\ Rec(r, w).try = attempt[r] /\ Rec(r, w).try \in Nat
         /\ Rec(r, w).event = "hparams" => Rec(r, w).n = Drawn(r, attempt[r])
         /\ log[r] \in Seq(Records) /\ log'[r] = Append(log[r], Rec(r, w))
         /\ Step(r, w)' = "records" /\ Rec(r, w)' = Rec(r, w)
         /\ \A v \in Writers \ {w} : SameCall(r, v)
<1>1. Step(r, w) # "none" /\ log[r] \in Seq(Records)
  BY DEF TypeOK
<1>2. Follows("log", Rec(r, w)) = "records"
  BY DEF Follows
<1>3. \A rec \in Records : rec.try \in Nat
  BY DEF Records
<1> QED BY <1>1, <1>2, <1>3, CallsOfWrite DEF WritersInOrder

LEMMA LogNotWritten ==
  ASSUME NEW r \in Runs, NEW w \in Writers, Domains, CallsAreEvents(r), Write(r, w),
         Step(r, w) # "log"
  PROVE  /\ log'[r] = log[r] /\ Step(r, w)' # "log"
         /\ Step(r, w)' # "none" => Rec(r, w)' = Rec(r, w)
         /\ \A v \in Writers \ {w} : SameCall(r, v)
BY CallsOfWrite DEF Follows

LEMMA KindsApart ==
  ASSUME NEW w \in Writers, NEW event \in Kinds(w)
  PROVE  /\ event \in {"hparams", "metrics"} => w = "user"
         /\ event \in {"ended", "capture_after"} => w = "reader"
         /\ event = "cancelled" => w = "cancel"
         /\ event \in {"created", "started", "restarted"} => w = "worker"
BY DEF Kinds, Writers

\* Once the process runs its user code, the worker has nothing to write.
LEMMA WorkerIsIdle ==
  ASSUME NEW r \in Runs, TypeOK, LaunchInOrder(r), WorkerInOrder(r), NobodyWritesWhenDown(r),
         wrap[r] # "no"
  PROVE  Step(r, "worker") = "none"
BY PhaseTypes, WriterNames DEF LaunchInOrder, WorkerInOrder, NobodyWritesWhenDown

\* Every step keeps the log file ordered by attempts, with the hyperparameters
\* of an attempt before its metrics.
LEMMA LogKeepsOrder ==
  ASSUME NEW r \in Runs, TypeOK, Domains, CallsAreEvents(r), WritersInOrder(r),
         LaunchInOrder(r), UserInOrder(r), LogIsOrdered(r), RunStep(r)
  PROVE  LogIsOrdered(r)'
<1> USE WriterNames, PhaseTypes
<1>1. ASSUME NEW w \in Writers, Write(r, w), Step(r, w) = "log" PROVE LogIsOrdered(r)'
  <2> DEFINE rec == Rec(r, w)
             n == Len(log[r])
  <2>1. /\ rec \in Records /\ rec.event \in Kinds(w) /\ rec.try = attempt[r] /\ rec.try \in Nat
        /\ rec.event = "hparams" => rec.n = Drawn(r, attempt[r])
        /\ log[r] \in Seq(Records) /\ log'[r] = Append(log[r], rec)
        /\ Step(r, w)' = "records" /\ \A v \in Writers \ {w} : SameCall(r, v)
    BY <1>1, LogWritten
  <2>2. attempt'[r] = attempt[r] /\ direct' = direct /\ proc'[r] = proc[r] /\ told'[r] = told[r]
    BY <1>1, WriteDoes
  <2>3. rec.event = "metrics" => HasOwn(r, "hparams")
    BY <1>1, <2>1, KindsApart DEF UserInOrder, LogIsOrdered, Logged
  <2>4. w = "user" /\ told[r] = 1 => rec.event = "hparams"
    BY <1>1, <2>1 DEF UserInOrder
  <2> HIDE DEF rec
  <2>5. /\ n \in Nat /\ DOMAIN log[r] = 1 .. n /\ DOMAIN log'[r] = 1 .. n + 1
        /\ \A i \in 1 .. n : log'[r][i] = log[r][i] /\ log[r][i] \in Records
        /\ log'[r][n + 1] = rec
        /\ \A event : Places(r, event)' =
             IF rec.event = event THEN Places(r, event) \cup {n + 1} ELSE Places(r, event)
    BY <2>1, LogGrows
  <2> HIDE DEF n
  <2>6. (\A i \in 1 .. n : log[r][i].try \in Nat) /\ attempt[r] \in Nat \ {0}
    BY <2>5 DEF Records
  <2>7. \A event : Places(r, event) \subseteq 1 .. n
    BY <2>5, PlacesInLog
  <2>8. \A i \in DOMAIN log'[r] :
          \/ i \in 1 .. n /\ log'[r][i] = log[r][i]
          \/ i = n + 1 /\ log'[r][i] = rec
    BY <2>5
  <2>9. \A i \in DOMAIN log'[r] : log'[r][i].try <= attempt'[r]
    BY <2>1, <2>2, <2>5, <2>6, <2>8 DEF LogIsOrdered
  <2>10. \A i, j \in DOMAIN log'[r] : i < j => log'[r][i].try <= log'[r][j].try
    BY <2>1, <2>5, <2>6, <2>8 DEF LogIsOrdered
  <2>12. \A i \in Places(r, "hparams")' :
           (log[r][i].n = Drawn(r, log[r][i].try) /\ log[r][i].try > 0)'
    <3> SUFFICES ASSUME NEW i \in Places(r, "hparams")'
                 PROVE  log'[r][i].n = Drawn(r, log'[r][i].try) /\ log'[r][i].try > 0
      BY <2>2 DEF Drawn, Controlled
    <3>1. i \in Places(r, "hparams") \/ (i = n + 1 /\ rec.event = "hparams")
      BY <2>5
    <3> QED BY <2>1, <2>5, <2>6, <2>7, <3>1 DEF LogIsOrdered
  <2>13. \A i \in Places(r, "metrics")' :
           \E j \in Places(r, "hparams")' : log'[r][j].try = log'[r][i].try
    <3> SUFFICES ASSUME NEW i \in Places(r, "metrics")'
                 PROVE  \E j \in Places(r, "hparams") : log'[r][j].try = log'[r][i].try
      BY <2>5
    <3>1. CASE i \in Places(r, "metrics")
      BY <2>5, <2>7, <3>1 DEF LogIsOrdered
    <3>2. CASE i = n + 1 /\ rec.event = "metrics"
      BY <2>1, <2>3, <2>5, <2>7, <3>2 DEF HasOwn
    <3> QED BY <2>5, <3>1, <3>2
  <2>14. HasOwn(r, "hparams") => HasOwn(r, "hparams")'
    BY <2>2, <2>5, <2>7 DEF HasOwn
  <2>15. rec.event = "hparams" => HasOwn(r, "hparams")'
    BY <2>1, <2>2, <2>5 DEF HasOwn
  <2>16. proc'[r] = "alive" /\ told'[r] > 0 /\ Logged(r)' => HasOwn(r, "hparams")'
    BY <2>1, <2>2, <2>4, <2>14, <2>15 DEF LogIsOrdered, Logged, SameCall
  <2> QED BY <2>9, <2>10, <2>12, <2>13, <2>16 DEF LogIsOrdered
<1>2. ASSUME log'[r] = log[r], attempt'[r] = attempt[r], direct' = direct,
             proc'[r] = "alive" /\ told'[r] > 0 /\ Logged(r)' =>
               proc[r] = "alive" /\ told[r] > 0 /\ Logged(r)
      PROVE  LogIsOrdered(r)'
  <2>1. /\ \A event : Places(r, event)' = Places(r, event)
        /\ \A event : HasOwn(r, event)' <=> HasOwn(r, event)
    BY <1>2, LogStays DEF HasOwn
  <2> QED BY <1>2, <2>1 DEF LogIsOrdered, Drawn, Controlled
<1>3. ASSUME NEW w \in Writers, Write(r, w), Step(r, w) # "log" PROVE LogIsOrdered(r)'
  <2>1. attempt'[r] = attempt[r] /\ direct' = direct /\ proc'[r] = proc[r] /\ told'[r] = told[r]
    BY <1>3, WriteDoes
  <2>2. log'[r] = log[r] /\ (Step(r, "user")' = "log" <=> Step(r, "user") = "log")
    BY <1>3, LogNotWritten DEF SameCall
  <2> QED BY <1>2, <2>1, <2>2 DEF Logged
<1>4. CASE Reboot(r)
  <2>1. /\ log'[r] = log[r] /\ attempt'[r] = attempt[r] + 1 /\ direct' = direct /\ told'[r] = 0
    BY <1>4, RebootDoes
  <2>2. \A event : Places(r, event)' = Places(r, event)
    BY <2>1, LogStays
  <2>3. log[r] \in Seq(Records)
    BY DEF TypeOK
  <2>4. \A i \in DOMAIN log[r] : log[r][i].try \in Nat
    <3>1. \A rec \in Records : rec.try \in Nat
      BY DEF Records
    <3> QED BY <2>3, <3>1
  <2> QED BY <2>1, <2>2, <2>4 DEF LogIsOrdered, Drawn, Controlled
<1>5. CASE Create(r)
  BY <1>5, <1>2, CreateDoes DEF Logged, SameCall, Begins
<1>6. CASE Start(r)
  BY <1>6, <1>2, StartDoes DEF Logged, SameCall, Begins, LaunchInOrder
<1>7. CASE Popen(r)
  BY <1>7, <1>2, PopenDoes DEF Logged, SameCall, Begins, LaunchInOrder
<1>8. CASE RunStart(r)
  BY <1>8, <1>2, RunStartDoes DEF Logged, SameCall, Begins
<1>9. CASE LogHparams(r)
  BY <1>9, <1>2, LogHparamsDoes DEF Logged, SameCall, Begins
<1>10. CASE LogMetrics(r)
  BY <1>10, <1>2, LogMetricsDoes DEF Logged, SameCall, Begins
<1>11. CASE proc[r] = "alive" /\ Dies(r)
  BY <1>11, <1>2, DiesDoes DEF Logged, SameCall, Begins
<1>12. CASE CancelLogs(r)
  BY <1>12, <1>2, CancelLogsDoes DEF Logged, SameCall, Begins
<1>13. CASE StartWrapup(r)
  BY <1>13, <1>2, StartWrapupDoes DEF Logged, SameCall, Begins
<1>14. CASE LogEnded(r)
  BY <1>14, <1>2, LogEndedDoes DEF Logged, SameCall, Begins
<1>15. CASE UpdateAtEnd(r)
  BY <1>15, <1>2, UpdateAtEndDoes DEF Logged, SameCall, Begins
<1>16. CASE CaptureAfter(r)
  BY <1>16, <1>2, CaptureAfterDoes DEF Logged, SameCall, Begins
<1>17. CASE RunExitReads(r)
  BY <1>17, <1>2, RunExitReadsDoes DEF Logged, SameCall, Begins
<1>18. CASE RunExitWrites(r)
  BY <1>18, <1>2, RunExitWritesDoes DEF Logged, SameCall, Begins
<1>19. CASE Mark(r)
  BY <1>19, <1>2, MarkDoes DEF Logged, SameCall, Begins
<1>20. CASE Crash(r)
  BY <1>20, <1>2, CrashDoes DEF Logged, SameCall, Begins
<1> QED BY <1>1, <1>3, <1>4, <1>5, <1>6, <1>7, <1>8, <1>9, <1>10, <1>11, <1>12, <1>13, <1>14,
           <1>15, <1>16, <1>17, <1>18, <1>19, <1>20 DEF RunStep, Launch, Wrapup

\* Every step keeps what may follow the end of an attempt.
LEMMA EndStaysOnce ==
  ASSUME NEW r \in Runs, TypeOK, Domains, CallsAreEvents(r), WritersInOrder(r),
         PhasesInOrder(r), LogIsOrdered(r), EndIsOnce(r), RunStep(r)
  PROVE  EndIsOnce(r)'
<1> USE WriterNames, PhaseTypes
<1> DEFINE Late == {"capture_after", "cancelled"}
           Ending == Step(r, "reader") = "log" /\ Rec(r, "reader").event = "ended"
           Before == wrap[r] \in {"no", "all"} \/ Ending
<1>1. ASSUME NEW w \in Writers, Write(r, w), Step(r, w) = "log" PROVE EndIsOnce(r)'
  <2> DEFINE rec == Rec(r, w)
             n == Len(log[r])
  <2>1. /\ rec \in Records /\ rec.event \in Kinds(w) /\ rec.try = attempt[r] /\ rec.try \in Nat
        /\ log[r] \in Seq(Records) /\ log'[r] = Append(log[r], rec)
        /\ Step(r, w)' = "records" /\ Rec(r, w)' = rec
        /\ \A v \in Writers \ {w} : SameCall(r, v)
    BY <1>1, LogWritten
  <2>2. attempt'[r] = attempt[r] /\ wrap'[r] = wrap[r]
    BY <1>1, WriteDoes
  <2>3. HasOwn(r, "ended") => rec.event \in Late
    <3>1. SUFFICES ASSUME HasOwn(r, "ended") PROVE rec.event \in Late
      OBVIOUS
    <3>2. ~Before
      BY <3>1 DEF EndIsOnce
    <3>3. Step(r, "worker") = "none"
      BY <3>2, WorkerIsIdle DEF PhasesInOrder
    <3>4. w # "worker" /\ w # "user"
      BY <1>1, <3>2, <3>3 DEF PhasesInOrder, UserInOrder
    <3>5. w = "reader" => rec.event = "capture_after"
      BY <1>1, <3>2 DEF PhasesInOrder, ReaderInOrder
    <3>6. w = "cancel" => rec.event = "cancelled"
      BY <2>1 DEF Kinds
    <3> QED BY <3>4, <3>5, <3>6 DEF Writers
  <2>4. rec.event = "ended" => ~Before'
    <3>1. SUFFICES ASSUME rec.event = "ended" PROVE ~Before'
      OBVIOUS
    <3>2. w = "reader"
      BY <2>1, <3>1, KindsApart
    <3>3. wrap[r] = "update"
      BY <1>1, <3>1, <3>2 DEF PhasesInOrder, ReaderInOrder
    <3> QED BY <2>1, <2>2, <3>2, <3>3
  <2>5. Before' => Before
    BY <1>1, <2>1, <2>2 DEF SameCall
  <2> HIDE DEF rec, Before
  <2>6. /\ n \in Nat /\ DOMAIN log[r] = 1 .. n /\ DOMAIN log'[r] = 1 .. n + 1
        /\ \A i \in 1 .. n : log'[r][i] = log[r][i]
        /\ log'[r][n + 1] = rec /\ Len(log'[r]) = n + 1
        /\ \A event : Places(r, event)' =
             IF rec.event = event THEN Places(r, event) \cup {n + 1} ELSE Places(r, event)
    BY <2>1, LogGrows
  <2> HIDE DEF n
  <2>7. \A event : Places(r, event) \subseteq 1 .. n
    BY <2>6, PlacesInLog
  <2>8. Before' => ~HasOwn(r, "ended")'
    <3>1. SUFFICES ASSUME Before' PROVE ~HasOwn(r, "ended")'
      OBVIOUS
    <3>2. rec.event # "ended" /\ ~HasOwn(r, "ended")
      BY <2>4, <2>5, <3>1 DEF EndIsOnce, Before
    <3>3. Places(r, "ended")' = Places(r, "ended")
      BY <2>6, <3>2
    <3> QED BY <2>2, <2>6, <2>7, <3>2, <3>3 DEF HasOwn
  <2>9. ASSUME NEW i \in 1 .. n + 1, NEW j \in 1 .. n + 1, i < j, log'[r][i].event = "ended",
               log'[r][j].try = log'[r][i].try
        PROVE  log'[r][j].event \in Late
    <3>1. i \in 1 .. n /\ (j \in 1 .. n \/ j = n + 1) /\ n = Len(log[r])
      BY <2>6, <2>9 DEF n
    <3>2. CASE j \in 1 .. n
      BY <2>6, <2>9, <3>1, <3>2 DEF EndIsOnce
    <3>3. CASE j = n + 1
      <4>1. i \in Places(r, "ended") /\ log[r][i].try = attempt[r]
        BY <2>1, <2>6, <2>9, <3>1, <3>3 DEF Places
      <4> QED BY <2>3, <2>6, <3>3, <4>1 DEF HasOwn
    <3> QED BY <3>1, <3>2, <3>3
  <2> QED BY <2>6, <2>8, <2>9 DEF EndIsOnce, Before
<1>2. ASSUME log'[r] = log[r], attempt'[r] = attempt[r], Before' => Before
      PROVE  EndIsOnce(r)'
  <2>1. /\ \A event : Places(r, event)' = Places(r, event)
        /\ \A event : HasOwn(r, event)' <=> HasOwn(r, event)
    BY <1>2, LogStays DEF HasOwn
  <2> QED BY <1>2, <2>1 DEF EndIsOnce
<1>3. ASSUME NEW w \in Writers, Write(r, w), Step(r, w) # "log" PROVE EndIsOnce(r)'
  <2>1. attempt'[r] = attempt[r] /\ wrap'[r] = wrap[r]
    BY <1>3, WriteDoes
  <2>2. log'[r] = log[r] /\ (Ending' => Ending)
    BY <1>3, LogNotWritten DEF SameCall
  <2> QED BY <1>2, <2>1, <2>2
<1>4. CASE Reboot(r)
  <2>1. log'[r] = log[r] /\ attempt'[r] = attempt[r] + 1
    BY <1>4, RebootDoes
  <2>2. \A event : Places(r, event)' = Places(r, event)
    BY <2>1, LogStays
  <2>3. \A i \in DOMAIN log[r] : log[r][i].try \in Nat
    <3>1. \A rec \in Records : rec.try \in Nat
      BY DEF Records
    <3>2. log[r] \in Seq(Records)
      BY DEF TypeOK
    <3> QED BY <3>1, <3>2
  <2>4. ~HasOwn(r, "ended")'
    BY <2>1, <2>2, <2>3, PlacesInLog DEF HasOwn, LogIsOrdered
  <2> QED BY <2>1, <2>4 DEF EndIsOnce
<1>5. CASE Create(r)
  BY <1>5, <1>2, CreateDoes DEF SameCall, Begins
<1>6. CASE Start(r)
  BY <1>6, <1>2, StartDoes DEF SameCall, Begins
<1>7. CASE Popen(r)
  BY <1>7, <1>2, PopenDoes DEF SameCall, Begins
<1>8. CASE RunStart(r)
  BY <1>8, <1>2, RunStartDoes DEF SameCall, Begins
<1>9. CASE LogHparams(r)
  BY <1>9, <1>2, LogHparamsDoes DEF SameCall, Begins
<1>10. CASE LogMetrics(r)
  BY <1>10, <1>2, LogMetricsDoes DEF SameCall, Begins
<1>11. CASE proc[r] = "alive" /\ Dies(r)
  BY <1>11, <1>2, DiesDoes DEF SameCall, Begins
<1>12. CASE CancelLogs(r)
  BY <1>12, <1>2, CancelLogsDoes DEF SameCall, Begins
<1>13. CASE StartWrapup(r)
  BY <1>13, <1>2, StartWrapupDoes DEF SameCall, Begins
<1>14. CASE LogEnded(r)
  BY <1>14, <1>2, LogEndedDoes DEF SameCall, Begins
<1>15. CASE UpdateAtEnd(r)
  BY <1>15, <1>2, UpdateAtEndDoes DEF SameCall, Begins
<1>16. CASE CaptureAfter(r)
  BY <1>16, <1>2, CaptureAfterDoes DEF SameCall, Begins
<1>17. CASE RunExitReads(r)
  BY <1>17, <1>2, RunExitReadsDoes DEF SameCall, Begins
<1>18. CASE RunExitWrites(r)
  BY <1>18, <1>2, RunExitWritesDoes DEF SameCall, Begins
<1>19. CASE Mark(r)
  BY <1>19, <1>2, MarkDoes DEF SameCall, Begins
<1>20. CASE Crash(r)
  BY <1>20, <1>2, CrashDoes DEF SameCall, Begins
<1> QED BY <1>1, <1>3, <1>4, <1>5, <1>6, <1>7, <1>8, <1>9, <1>10, <1>11, <1>12, <1>13, <1>14,
           <1>15, <1>16, <1>17, <1>18, <1>19, <1>20 DEF RunStep, Launch, Wrapup

-----------------------------------------------------------------------------
(***************************************************************************)
(* The document's status and times                                         *)
(***************************************************************************)

\* What a write changes of the document.
LEMMA DocumentWritten ==
  ASSUME NEW r \in Runs, NEW w \in Writers, TypeOK, Domains, CallsAreEvents(r),
         WritersInOrder(r), Write(r, w)
  PROVE  /\ Rec(r, w).event \in Kinds(w)
         /\ doc'[r].status = IF Step(r, w) = "doc" /\ Rec(r, w).event = "started"
                             THEN "running" ELSE doc[r].status
         /\ doc'[r].hparams = IF Step(r, w) = "doc" /\ Rec(r, w).event = "hparams"
                              THEN Rec(r, w).n ELSE doc[r].hparams
         /\ doc'[r].metrics = IF Step(r, w) = "doc" /\ Rec(r, w).event = "metrics"
                              THEN Rec(r, w) ELSE doc[r].metrics
         /\ doc'[r].start = doc[r].start /\ doc'[r].duration = doc[r].duration
<1>1. Step(r, w) # "none" /\ (IF Step(r, w) = "doc" THEN doc'[r] = Updated(doc[r], Rec(r, w))
                                                   ELSE doc'[r] = doc[r])
  BY CallsOfWrite
<1>2. Rec(r, w) \in Records /\ Rec(r, w).event \in Kinds(w)
  BY <1>1 DEF WritersInOrder
<1>3. doc[r] \in Docs
  BY DocumentTypes, TypeParts
<1> QED BY <1>1, <1>2, <1>3, UpdatedDocument

\* What a write leaves its writer, and the worker, to do.
LEMMA WorkerAfterWrite ==
  ASSUME NEW r \in Runs, NEW w \in Writers, TypeOK, Domains, CallsAreEvents(r),
         WritersInOrder(r), Write(r, w)
  PROVE  \/ SameCall(r, "worker") /\ doc'[r].status = doc[r].status
         \/ /\ Step(r, "worker") # "none" /\ Step(r, "worker")' # "none"
            /\ Rec(r, "worker")' = Rec(r, "worker") /\ doc'[r].status = doc[r].status
         \/ /\ Step(r, "worker") # "none" /\ Step(r, "worker")' = "none"
            /\ IF Rec(r, "worker").event = "started" THEN doc'[r].status = "running"
               ELSE doc'[r].status = doc[r].status
<1>1. CASE w = "worker"
  BY <1>1, CallsOfWrite, DocumentWritten DEF Follows, InDocument
<1>2. CASE w # "worker"
  <2>1. SameCall(r, "worker")
    BY <1>2, CallsOfWrite, WriterNames
  <2>2. Rec(r, w).event # "started"
    BY <1>2, DocumentWritten, KindsApart
  <2> QED BY <2>1, <2>2, DocumentWritten
<1> QED BY <1>1, <1>2

\* Every step keeps the status that launch and crashes explain.
LEMMA StatusKeepsOrder ==
  ASSUME NEW r \in Runs, TypeOK, Domains, CallsAreEvents(r), WritersInOrder(r),
         LaunchInOrder(r), NobodyWritesWhenDown(r), StatusInOrder(r), RunStep(r)
  PROVE  StatusInOrder(r)'
<1> USE PhaseTypes, WriterNames DEF StatusInOrder, SameCall, Begins, LaunchInOrder,
         NobodyWritesWhenDown, Controlled, Early, Kept
<1>1. ASSUME NEW w \in Writers, Write(r, w) PROVE StatusInOrder(r)'
    BY <1>1, WriteDoes, WorkerAfterWrite
<1>2. ASSUME Create(r) PROVE StatusInOrder(r)'
    BY <1>2, CreateDoes
<1>3. ASSUME Start(r) PROVE StatusInOrder(r)'
    BY <1>3, StartDoes
<1>4. ASSUME Popen(r) PROVE StatusInOrder(r)'
    BY <1>4, PopenDoes
<1>5. ASSUME RunStart(r) PROVE StatusInOrder(r)'
    BY <1>5, RunStartDoes
<1>6. ASSUME LogHparams(r) PROVE StatusInOrder(r)'
    BY <1>6, LogHparamsDoes
<1>7. ASSUME LogMetrics(r) PROVE StatusInOrder(r)'
    BY <1>7, LogMetricsDoes
<1>8. ASSUME proc[r] = "alive", Dies(r) PROVE StatusInOrder(r)'
    BY <1>8, DiesDoes
<1>9. ASSUME CancelLogs(r) PROVE StatusInOrder(r)'
    BY <1>9, CancelLogsDoes
<1>10. ASSUME StartWrapup(r) PROVE StatusInOrder(r)'
    BY <1>10, StartWrapupDoes
<1>11. ASSUME LogEnded(r) PROVE StatusInOrder(r)'
    BY <1>11, LogEndedDoes
<1>12. ASSUME UpdateAtEnd(r) PROVE StatusInOrder(r)'
    BY <1>12, UpdateAtEndDoes
<1>13. ASSUME CaptureAfter(r) PROVE StatusInOrder(r)'
    BY <1>13, CaptureAfterDoes
<1>14. ASSUME RunExitReads(r) PROVE StatusInOrder(r)'
    BY <1>14, RunExitReadsDoes
<1>15. ASSUME RunExitWrites(r) PROVE StatusInOrder(r)'
    BY <1>15, RunExitWritesDoes
<1>16. ASSUME Mark(r) PROVE StatusInOrder(r)'
    BY <1>16, MarkDoes
<1>17. ASSUME Crash(r) PROVE StatusInOrder(r)'
    BY <1>17, CrashDoes
<1>18. ASSUME Reboot(r) PROVE StatusInOrder(r)'
    BY <1>18, RebootDoes
<1> QED BY <1>1, <1>2, <1>3, <1>4, <1>5, <1>6, <1>7, <1>8, <1>9, <1>10, <1>11, <1>12, <1>13,
           <1>14, <1>15, <1>16, <1>17, <1>18 DEF RunStep, Launch, Wrapup

\* Every step keeps the times those of the current attempt.
LEMMA TimesKeepOrder ==
  ASSUME NEW r \in Runs, TypeOK, Domains, CallsAreEvents(r), WritersInOrder(r),
         LaunchInOrder(r), TimesInOrder(r), RunStep(r)
  PROVE  TimesInOrder(r)'
<1> USE PhaseTypes, WriterNames DEF TimesInOrder, LaunchInOrder, Controlled
<1>1. ASSUME NEW w \in Writers, Write(r, w) PROVE TimesInOrder(r)'
    BY <1>1, WriteDoes, DocumentWritten
<1>2. ASSUME Create(r) PROVE TimesInOrder(r)'
    BY <1>2, CreateDoes
<1>3. ASSUME Start(r) PROVE TimesInOrder(r)'
    BY <1>3, StartDoes
<1>4. ASSUME Popen(r) PROVE TimesInOrder(r)'
    BY <1>4, PopenDoes
<1>5. ASSUME RunStart(r) PROVE TimesInOrder(r)'
    BY <1>5, RunStartDoes
<1>6. ASSUME LogHparams(r) PROVE TimesInOrder(r)'
    BY <1>6, LogHparamsDoes
<1>7. ASSUME LogMetrics(r) PROVE TimesInOrder(r)'
    BY <1>7, LogMetricsDoes
<1>8. ASSUME proc[r] = "alive", Dies(r) PROVE TimesInOrder(r)'
    BY <1>8, DiesDoes
<1>9. ASSUME CancelLogs(r) PROVE TimesInOrder(r)'
    BY <1>9, CancelLogsDoes
<1>10. ASSUME StartWrapup(r) PROVE TimesInOrder(r)'
    BY <1>10, StartWrapupDoes
<1>11. ASSUME LogEnded(r) PROVE TimesInOrder(r)'
    BY <1>11, LogEndedDoes
<1>12. ASSUME UpdateAtEnd(r) PROVE TimesInOrder(r)'
    BY <1>12, UpdateAtEndDoes
<1>13. ASSUME CaptureAfter(r) PROVE TimesInOrder(r)'
    BY <1>13, CaptureAfterDoes
<1>14. ASSUME RunExitReads(r) PROVE TimesInOrder(r)'
    BY <1>14, RunExitReadsDoes
<1>15. ASSUME RunExitWrites(r) PROVE TimesInOrder(r)'
    BY <1>15, RunExitWritesDoes
<1>16. ASSUME Mark(r) PROVE TimesInOrder(r)'
    BY <1>16, MarkDoes
<1>17. ASSUME Crash(r) PROVE TimesInOrder(r)'
    BY <1>17, CrashDoes
<1>18. ASSUME Reboot(r) PROVE TimesInOrder(r)'
    BY <1>18, RebootDoes
<1> QED BY <1>1, <1>2, <1>3, <1>4, <1>5, <1>6, <1>7, <1>8, <1>9, <1>10, <1>11, <1>12, <1>13,
           <1>14, <1>15, <1>16, <1>17, <1>18 DEF RunStep, Launch, Wrapup

-----------------------------------------------------------------------------
(***************************************************************************)
(* The metrics and what is rolled up from the log file                     *)
(***************************************************************************)

\* Without a write to the log file, nothing read from it changes.
LEMMA RollUpStays ==
  ASSUME NEW r, log'[r] = log[r]
  PROVE  /\ \A event : Places(r, event)' = Places(r, event)
         /\ Valid(r)' = Valid(r)
         /\ LastOf(r, Places(r, "metrics"))' = LastOf(r, Places(r, "metrics"))
         /\ RollUp(r)' = RollUp(r) /\ RollUpHparams(r)' = RollUpHparams(r)
         /\ \A rec : IsLast(r, rec)' <=> IsLast(r, rec)
BY DEF Places, Valid, LastOf, RollUp, RollUpHparams, IsLast

\* A record that is neither of metrics nor of hyperparameters.
LEMMA RollUpIgnores ==
  ASSUME NEW r \in Runs, NEW rec \in Records, log[r] \in Seq(Records),
         log'[r] = Append(log[r], rec), rec.event \notin {"metrics", "hparams"}
  PROVE  /\ Places(r, "metrics")' = Places(r, "metrics")
         /\ \A i \in Places(r, "metrics") : log'[r][i] = log[r][i]
         /\ LastOf(r, Places(r, "metrics"))' = LastOf(r, Places(r, "metrics"))
         /\ RollUp(r)' = RollUp(r) /\ RollUpHparams(r)' = RollUpHparams(r)
<1> DEFINE n == Len(log[r])
<1>1. /\ n \in Nat /\ DOMAIN log[r] = 1 .. n
      /\ \A i \in 1 .. n : log'[r][i] = log[r][i]
      /\ \A event \in {"metrics", "hparams"} : Places(r, event)' = Places(r, event)
  BY LogGrows
<1>2. \A event : Places(r, event) \in SUBSET (1 .. n)
  BY <1>1, PlacesInLog
<1> HIDE DEF n
<1>3. Valid(r)' = Valid(r) /\ Valid(r) \in SUBSET (1 .. n)
  BY <1>1, <1>2 DEF Valid
<1>4. ASSUME NEW S \in SUBSET (1 .. n)
      PROVE  (IF S = {} THEN NoMetrics ELSE log'[r][Max(S)])
               = IF S = {} THEN NoMetrics ELSE log[r][Max(S)]
  BY <1>1, <1>4, LastPlace
<1>5. LastOf(r, Places(r, "metrics"))' = LastOf(r, Places(r, "metrics"))
  BY <1>1, <1>2, <1>4 DEF LastOf
<1>6. LastOf(r, Places(r, "hparams"))' = LastOf(r, Places(r, "hparams"))
  BY <1>1, <1>2, <1>4 DEF LastOf
<1>7. LastOf(r, Valid(r))' = LastOf(r, Valid(r))
  BY <1>3, <1>4 DEF LastOf
<1>8. RollUp(r)' = RollUp(r)
  BY <1>3, <1>5, <1>7 DEF RollUp
<1>9. RollUpHparams(r)' = RollUpHparams(r)
  BY <1>6 DEF RollUpHparams
<1> QED BY <1>1, <1>2, <1>5, <1>8, <1>9

\* The last metrics stay the last when something else is logged.
LEMMA LastStays ==
  ASSUME NEW r \in Runs, NEW rec \in Records, log[r] \in Seq(Records),
         log'[r] = Append(log[r], rec), rec.event # "metrics"
  PROVE  /\ Places(r, "metrics")' = Places(r, "metrics")
         /\ \A last : IsLast(r, last) => IsLast(r, last)'
<1>1. /\ DOMAIN log[r] = 1 .. Len(log[r])
      /\ \A i \in 1 .. Len(log[r]) : log'[r][i] = log[r][i]
      /\ Places(r, "metrics")' = Places(r, "metrics")
  BY LogGrows
<1>2. Places(r, "metrics") \subseteq 1 .. Len(log[r])
  BY <1>1, PlacesInLog
<1> QED BY <1>1, <1>2 DEF IsLast

\* Metrics just logged are the last ones.
LEMMA NewIsLast ==
  ASSUME NEW r \in Runs, NEW rec \in Records, log[r] \in Seq(Records),
         log'[r] = Append(log[r], rec), rec.event = "metrics"
  PROVE  IsLast(r, rec)' /\ Places(r, "metrics")' # {}
<1> DEFINE n == Len(log[r])
<1>1. /\ n \in Nat /\ DOMAIN log[r] = 1 .. n /\ log'[r][n + 1] = rec
      /\ Places(r, "metrics")' = Places(r, "metrics") \cup {n + 1}
  BY LogGrows
<1>2. Places(r, "metrics") \in SUBSET (1 .. n)
  BY <1>1, PlacesInLog
<1> HIDE DEF n
<1>3. \A j \in Places(r, "metrics")' : j <= n + 1
  BY <1>1, <1>2
<1> QED BY <1>1, <1>3 DEF IsLast

\* What rolling up the metrics finds: no valid metrics are after it.
LEMMA RollUpIs ==
  ASSUME NEW r \in Runs, log[r] \in Seq(Records)
  PROVE  /\ Places(r, "metrics") = {} =>
              RollUp(r) = NoMetrics /\ LastOf(r, Places(r, "metrics")) = NoMetrics
         /\ Places(r, "metrics") # {} =>
              \E i, m \in Places(r, "metrics") :
                /\ RollUp(r) = log[r][i] /\ RollUp(r) # NoMetrics
                /\ LastOf(r, Places(r, "metrics")) = log[r][m]
                /\ log[r][m].zero \/ i = m
                /\ \A k \in Places(r, "metrics") : ~log[r][k].zero => k <= i
<1> DEFINE P == Places(r, "metrics")
<1>1. P \in SUBSET DOMAIN log[r] /\ Valid(r) \in SUBSET DOMAIN log[r]
  BY PlacesInLog
<1>2. Valid(r) = {k \in P : ~log[r][k].zero} /\ \A k \in P : log[r][k].event = "metrics"
  BY DEF Valid, Places
<1>3. DOMAIN log[r] \subseteq Nat
  OBVIOUS
<1>4. RollUp(r) = LastOf(r, IF Valid(r) = {} THEN P ELSE Valid(r))
  BY DEF RollUp
<1> HIDE DEF P
<1>5. CASE P = {}
  BY <1>2, <1>4, <1>5 DEF LastOf, P
<1>6. CASE P # {}
  <2>1. PICK m \in P : LastOf(r, P) = log[r][m] /\ \A j \in P : j <= m
    BY <1>1, <1>6, LastOfIs
  <2>2. PICK i \in P : /\ RollUp(r) = log[r][i]
                       /\ Valid(r) = {} => \A j \in P : j <= i
                       /\ Valid(r) # {} => i \in Valid(r) /\ \A j \in Valid(r) : j <= i
    <3>1. CASE Valid(r) = {}
      BY <1>4, <2>1, <3>1
    <3>2. CASE Valid(r) # {}
      <4>1. PICK i \in Valid(r) : LastOf(r, Valid(r)) = log[r][i] /\ \A j \in Valid(r) : j <= i
        BY <1>1, <3>2, LastOfIs
      <4>2. i \in P
        BY <1>2, <4>1
      <4> QED BY <1>4, <3>2, <4>1, <4>2
    <3> QED BY <3>1, <3>2
  <2>3. RollUp(r) # NoMetrics
    BY <1>2, <2>2 DEF NoMetrics
  <2>4. i \in Nat /\ m \in Nat
    BY <1>1, <1>3
  <2>5. log[r][m].zero \/ i = m
    <3>1. CASE Valid(r) = {}
      BY <1>2, <2>1, <3>1
    <3>2. CASE Valid(r) # {}
      <4>1. SUFFICES ASSUME ~log[r][m].zero PROVE i = m
        OBVIOUS
      <4>2. m \in Valid(r)
        BY <1>2, <2>1, <4>1
      <4>3. m <= i /\ i <= m
        BY <2>1, <2>2, <4>2
      <4> QED BY <2>4, <4>3
    <3> QED BY <3>1, <3>2
  <2>6. \A k \in P : ~log[r][k].zero => k <= i
    BY <1>2, <2>2
  <2> QED BY <1>6, <2>1, <2>2, <2>3, <2>5, <2>6 DEF P
<1> QED BY <1>5, <1>6 DEF P

\* Every step keeps the document's metrics the last of the log file.
LEMMA MetricsKeepOrder ==
  ASSUME NEW r \in Runs, TypeOK, Domains, CallsAreEvents(r), WritersInOrder(r),
         PhasesInOrder(r), MetricsInOrder(r), RunStep(r)
  PROVE  MetricsInOrder(r)'
<1> USE WriterNames, PhaseTypes
<1>1. ASSUME NEW w \in Writers, Write(r, w), Step(r, w) = "log" PROVE MetricsInOrder(r)'
  <2>6. PICK rec \in Records : rec = Rec(r, w)
    BY <1>1, LogWritten
  <2>1. /\ rec \in Records /\ rec.event \in Kinds(w)
        /\ log[r] \in Seq(Records) /\ log'[r] = Append(log[r], rec)
        /\ Step(r, w)' = "records" /\ Rec(r, w)' = rec
        /\ \A v \in Writers \ {w} : SameCall(r, v)
    BY <1>1, <2>6, LogWritten
  <2>2. /\ proc'[r] = proc[r] /\ wrap'[r] = wrap[r] /\ told'[r] = told[r] /\ roll'[r] = roll[r]
        /\ doc'[r].metrics = doc[r].metrics
    BY <1>1, WriteDoes, DocumentWritten
  <2>3. /\ w = "user" => wrap[r] = "no"
        /\ w # "user" => rec.event \notin {"metrics", "hparams"}
    BY <1>1, <2>1, <2>6, KindsApart DEF PhasesInOrder, UserInOrder
  <2>4. CASE rec.event = "metrics"
    <3>1. IsLast(r, rec)' /\ Places(r, "metrics")' # {} /\ w = "user"
      BY <2>1, <2>3, <2>4, NewIsLast
    <3>2. IsLast(r, Rec(r, "user"))'
      BY <2>1, <3>1 DEF IsLast
    <3> QED BY <2>1, <2>2, <2>3, <3>1, <3>2 DEF MetricsInOrder, Has
  <2>5. CASE rec.event # "metrics"
    <3>1. Places(r, "metrics")' = Places(r, "metrics")
          /\ \A last : IsLast(r, last) => IsLast(r, last)'
      BY <2>1, <2>5, LastStays
    <3>2. wrap[r] = "update" => RollUp(r)' = RollUp(r) /\ RollUpHparams(r)' = RollUpHparams(r)
      BY <2>1, <2>3, RollUpIgnores
    <3>3. Step(r, "user")' \in {"records", "doc"} /\ Rec(r, "user")'.event = "metrics" =>
            IsLast(r, Rec(r, "user"))'
      BY <2>1, <2>5, <3>1 DEF MetricsInOrder, SameCall
    <3>4. Step(r, "user")' = "none" => Step(r, "user") = "none"
      BY <2>1 DEF SameCall
    <3> QED BY <2>2, <3>1, <3>2, <3>3, <3>4 DEF MetricsInOrder, Has
  <2> QED BY <2>4, <2>5
<1>2. ASSUME NEW w \in Writers, Write(r, w), Step(r, w) # "log" PROVE MetricsInOrder(r)'
  <2>1. /\ proc'[r] = proc[r] /\ wrap'[r] = wrap[r] /\ told'[r] = told[r] /\ roll'[r] = roll[r]
        /\ Rec(r, w).event \in Kinds(w)
        /\ doc'[r].metrics = IF Step(r, w) = "doc" /\ Rec(r, w).event = "metrics"
                             THEN Rec(r, w) ELSE doc[r].metrics
    BY <1>2, WriteDoes, DocumentWritten
  <2>2. log'[r] = log[r]
    BY <1>2, LogNotWritten
  <2>3. /\ \A event : Places(r, event)' = Places(r, event)
        /\ RollUp(r)' = RollUp(r) /\ RollUpHparams(r)' = RollUpHparams(r)
        /\ \A rec : IsLast(r, rec)' <=> IsLast(r, rec)
    BY <2>2, RollUpStays
  <2>4. CASE w = "user"
    <3>1. Rec(r, "user").event \in {"hparams", "metrics"}
      BY <2>1, <2>4 DEF Kinds
    <3>2. /\ Step(r, "user") \in {"records", "doc"}
          /\ Step(r, "user") = "records" => Step(r, "user")' = "doc"
          /\ Step(r, "user") = "doc" => Step(r, "user")' = "none"
          /\ Step(r, "user")' # "none" => Rec(r, "user")' = Rec(r, "user")
      BY <1>2, <2>4, <3>1, CallsOfWrite DEF Follows, InDocument
    <3>3. IsLast(r, Rec(r, "user")) => Has(r, "metrics")
      BY DEF IsLast, Has
    <3>4. Rec(r, "user").event = "hparams" => told[r] = 1
      BY <3>2 DEF PhasesInOrder, UserInOrder
    <3>5. Step(r, "user") = "doc" => Rec(r, "user").event = "hparams" \/ IsLast(r, doc'[r].metrics)
      BY <2>1, <2>4, <3>1 DEF MetricsInOrder
    <3>6. doc'[r].metrics # NoMetrics => Has(r, "metrics")
      BY <2>1, <2>4, <3>3 DEF MetricsInOrder
    <3>7. Step(r, "user")' \in {"records", "doc"} /\ Rec(r, "user")'.event = "metrics" =>
            IsLast(r, Rec(r, "user")) /\ Rec(r, "user")' = Rec(r, "user")
      BY <3>2 DEF MetricsInOrder
    <3> QED BY <2>1, <2>3, <3>2, <3>4, <3>5, <3>6, <3>7 DEF MetricsInOrder, Has
  <2>5. CASE w # "user"
    <3>1. SameCall(r, "user")
      BY <1>2, <2>5, LogNotWritten
    <3>2. doc'[r].metrics = doc[r].metrics
      BY <2>1, <2>5, KindsApart
    <3> QED BY <2>1, <2>3, <3>1, <3>2 DEF MetricsInOrder, Has, SameCall
  <2> QED BY <2>4, <2>5
<1>3. ASSUME log'[r] = log[r],
             Step(r, "user")' \in {"records", "doc"} => SameCall(r, "user"),
             proc'[r] = "alive" /\ wrap'[r] = "no" /\ told'[r] > 1 /\ Step(r, "user")' = "none" =>
               proc[r] = "alive" /\ wrap[r] = "no" /\ told[r] > 1 /\ Step(r, "user") = "none",
             doc'[r].metrics = doc[r].metrics,
             wrap'[r] = "update" =>
               \/ wrap[r] = "update" /\ roll'[r] = roll[r]
               \/ roll'[r].metrics = RollUp(r) /\ roll'[r].hparams = RollUpHparams(r)
      PROVE  MetricsInOrder(r)'
  <2>1. /\ \A event : Places(r, event)' = Places(r, event)
        /\ RollUp(r)' = RollUp(r) /\ RollUpHparams(r)' = RollUpHparams(r)
        /\ \A rec : IsLast(r, rec)' <=> IsLast(r, rec)
    BY <1>3, RollUpStays
  <2> QED BY <1>3, <2>1 DEF MetricsInOrder, Has, SameCall
<1>4. CASE UpdateAtEnd(r)
  <2>1. /\ log'[r] = log[r] /\ wrap[r] = "update" /\ wrap'[r] = "capture"
        /\ doc'[r].metrics = IF roll[r].metrics = NoMetrics THEN doc[r].metrics ELSE roll[r].metrics
        /\ SameCall(r, "user")
    BY <1>4, UpdateAtEndDoes
  <2>2. roll[r].metrics = RollUp(r) /\ log[r] \in Seq(Records)
    BY <2>1 DEF MetricsInOrder, TypeOK
  <2>3. Has(r, "metrics") \/ RollUp(r) = NoMetrics
    BY <2>2, RollUpIs DEF Has
  <2>4. Step(r, "user") = "none"
    BY <2>1 DEF PhasesInOrder, UserInOrder
  <2>5. \A event : Places(r, event)' = Places(r, event)
    BY <2>1, RollUpStays
  <2> QED BY <2>1, <2>2, <2>3, <2>4, <2>5 DEF MetricsInOrder, Has, SameCall
<1>5. CASE Create(r)
  BY <1>5, <1>3, CreateDoes DEF SameCall, Begins
<1>6. CASE Start(r)
  BY <1>6, <1>3, StartDoes DEF SameCall, Begins, PhasesInOrder, LaunchInOrder
<1>7. CASE Popen(r)
  BY <1>7, <1>3, PopenDoes DEF SameCall, Begins, PhasesInOrder, LaunchInOrder
<1>8. CASE RunStart(r)
  BY <1>8, <1>3, RunStartDoes DEF SameCall, Begins
<1>9. CASE LogHparams(r)
  BY <1>9, <1>3, LogHparamsDoes DEF SameCall, Begins
<1>10. CASE LogMetrics(r)
  BY <1>10, <1>3, LogMetricsDoes DEF SameCall, Begins
<1>11. CASE proc[r] = "alive" /\ Dies(r)
  BY <1>11, <1>3, DiesDoes DEF SameCall, Begins
<1>12. CASE CancelLogs(r)
  BY <1>12, <1>3, CancelLogsDoes DEF SameCall, Begins
<1>13. CASE StartWrapup(r)
  BY <1>13, <1>3, StartWrapupDoes DEF SameCall, Begins
<1>14. CASE LogEnded(r)
  BY <1>14, <1>3, LogEndedDoes DEF SameCall, Begins
<1>15. CASE CaptureAfter(r)
  BY <1>15, <1>3, CaptureAfterDoes DEF SameCall, Begins
<1>16. CASE RunExitReads(r)
  BY <1>16, <1>3, RunExitReadsDoes DEF SameCall, Begins
<1>17. CASE RunExitWrites(r)
  BY <1>17, <1>3, RunExitWritesDoes DEF SameCall, Begins
<1>18. CASE Mark(r)
  BY <1>18, <1>3, MarkDoes DEF SameCall, Begins
<1>19. CASE Crash(r)
  BY <1>19, <1>3, CrashDoes DEF SameCall, Begins
<1>20. CASE Reboot(r)
  BY <1>20, <1>3, RebootDoes DEF SameCall, Begins
<1> QED BY <1>1, <1>2, <1>4, <1>5, <1>6, <1>7, <1>8, <1>9, <1>10, <1>11, <1>12, <1>13, <1>14,
           <1>15, <1>16, <1>17, <1>18, <1>19, <1>20 DEF RunStep, Launch, Wrapup

\* What is rolled up belongs together: the metrics and the hyperparameters
\* of one attempt, unless the last attempt has none that count.
LEMMA RollUpIsPaired ==
  ASSUME NEW r \in Runs, TypeOK, LogIsOrdered(r), Places(r, "metrics") # {}
  PROVE  /\ RollUpHparams(r) # 0
         /\ \/ RollUpHparams(r) = Drawn(r, RollUp(r).try)
            \/ /\ attempt[r] > 1
               /\ \A k \in Places(r, "metrics") : log[r][k].try = attempt[r] => log[r][k].zero
<1> DEFINE M == Places(r, "metrics")
           H == Places(r, "hparams")
<1>1. log[r] \in Seq(Records) /\ attempt[r] \in Nat \ {0}
  BY DEF TypeOK
<1>2. /\ M \in SUBSET DOMAIN log[r] /\ H \in SUBSET DOMAIN log[r]
      /\ DOMAIN log[r] \subseteq Nat
      /\ \A i \in DOMAIN log[r] : log[r][i].try \in Nat /\ log[r][i].zero \in BOOLEAN
  <2>1. \A rec \in Records : rec.try \in Nat /\ rec.zero \in BOOLEAN
    BY DEF Records
  <2> QED BY <1>1, <2>1, PlacesInLog
<1>3. /\ \A i \in DOMAIN log[r] : log[r][i].try <= attempt[r]
      /\ \A i, j \in DOMAIN log[r] : i < j => log[r][i].try <= log[r][j].try
      /\ \A i \in H : log[r][i].n = Drawn(r, log[r][i].try) /\ log[r][i].try > 0
      /\ \A i \in M : \E j \in H : log[r][j].try = log[r][i].try
  BY DEF LogIsOrdered
<1>4. PICK i \in M : RollUp(r) = log[r][i] /\ \A k \in M : ~log[r][k].zero => k <= i
  BY <1>1, RollUpIs
<1> HIDE DEF M, H
<1>5. PICK j \in H : log[r][j].try = log[r][i].try
  BY <1>3
<1>6. PICK h \in H : LastOf(r, H) = log[r][h] /\ \A k \in H : k <= h
  BY <1>1, <1>2, <1>5, LastOfIs
<1>7. RollUpHparams(r) = Drawn(r, log[r][h].try) /\ log[r][h].try > 0
  BY <1>3, <1>6 DEF RollUpHparams, H
<1>8. RollUpHparams(r) # 0
  BY <1>2, <1>7 DEF Drawn
<1>9. CASE ~Controlled(r)
  BY <1>4, <1>7, <1>8, <1>9 DEF Drawn
<1>10. CASE attempt[r] = 1
  <2>1. log[r][h].try = 1 /\ log[r][j].try = 1
    BY <1>2, <1>3, <1>10
  <2> QED BY <1>4, <1>5, <1>7, <1>8, <2>1
<1>11. CASE attempt[r] > 1
  <2>1. CASE \A k \in M : log[r][k].try = attempt[r] => log[r][k].zero
    BY <1>8, <1>11, <2>1 DEF M
  <2>2. ASSUME NEW k \in M, log[r][k].try = attempt[r], ~log[r][k].zero
        PROVE  log[r][h].try = log[r][i].try
    <3>1. k <= i /\ j <= h
      BY <1>4, <1>6, <2>2
    <3>2. log[r][i].try = attempt[r]
      BY <1>2, <1>3, <2>2, <3>1
    <3>3. log[r][h].try = attempt[r]
      BY <1>2, <1>3, <1>5, <3>1, <3>2
    <3> QED BY <3>2, <3>3
  <2> QED BY <1>4, <1>7, <1>8, <2>1, <2>2
<1> QED BY <1>1, <1>10, <1>11

\* Every step keeps what the end has written right for the log file.
LEMMA EndKeepsOrder ==
  ASSUME NEW r \in Runs, TypeOK, Domains, CallsAreEvents(r), WritersInOrder(r),
         PhasesInOrder(r), LogIsOrdered(r), MetricsInOrder(r), EndedInOrder(r), RunStep(r)
  PROVE  EndedInOrder(r)'
<1> USE WriterNames, PhaseTypes
<1>1. ASSUME Places(r, "metrics")' = Places(r, "metrics"),
             LastOf(r, Places(r, "metrics"))' = LastOf(r, Places(r, "metrics")),
             \A i \in Places(r, "metrics") : log'[r][i] = log[r][i],
             Over(r)' => Over(r) /\ attempt'[r] = attempt[r] /\ direct' = direct,
             doc'[r].metrics = doc[r].metrics, doc'[r].hparams = doc[r].hparams
      PROVE  EndedInOrder(r)'
  BY <1>1 DEF EndedInOrder, Drawn, Controlled
<1>2. ASSUME log'[r] = log[r],
             Over(r)' => Over(r) /\ attempt'[r] = attempt[r] /\ direct' = direct,
             doc'[r].metrics = doc[r].metrics, doc'[r].hparams = doc[r].hparams
      PROVE  EndedInOrder(r)'
  BY <1>1, <1>2, RollUpStays
<1>3. ASSUME NEW w \in Writers, Write(r, w) PROVE EndedInOrder(r)'
  <2>1. /\ Over(r)' <=> Over(r)
        /\ attempt'[r] = attempt[r] /\ direct' = direct
    BY <1>3, WriteDoes DEF Over
  <2>2. CASE ~Over(r)
    BY <2>1, <2>2 DEF EndedInOrder
  <2>3. CASE Over(r)
    <3>1. w # "user"
      BY <1>3, <2>3, CallsOfWrite DEF PhasesInOrder, UserInOrder, Over
    <3>2. /\ Rec(r, w).event \notin {"metrics", "hparams"}
          /\ doc'[r].metrics = doc[r].metrics /\ doc'[r].hparams = doc[r].hparams
      BY <1>3, <3>1, DocumentWritten, KindsApart
    <3>3. CASE Step(r, w) = "log"
      <4>1. PICK rec \in Records : rec = Rec(r, w)
        BY <1>3, <3>3, LogWritten
      <4>2. log[r] \in Seq(Records) /\ log'[r] = Append(log[r], rec)
        BY <1>3, <3>3, <4>1, LogWritten
      <4>3. /\ Places(r, "metrics")' = Places(r, "metrics")
            /\ LastOf(r, Places(r, "metrics"))' = LastOf(r, Places(r, "metrics"))
            /\ \A i \in Places(r, "metrics") : log'[r][i] = log[r][i]
        BY <3>2, <4>1, <4>2, RollUpIgnores
      <4> QED BY <1>1, <2>1, <3>2, <4>3
    <3>4. CASE Step(r, w) # "log"
      BY <1>2, <1>3, <2>1, <3>2, <3>4, LogNotWritten
    <3> QED BY <3>3, <3>4
  <2> QED BY <2>2, <2>3
<1>4. CASE UpdateAtEnd(r)
  <2>1. /\ log'[r] = log[r] /\ attempt'[r] = attempt[r] /\ direct' = direct
        /\ wrap[r] = "update"
        /\ doc'[r].metrics = IF roll[r].metrics = NoMetrics THEN doc[r].metrics ELSE roll[r].metrics
        /\ doc'[r].hparams = IF roll[r].hparams = 0 THEN doc[r].hparams ELSE roll[r].hparams
    BY <1>4, UpdateAtEndDoes
  <2>2. /\ roll[r].metrics = RollUp(r) /\ roll[r].hparams = RollUpHparams(r)
        /\ log[r] \in Seq(Records) /\ (doc[r].metrics # NoMetrics => Has(r, "metrics"))
    BY <2>1 DEF MetricsInOrder, TypeOK
  <2>3. /\ Places(r, "metrics")' = Places(r, "metrics")
        /\ LastOf(r, Places(r, "metrics"))' = LastOf(r, Places(r, "metrics"))
    BY <2>1, RollUpStays
  <2>4. CASE Places(r, "metrics") = {}
    <3>1. RollUp(r) = NoMetrics /\ LastOf(r, Places(r, "metrics")) = NoMetrics
      BY <2>2, <2>4, RollUpIs
    <3>2. doc'[r].metrics = NoMetrics
      BY <2>1, <2>2, <2>4, <3>1 DEF Has
    <3> QED BY <2>3, <3>1, <3>2 DEF EndedInOrder
  <2>5. CASE Places(r, "metrics") # {}
    <3>1. PICK i \in Places(r, "metrics"), m \in Places(r, "metrics") :
            /\ RollUp(r) = log[r][i] /\ RollUp(r) # NoMetrics
            /\ LastOf(r, Places(r, "metrics")) = log[r][m] /\ (log[r][m].zero \/ i = m)
      BY <2>2, <2>5, RollUpIs
    <3>2. /\ RollUpHparams(r) # 0
          /\ \/ RollUpHparams(r) = Drawn(r, RollUp(r).try)
             \/ /\ attempt[r] > 1
                /\ \A k \in Places(r, "metrics") : log[r][k].try = attempt[r] => log[r][k].zero
      BY <2>5, RollUpIsPaired
    <3>3. doc'[r].metrics = RollUp(r) /\ doc'[r].hparams = RollUpHparams(r)
      BY <2>1, <2>2, <3>1, <3>2
    <3> QED BY <2>1, <2>3, <3>1, <3>2, <3>3 DEF EndedInOrder, Drawn, Controlled
  <2> QED BY <2>4, <2>5
<1>5. CASE Create(r)
  BY <1>5, <1>2, CreateDoes DEF Over
<1>6. CASE Start(r)
  BY <1>6, <1>2, StartDoes DEF Over
<1>7. CASE Popen(r)
  BY <1>7, <1>2, PopenDoes DEF Over
<1>8. CASE RunStart(r)
  BY <1>8, <1>2, RunStartDoes DEF Over
<1>9. CASE LogHparams(r)
  BY <1>9, <1>2, LogHparamsDoes DEF Over
<1>10. CASE LogMetrics(r)
  BY <1>10, <1>2, LogMetricsDoes DEF Over
<1>11. CASE proc[r] = "alive" /\ Dies(r)
  BY <1>11, <1>2, DiesDoes DEF Over
<1>12. CASE CancelLogs(r)
  BY <1>12, <1>2, CancelLogsDoes DEF Over
<1>13. CASE StartWrapup(r)
  BY <1>13, <1>2, StartWrapupDoes DEF Over
<1>14. CASE LogEnded(r)
  BY <1>14, <1>2, LogEndedDoes DEF Over
<1>15. CASE CaptureAfter(r)
  BY <1>15, <1>2, CaptureAfterDoes DEF Over
<1>16. CASE RunExitReads(r)
  BY <1>16, <1>2, RunExitReadsDoes DEF Over
<1>17. CASE RunExitWrites(r)
  BY <1>17, <1>2, RunExitWritesDoes DEF Over
<1>18. CASE Mark(r)
  BY <1>18, <1>2, MarkDoes DEF Over
<1>19. CASE Crash(r)
  BY <1>19, <1>2, CrashDoes DEF Over
<1>20. CASE Reboot(r)
  BY <1>20, <1>2, RebootDoes DEF Over
<1> QED BY <1>3, <1>4, <1>5, <1>6, <1>7, <1>8, <1>9, <1>10, <1>11, <1>12, <1>13, <1>14, <1>15,
           <1>16, <1>17, <1>18, <1>19, <1>20 DEF RunStep, Launch, Wrapup

-----------------------------------------------------------------------------
(***************************************************************************)
(* The file with the logs of all ended runs                                *)
(***************************************************************************)

\* Every step keeps an added log in the file, or an excuse for its loss.
LEMMA AggregateKeepsOrder ==
  ASSUME TypeOK, AggregateInOrder, [Next]_vars
  PROVE  AggregateInOrder'
<1>1. /\ agg \in [Runs \cup Siblings -> {"no", "test", "create", "append", "in"}]
      /\ beside \in [Runs \cup Siblings -> SUBSET (Runs \cup Siblings)]
      /\ DOMAIN wrap = Runs /\ DOMAIN attempt = Runs
  BY DEF TypeOK
<1> DEFINE Creating == {q \in Runs \cup Siblings : agg[q] = "create"}
<1>2. ASSUME UNCHANGED <<agg, all, attempt, beside>>,
             \A r \in Runs : /\ wrap'[r] = "no" => wrap[r] = "no"
                             /\ wrap'[r] \notin {"no", "all"} =>
                                  wrap[r] \notin {"no", "all"} \/ agg[r] = "in"
      PROVE  AggregateInOrder'
  BY <1>2 DEF AggregateInOrder
<1>3. ASSUME NEW r \in Runs, NEW w \in Writers, Write(r, w) PROVE AggregateInOrder'
  BY <1>2, <1>3 DEF Write, store, life, history
<1>4. ASSUME NEW r \in Runs, Create(r) PROVE AggregateInOrder'
  BY <1>2, <1>4 DEF Create, store, life, history
<1>5. ASSUME NEW r \in Runs, Start(r) PROVE AggregateInOrder'
  BY <1>2, <1>5 DEF Start, store, life, history
<1>6. ASSUME NEW r \in Runs, Popen(r) PROVE AggregateInOrder'
  BY <1>2, <1>6 DEF Popen, store, life, history
<1>7. ASSUME NEW r \in Runs, RunStart(r) PROVE AggregateInOrder'
  BY <1>2, <1>7 DEF RunStart, store, life, history
<1>8. ASSUME NEW r \in Runs, LogHparams(r) PROVE AggregateInOrder'
  BY <1>2, <1>8 DEF LogHparams, store, life, history
<1>9. ASSUME NEW r \in Runs, LogMetrics(r) PROVE AggregateInOrder'
  BY <1>2, <1>9 DEF LogMetrics, store, life, history
<1>10. ASSUME NEW r \in Runs, ProcessEnds(r) PROVE AggregateInOrder'
  BY <1>2, <1>10 DEF ProcessEnds, Dies, store, life, history
<1>11. ASSUME NEW r \in Runs, CancelLogs(r) PROVE AggregateInOrder'
  BY <1>2, <1>11 DEF CancelLogs, store, life, history
<1>12. ASSUME NEW r \in Runs, CancelKills(r) PROVE AggregateInOrder'
  BY <1>2, <1>12 DEF CancelKills, Dies, store, life, history
<1>13. ASSUME NEW r \in Runs, Crash(r) PROVE AggregateInOrder'
  BY <1>2, <1>13 DEF Crash, store, life, history
<1>14. ASSUME NEW r \in Runs, LogEnded(r) PROVE AggregateInOrder'
  BY <1>1, <1>2, <1>14 DEF LogEnded, store, life, history, WrapAt, WrapOn
<1>15. ASSUME NEW r \in Runs, UpdateAtEnd(r) PROVE AggregateInOrder'
  BY <1>1, <1>2, <1>15 DEF UpdateAtEnd, store, life, history, WrapAt, WrapOn
<1>16. ASSUME NEW r \in Runs, CaptureAfter(r) PROVE AggregateInOrder'
  BY <1>1, <1>2, <1>16 DEF CaptureAfter, store, life, history, WrapAt, WrapOn
<1>17. ASSUME NEW r \in Runs, RunExitReads(r) PROVE AggregateInOrder'
  BY <1>1, <1>2, <1>17 DEF RunExitReads, store, life, history, WrapAt, WrapOn
<1>18. ASSUME NEW r \in Runs, RunExitWrites(r) PROVE AggregateInOrder'
  BY <1>1, <1>2, <1>18 DEF RunExitWrites, store, life, history, WrapAt, WrapOn
<1>19. ASSUME NEW r \in Runs, Mark(r) PROVE AggregateInOrder'
  BY <1>1, <1>2, <1>19 DEF Mark, store, life, history, WrapAt, WrapOn
<1>20. ASSUME NEW r \in Runs, StartWrapup(r) PROVE AggregateInOrder'
  <2>1. /\ wrap[r] = "no" /\ wrap' = [wrap EXCEPT ![r] = "all"]
        /\ agg' = [agg EXCEPT ![r] = "test"] /\ UNCHANGED <<all, attempt, beside>>
    BY <1>20 DEF StartWrapup, store, life, history, WrapAt, WrapOn
  <2> QED BY <1>1, <2>1 DEF AggregateInOrder
<1>21. ASSUME NEW r \in Runs, Reboot(r) PROVE AggregateInOrder'
  <2>1. /\ wrap' = [wrap EXCEPT ![r] = "no"] /\ attempt' = [attempt EXCEPT ![r] = attempt[r] + 1]
        /\ agg' = [agg EXCEPT ![r] = "no"] /\ UNCHANGED <<all, beside>>
    BY <1>21 DEF Reboot, store
  <2> QED BY <1>1, <2>1 DEF AggregateInOrder
<1>22. ASSUME NEW r \in Runs \cup Siblings, AllExists(r) PROVE AggregateInOrder'
  <2>1. /\ agg' = [agg EXCEPT ![r] = IF all.exists THEN "append" ELSE "create"]
        /\ r \in Runs => wrap[r] = "all"
        /\ agg[r] = "test" /\ UNCHANGED <<wrap, all, attempt, beside>>
    BY <1>22 DEF AllExists, AggAt, AggOn, WrapAt, notAgg, life, history
  <2>2. CASE all.exists
    BY <1>1, <2>1, <2>2 DEF AggregateInOrder
  <2>3. CASE ~all.exists
    <3>1. \A q \in Runs \cup Siblings : agg[q] \notin {"append", "in"}
      BY <2>3 DEF AggregateInOrder
    <3>2. \A q \in Runs \cup Siblings : agg'[q] \notin {"append", "in"}
      BY <1>1, <2>1, <2>3, <3>1
    <3> QED BY <1>1, <2>1, <3>1, <3>2 DEF AggregateInOrder
  <2> QED BY <2>2, <2>3
<1>23. ASSUME NEW r \in Runs \cup Siblings, AllCreate(r) PROVE AggregateInOrder'
  <2>1. /\ agg' = [agg EXCEPT ![r] = "append"] /\ all'.exists
        /\ r \in Runs => wrap[r] = "all"
        /\ agg[r] = "create" /\ UNCHANGED <<wrap, attempt, beside>>
    BY <1>23 DEF AllCreate, AggAt, AggOn, WrapAt, notAgg, life, history
  <2>2. \A q \in Runs : agg[q] = "in" => r \in beside[q]
    BY <2>1 DEF AggregateInOrder
  <2> QED BY <1>1, <2>1, <2>2 DEF AggregateInOrder
<1>24. ASSUME NEW r \in Runs \cup Siblings, AllAppend(r) PROVE AggregateInOrder'
  <2>1. /\ agg' = [agg EXCEPT ![r] = "in"]
        /\ all' = [all EXCEPT !.runs = all.runs \cup {<<r, Try(r)>>}]
        /\ r \in Runs => wrap[r] = "all"
        /\ agg[r] = "append" /\ UNCHANGED <<wrap, attempt>>
        /\ beside' = [beside EXCEPT ![r] = {q \in DOMAIN agg : agg[q] = "create"}]
    BY <1>24 DEF AllAppend, AggAt, AggOn, WrapAt, notAgg, life
  <2>2. \A q \in Runs \cup Siblings : agg'[q] = "create" => agg[q] = "create"
    BY <1>1, <2>1
  <2>3. all.exists /\ all'.exists = all.exists /\ all.runs \subseteq all'.runs
    <3>1. all.exists
      BY <2>1 DEF AggregateInOrder
    <3>2. all'.exists = all.exists /\ all'.runs = all.runs \cup {<<r, Try(r)>>}
      BY <2>1 DEF TypeOK
    <3> QED BY <3>1, <3>2
  <2>4. r \in Runs => <<r, attempt[r]>> \in all'.runs
    BY <2>1 DEF Try, TypeOK
  <2>5. beside'[r] = Creating /\ \A q \in (Runs \cup Siblings) \ {r} : beside'[q] = beside[q]
    BY <1>1, <2>1
  <2>6. \A q \in Runs : agg'[q] = "in" =>
          {p \in Runs \cup Siblings : agg'[p] = "create"} \subseteq beside'[q]
    <3> SUFFICES ASSUME NEW q \in Runs, agg'[q] = "in", NEW p \in Runs \cup Siblings,
                        agg'[p] = "create"
                 PROVE  p \in beside'[q]
      OBVIOUS
    <3>1. CASE q = r
      BY <2>2, <2>5, <3>1
    <3>2. CASE q # r
      BY <1>1, <2>1, <2>2, <2>5, <3>2 DEF AggregateInOrder
    <3> QED BY <3>1, <3>2
  <2>7. \A q \in Runs : agg'[q] = "in" => <<q, attempt'[q]>> \in all'.runs \/ beside'[q] # {}
    <3> SUFFICES ASSUME NEW q \in Runs, agg'[q] = "in"
                 PROVE  <<q, attempt[q]>> \in all'.runs \/ beside'[q] # {}
      BY <2>1
    <3>1. CASE q = r
      BY <2>4, <3>1
    <3>2. CASE q # r
      BY <1>1, <2>1, <2>3, <2>5, <3>2 DEF AggregateInOrder
    <3> QED BY <3>1, <3>2
  <2>8. /\ \A q \in Runs : wrap'[q] = "no" => agg'[q] = "no"
        /\ \A q \in Runs : wrap'[q] \notin {"no", "all"} => agg'[q] = "in"
    BY <1>1, <2>1 DEF AggregateInOrder
  <2> QED BY <2>3, <2>6, <2>7, <2>8 DEF AggregateInOrder
<1>25. CASE UNCHANGED vars
  BY <1>2, <1>25 DEF vars, store, life, history
<1> QED BY <1>3, <1>4, <1>5, <1>6, <1>7, <1>8, <1>9, <1>10, <1>11, <1>12, <1>13, <1>14, <1>15,
           <1>16, <1>17, <1>18, <1>19, <1>20, <1>21, <1>22, <1>23, <1>24, <1>25 DEF Next,
           Launch, User, Cancel, Wrapup, Aggregate

-----------------------------------------------------------------------------
(***************************************************************************)
(* The inductive invariant and the theorems                                *)
(***************************************************************************)

InOrder == TypeOK /\ (\A r \in Runs : RunInOrder(r)) /\ AggregateInOrder

\* Initially the invariant holds: a direct run has one record, "created".
LEMMA InitInOrder == Init => InOrder
<1> SUFFICES ASSUME Init PROVE InOrder
  OBVIOUS
<1>1. TypeOK
  BY InitTypes
<1>2. ASSUME NEW r \in Runs PROVE RunInOrder(r)
  <2>1. /\ attempt[r] = 1 /\ proc[r] = "none" /\ told[r] = 0 /\ wrap[r] = "no" /\ ~hasty[r]
        /\ pc[r] = IF Controlled(r) THEN "create" ELSE "start"
        /\ left[r] = "none" /\ recs[r] = log[r] /\ doc[r].metrics = NoMetrics
        /\ log[r] = IF Controlled(r) THEN <<>> ELSE <<Record(r, "created")>>
    BY DEF Init
  <2>2. \A w \in Writers : Step(r, w) = "none" /\ Free(r, w)
    BY DEF Init, Step, Free, Quiet
  <2>3. \A i \in DOMAIN log[r] : i = 1 /\ log[r][i] = Record(r, "created")
    BY <2>1
  <2>4. Record(r, "created").event = "created" /\ Record(r, "created").try = 1
    BY <2>1 DEF Record, DataRecord
  <2>5. Len(log[r]) \in {0, 1}
    BY <2>1
  <2>6. \A event \in {"hparams", "metrics", "ended"} : Places(r, event) = {}
    BY <2>3, <2>4 DEF Places
  <2>7. CallsAreEvents(r) /\ WritersInOrder(r)
    BY <2>2 DEF CallsAreEvents, WritersInOrder
  <2>8. PhasesInOrder(r)
    BY <2>1, <2>2, WriterNames
       DEF PhasesInOrder, LaunchInOrder, WorkerInOrder, UserInOrder, ReaderInOrder,
           NobodyWritesWhenDown, Controlled
  <2>9. LogIsOrdered(r)
    BY <2>1, <2>3, <2>4, <2>6 DEF LogIsOrdered
  <2>10. EndIsOnce(r)
    <3>1. ~HasOwn(r, "ended")
      BY <2>6 DEF HasOwn
    <3>2. \A n \in {0, 1} : \A i, j \in 1 .. n : ~(i < j)
      OBVIOUS
    <3>3. \A i, j \in 1 .. Len(log[r]) : ~(i < j)
      BY <2>5, <3>2
    <3> QED BY <3>1, <3>3 DEF EndIsOnce
  <2>11. RecordsInLog(r)
    BY <2>1, <2>2 DEF RecordsInLog
  <2>12. StatusInOrder(r) /\ TimesInOrder(r)
    BY <2>1, <2>2, WriterNames DEF StatusInOrder, TimesInOrder
  <2>13. MetricsInOrder(r) /\ EndedInOrder(r)
    BY <2>1, <2>2, WriterNames DEF MetricsInOrder, EndedInOrder, Over
  <2> QED BY <2>7, <2>8, <2>9, <2>10, <2>11, <2>12, <2>13 DEF RunInOrder
<1>3. AggregateInOrder
  BY SiblingAssumption DEF Init, AggregateInOrder
<1> QED BY <1>1, <1>2, <1>3 DEF InOrder

\* A writer has nothing to do but the rest of an event.
LEMMA CallsStayEvents ==
  ASSUME NEW r \in Runs, Domains, CallsAreEvents(r), RunStep(r)
  PROVE  CallsAreEvents(r)'
<1>1. ASSUME NEW w \in Writers, NEW rec, Logs(r, w, rec) PROVE CallsAreEvents(r)'
  BY <1>1, CallsOfLogs
<1>2. CASE Create(r) \/ Start(r) \/ LogHparams(r) \/ LogMetrics(r) \/ CancelLogs(r)
             \/ LogEnded(r) \/ CaptureAfter(r)
  BY <1>1, <1>2, WriterNames
     DEF Create, Start, LogHparams, LogMetrics, CancelLogs, LogEnded, CaptureAfter
<1>3. ASSUME NEW w \in Writers, Write(r, w) PROVE CallsAreEvents(r)'
  BY <1>3, CallsOfWrite
<1>4. CASE Dies(r) \/ Crash(r)
  BY <1>4, CallsOfDies, CallsOfCrash
<1>5. CASE Popen(r) \/ RunStart(r) \/ StartWrapup(r) \/ UpdateAtEnd(r) \/ RunExitReads(r)
             \/ RunExitWrites(r) \/ Mark(r) \/ Reboot(r)
  BY <1>5, CallsOfOthers
<1> QED BY <1>2, <1>3, <1>4, <1>5 DEF RunStep, Launch, Wrapup

\* A run's own step keeps its part of the invariant.
LEMMA RunStaysInOrder ==
  ASSUME NEW r \in Runs, TypeOK, RunInOrder(r), RunStep(r)
  PROVE  RunInOrder(r)'
<1>1. /\ CallsAreEvents(r) /\ WritersInOrder(r) /\ PhasesInOrder(r)
      /\ LogIsOrdered(r) /\ EndIsOnce(r) /\ RecordsInLog(r)
      /\ StatusInOrder(r) /\ TimesInOrder(r) /\ MetricsInOrder(r) /\ EndedInOrder(r)
  BY DEF RunInOrder
<1>2. /\ LaunchInOrder(r) /\ WorkerInOrder(r) /\ UserInOrder(r) /\ ReaderInOrder(r)
      /\ NobodyWritesWhenDown(r)
  BY <1>1 DEF PhasesInOrder
<1>3. Domains
  BY TypedDomains
<1>4. CallsAreEvents(r)'
  BY <1>1, <1>3, CallsStayEvents
<1>5. WritersInOrder(r)'
  BY <1>1, <1>3, WritersKeepOrder
<1>6. /\ LaunchInOrder(r)' /\ WorkerInOrder(r)' /\ UserInOrder(r)' /\ ReaderInOrder(r)'
      /\ NobodyWritesWhenDown(r)'
  BY <1>1, <1>2, <1>3, LaunchKeepsOrder, WorkerKeepsOrder, UserKeepsOrder, ReaderKeepsOrder,
     NobodyStartsWhenDown
<1>7. LogIsOrdered(r)' /\ EndIsOnce(r)'
  BY <1>1, <1>2, <1>3, LogKeepsOrder, EndStaysOnce
<1>8. RecordsInLog(r)'
  BY <1>1, <1>3, RecordsKeepToLog
<1>9. StatusInOrder(r)' /\ TimesInOrder(r)'
  BY <1>1, <1>2, <1>3, StatusKeepsOrder, TimesKeepOrder
<1>10. MetricsInOrder(r)' /\ EndedInOrder(r)'
  BY <1>1, <1>3, MetricsKeepOrder, EndKeepsOrder
<1> QED BY <1>4, <1>5, <1>6, <1>7, <1>8, <1>9, <1>10 DEF RunInOrder, PhasesInOrder

\* The invariant is inductive.
LEMMA StepKeepsOrder == InOrder /\ [Next]_vars => InOrder'
<1> SUFFICES ASSUME InOrder, [Next]_vars PROVE InOrder'
  OBVIOUS
<1>1. TypeOK /\ TypeOK' /\ AggregateInOrder
  BY StepKeepsTypes DEF InOrder
<1>2. ASSUME NEW r \in Runs PROVE RunInOrder(r)'
  <2>1. RunInOrder(r) /\ (RunStep(r) \/ UNCHANGED StateOf(r))
    BY <1>1, StepOfOneRun DEF InOrder
  <2>2. CASE RunStep(r)
    BY <1>1, <2>1, <2>2, RunStaysInOrder
  <2>3. CASE UNCHANGED StateOf(r)
    BY <2>1, <2>3, Unchanged
  <2> QED BY <2>1, <2>2, <2>3
<1>4. AggregateInOrder'
  BY <1>1, AggregateKeepsOrder
<1> QED BY <1>1, <1>2, <1>4 DEF InOrder

LEMMA AlwaysInOrder == Spec => []InOrder
<1>1. Init => InOrder
  BY InitInOrder
<1>2. InOrder /\ [Next]_vars => InOrder'
  BY StepKeepsOrder
<1> QED BY <1>1, <1>2, PTL DEF Spec

\* The log file of a run is in order, and the document's records follow it:
\* for any interleaving of the writers, and whoever dies between two writes.
THEOREM LogStaysInOrder == Spec => []LogInOrder
<1>1. InOrder => LogInOrder
  <2> SUFFICES ASSUME InOrder PROVE LogInOrder
    OBVIOUS
  <2>1. ASSUME NEW r \in Runs
        PROVE  /\ ToSet(recs[r]) \subseteq ToSet(log[r])
               /\ ToSet(log[r]) \ ToSet(recs[r]) \subseteq CutShort(r, Writers) \cup cut[r]
    <3>1. RecordsInLog(r)
      BY DEF InOrder, RunInOrder
    <3>2. CutShort(r, Writers) = {Rec(r, w) : w \in {x \in Writers : Step(r, x) = "records"}}
      BY CutAtRecords
    <3> QED BY <3>1, <3>2 DEF RecordsInLog
  <2>2. NothingAfterEnd
    BY DEF InOrder, RunInOrder, EndIsOnce, NothingAfterEnd
  <2> QED BY <2>1, <2>2 DEF InOrder, LogInOrder, RecordsFollowLog
<1> QED BY <1>1, AlwaysInOrder, PTL

\* The document shows what the run does and reported last, while it executes
\* and after its end.
THEOREM DocumentStaysCurrent == Spec => []DocumentIsCurrent
<1>1. InOrder => DocumentIsCurrent
  <2> SUFFICES ASSUME InOrder PROVE DocumentIsCurrent
    OBVIOUS
  <2>1. ASSUME NEW r \in Runs
        PROVE  /\ LaunchInOrder(r) /\ WorkerInOrder(r) /\ StatusInOrder(r) /\ TimesInOrder(r)
               /\ MetricsInOrder(r) /\ EndedInOrder(r) /\ TypeOK
    BY DEF InOrder, RunInOrder, PhasesInOrder
  <2>2. ShownAsRunning
    BY <2>1, PhaseTypes
       DEF ShownAsRunning, Logging, At, LaunchInOrder, WorkerInOrder, StatusInOrder, Early,
           Kept, Controlled
  <2>3. MetricsAreCurrent
    <3> SUFFICES ASSUME NEW r \in Runs, Logging(r), told[r] > 1, Free(r, "user")
                 PROVE  doc[r].metrics = LastOf(r, Places(r, "metrics"))
      BY DEF MetricsAreCurrent
    <3>1. IsLast(r, doc[r].metrics)
      BY <2>1 DEF MetricsInOrder, Logging, Step
    <3>2. PICK i \in Places(r, "metrics") :
            log[r][i] = doc[r].metrics /\ \A j \in Places(r, "metrics") : j <= i
      BY <3>1 DEF IsLast
    <3>3. log[r] \in Seq(Records)
      BY <2>1 DEF TypeOK
    <3>4. PICK k \in Places(r, "metrics") :
            /\ LastOf(r, Places(r, "metrics")) = log[r][k]
            /\ \A j \in Places(r, "metrics") : j <= k
      BY <3>2, <3>3, LastOfIs, PlacesInLog
    <3>5. i \in Nat /\ k \in Nat /\ i <= k /\ k <= i
      BY <3>2, <3>3, <3>4, PlacesInLog
    <3>6. i = k
      BY <3>5
    <3> QED BY <3>2, <3>4, <3>6
  <2>4. EndedMetricsAreLast
    BY <2>1 DEF EndedMetricsAreLast, EndedInOrder
  <2>5. DurationIsKnown
    BY <2>1 DEF DurationIsKnown, TimesInOrder
  <2> QED BY <2>2, <2>3, <2>4, <2>5 DEF DocumentIsCurrent
<1> QED BY <1>1, AlwaysInOrder, PTL

\* An ended run is recorded with the hyperparameters its metrics were measured
\* with, unless its last attempt reported none that count.
THEOREM PairsAreRight == Spec => []PairedWithItsHparams
<1>1. InOrder => PairedWithItsHparams
  BY DEF InOrder, RunInOrder, EndedInOrder, PairedWithItsHparams
<1> QED BY <1>1, AlwaysInOrder, PTL

\* An ended run is in the job's all_runs file, unless another run was about to
\* create the file when it was added.
THEOREM AggregatedIsKept == Spec => []AggregatedOrBeside
<1>1. InOrder => AggregatedOrBeside
  BY DEF InOrder, AggregateInOrder, AggregatedOrBeside, Over
<1> QED BY <1>1, AlwaysInOrder, PTL
=============================================================================
