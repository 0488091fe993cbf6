---------------------------- MODULE VehicleHistory -----------------------------
(***************************************************************************)
(* The clinical history of one vehicle: the facts recorded about it, the   *)
(* timeline TimelineUseCase.Build puts together from one query per kind of *)
(* fact while other requests go on recording, and the warranties with      *)
(* their validity at an instant.                                           *)
(*                                                                         *)
(* Time is the clock as the DATETIME columns keep it, so that several      *)
(* facts may carry the same moment.  Rows with the same moment come out of *)
(* a query in any order.                                                   *)
(***************************************************************************)
EXTENDS Calendar, Sequences, FiniteSets

CONSTANTS
    Writers,       \* requests that record facts
    Instants,      \* the instant of each moment, in order
    AskedDates,    \* the dates warranties are asked for ...
    AskedInstants, \* ... and the instants
    MaxFacts,      \* bound: facts recorded on the vehicle
    PartCounts,    \* how many parts an intervention may declare
    Coverages      \* coverages in months a warranty may be issued for

ASSUME HistoryAssumption ==
    /\ Instants \in Seq(Instant) /\ Instants # <<>>
    /\ \A i, j \in 1..Len(Instants) : i < j => Earlier(Instants[i], Instants[j])
    /\ AskedDates \subseteq Date /\ AskedInstants \subseteq Instant
    /\ MaxFacts \in Nat /\ PartCounts \subseteq Nat /\ Coverages \subseteq Nat \ {0}

VARIABLES
    moment,    \* the clock
    facts,     \* the committed rows of the four tables, in the order of their commits
    parts,     \* part_usage: how many rows each fact has
    writer,    \* the request each writer is at
    reader,    \* the read that is going on
    timeline,  \* the timeline answered, until the next read
    listing    \* the warranty list answered, until the next read

vars == <<moment, facts, parts, writer, reader, timeline, listing>>

Moment == 1..Len(Instants)
Kind == {"ORDER", "DIAGNOSTIC", "INTERVENTION", "WARRANTY"}
FactId == 1..MaxFacts
NoInstant == [date |-> [month |-> 0, day |-> 0], second |-> 0]
Fact ==
    [kind: Kind, cause: FactId \cup {0}, at: Moment, parts: PartCounts \cup {0},
     coverage: Coverages \cup {0}, expires: Instant \cup {NoInstant}]
Idle == [step |-> "idle"]
NoTimeline == [entry |-> <<>>, parts |-> <<>>, since |-> 0]
NoListing == [at |-> NoInstant, valid |-> {}, expired |-> {}]

\* What a row of each kind belongs to (its foreign key).
CauseOf ==
    [ORDER |-> {}, DIAGNOSTIC |-> {"ORDER"}, INTERVENTION |-> {"ORDER"},
     WARRANTY |-> {"INTERVENTION"}]

\* The next query of a timeline after each one.
Following ==
    [ORDER |-> "DIAGNOSTIC", DIAGNOSTIC |-> "INTERVENTION", INTERVENTION |-> "parts",
     parts |-> "WARRANTY", WARRANTY |-> "answer"]

Init ==
    /\ moment = 1
    /\ facts = <<>>
    /\ parts = <<>>
    /\ writer = [w \in Writers |-> Idle]
    /\ reader = Idle
    /\ timeline = NoTimeline
    /\ listing = NoListing

-----------------------------------------------------------------------------
(***************************************************************************)
(* Recording.                                                              *)
(***************************************************************************)
reading == <<reader, timeline, listing>>

\* The coverage reaching its last day at midnight (a mutant).
ExpiresAtMidnight(at, coverage) == Midnight(AddMonths(Instants[at].date, coverage))

\* The expiration of a warranty, computed once: AddDate moves the date of the
\* instant of issue and keeps its time of day.
Expires(at, coverage) ==
    [date |-> AddMonths(Instants[at].date, coverage), second |-> Instants[at].second]

\* The new row with the moment it happened.
NewFact(kind, cause, at, n, coverage) ==
    [kind |-> kind, cause |-> cause, at |-> at, parts |-> n, coverage |-> coverage,
     expires |-> IF kind = "WARRANTY" THEN Expires(at, coverage) ELSE NoInstant]

\* The clock read by the client before it sends the request (a mutant).
ClockOfClient == 1..moment

\* What the clock says to a request.
Clock == {moment}

\* The row the new one is about is read (an order needs the vehicle only), then
\* the clock, and the new row is built.  Rows are never deleted, so a request
\* that waits between the two reads is one that comes later.
Prepare(w, kind) ==
    /\ writer[w] = Idle
    /\ \E cause \in DOMAIN facts \cup {0}, at \in Clock,
          n \in PartCounts \cup {0}, coverage \in Coverages \cup {0} :
          /\ IF cause = 0 THEN CauseOf[kind] = {} ELSE facts[cause].kind \in CauseOf[kind]
          /\ IF kind = "INTERVENTION" THEN n \in PartCounts ELSE n = 0
          /\ kind = "WARRANTY" <=> coverage # 0
          /\ writer' = [writer EXCEPT ![w] =
                [step |-> "save", fact |-> NewFact(kind, cause, at, n, coverage)]]
    /\ UNCHANGED <<moment, facts, parts, reading>>

\* The parts outside the transaction of their intervention (a mutant).
SaveApart(w) ==
    /\ writer[w].step = "save"
    /\ IF writer[w].fact \in {facts[i] : i \in DOMAIN facts}
       THEN \E i \in DOMAIN facts :
               /\ facts[i] = writer[w].fact
               /\ parts' = [parts EXCEPT ![i] = writer[w].fact.parts]
               /\ writer' = [writer EXCEPT ![w] = Idle]
               /\ UNCHANGED facts
       ELSE /\ Len(facts) < MaxFacts
            /\ facts' = Append(facts, writer[w].fact)
            /\ parts' = Append(parts, 0)
            /\ UNCHANGED writer
    /\ UNCHANGED <<moment, reading>>

\* The row is inserted, an intervention together with its parts.
Save(w) ==
    /\ writer[w].step = "save"
    /\ Len(facts) < MaxFacts
    /\ facts' = Append(facts, writer[w].fact)
    /\ parts' = Append(parts, writer[w].fact.parts)
    /\ writer' = [writer EXCEPT ![w] = Idle]
    /\ UNCHANGED <<moment, reading>>

\* A call of the request fails; an open transaction rolls back.
Fail(w) ==
    /\ writer[w] # Idle
    /\ writer' = [writer EXCEPT ![w] = Idle]
    /\ UNCHANGED <<moment, facts, parts, reading>>

Tick ==
    /\ moment < Len(Instants)
    /\ moment' = moment + 1
    /\ UNCHANGED <<facts, parts, writer, reading>>

-----------------------------------------------------------------------------
(***************************************************************************)
(* Reading.                                                                *)
(***************************************************************************)
recording == <<moment, facts, parts, writer>>

\* A sequence of facts in the order of their moments.
Chronological(s) == \A i, j \in DOMAIN s : i < j => facts[s[i]].at <= facts[s[j]].at

\* Interventions joined with their parts (a mutant).
RowsJoiningParts(kind) ==
    LET ids == {i \in DOMAIN facts :
                    facts[i].kind = kind /\ (kind = "INTERVENTION" => parts[i] > 0)}
    IN  {s \in [1..Cardinality(ids) -> ids] :
            {s[i] : i \in DOMAIN s} = ids /\ Chronological(s)}

\* What a query for the rows of a kind may return.
Rows(kind) ==
    LET ids == {i \in DOMAIN facts : facts[i].kind = kind}
    IN  {s \in [1..Cardinality(ids) -> ids] :
            {s[i] : i \in DOMAIN s} = ids /\ Chronological(s)}

\* A timeline is asked for and the vehicle read.  since is how much had been
\* recorded by then.
Build ==
    /\ reader = Idle
    /\ reader' = [step |-> "ORDER", entry |-> <<>>, parts |-> <<>>, since |-> Len(facts)]
    /\ timeline' = NoTimeline /\ listing' = NoListing
    /\ UNCHANGED recording

\* The rows of one kind.
List(kind) ==
    /\ reader.step = kind
    /\ \E rows \in Rows(kind) :
          reader' = [reader EXCEPT !.step = Following[kind], !.entry = @ \o rows]
    /\ UNCHANGED <<recording, timeline, listing>>

\* The parts of each intervention that was listed.
ListPart ==
    /\ reader.step = "parts"
    /\ reader' = [reader EXCEPT !.step = Following["parts"],
            !.parts = [i \in DOMAIN reader.entry |-> parts[reader.entry[i]]]]
    /\ UNCHANGED <<recording, timeline, listing>>

\* Entries of one moment in the reverse order (a mutant).
ComesFirstUnstable(s, j, i) ==
    facts[s[j]].at < facts[s[i]].at \/ (facts[s[j]].at = facts[s[i]].at /\ j >= i)

\* The place the j-th entry has in front of the i-th one.
ComesFirst(s, j, i) ==
    facts[s[j]].at < facts[s[i]].at \/ (facts[s[j]].at = facts[s[i]].at /\ j <= i)

\* sort.SliceStable by moment: where each entry goes.
Place(s, i) == Cardinality({j \in DOMAIN s : ComesFirst(s, j, i)})

\* The entries are sorted and answered.
Answer ==
    /\ reader.step = "answer"
    /\ LET s == reader.entry
           origin == [p \in DOMAIN s |-> CHOOSE i \in DOMAIN s : Place(s, i) = p]
       IN  timeline' =
               [entry |-> [p \in DOMAIN s |-> s[origin[p]]],
                parts |-> [p \in DOMAIN s |->
                    IF origin[p] \in DOMAIN reader.parts THEN reader.parts[origin[p]] ELSE 0],
                since |-> reader.since]
    /\ reader' = Idle
    /\ UNCHANGED <<recording, listing>>

\* The instants warranties may be asked for: midnight of a date, an instant, or now.
Consulted ==
    {Midnight(d) : d \in AskedDates} \cup AskedInstants \cup {Instants[moment]}

Consult ==
    /\ reader = Idle
    /\ \E at \in Consulted : reader' = [step |-> "warranties", at |-> at]
    /\ timeline' = NoTimeline /\ listing' = NoListing
    /\ UNCHANGED recording

\* The warranties are read and their validity computed.
IsValidAt(fact, at) == Earlier(at, fact.expires)

ListWarranties ==
    /\ reader.step = "warranties"
    /\ LET ids == {i \in DOMAIN facts : facts[i].kind = "WARRANTY"}
           valid == {i \in ids : IsValidAt(facts[i], reader.at)}
       IN  listing' = [at |-> reader.at, valid |-> valid, expired |-> ids \ valid]
    /\ reader' = Idle
    /\ UNCHANGED <<recording, timeline>>

\* A query fails: nothing is answered.
FailRead ==
    /\ reader # Idle
    /\ reader' = Idle
    /\ UNCHANGED <<recording, timeline, listing>>

-----------------------------------------------------------------------------
Next ==
    \/ \E w \in Writers :
          (\E kind \in Kind : Prepare(w, kind)) \/ Save(w) \/ Fail(w)
    \/ Tick
    \/ Build \/ (\E kind \in Kind : List(kind)) \/ ListPart \/ Answer
    \/ Consult \/ ListWarranties \/ FailRead

Spec == Init /\ [][Next]_vars

-----------------------------------------------------------------------------
TypeOK ==
    /\ moment \in Moment
    /\ facts \in Seq(Fact) /\ Len(facts) <= MaxFacts
    /\ parts \in Seq(Nat) /\ Len(parts) = Len(facts)
    /\ \A w \in Writers :
          \/ writer[w] = Idle
          \/ writer[w] \in [step: {"save"}, fact: Fact]

\* No fact is dated before what it is about, an intervention before its order or
\* a warranty before its intervention, although requests overlap between reading
\* the clock and inserting the row (Record, Register, Issue).
CausesAreOlder ==
    \A i \in 1..Len(facts) :
        facts[i].cause # 0 =>
            facts[i].cause < i /\ facts[facts[i].cause].at <= facts[i].at

\* The timeline never shows a fact before what it is about, also when both carry
\* the same second (Build: the order it appends in and the stable sort).
CausesFirst ==
    \A p, q \in DOMAIN timeline.entry :
        facts[timeline.entry[p]].cause = timeline.entry[q] => q < p

\* What was recorded when the timeline was asked for is in it, once, and what
\* came later is there at most once (Build: several queries, one answer).
NothingMissing ==
    LET Times(i) == Cardinality({p \in DOMAIN timeline.entry : timeline.entry[p] = i})
    IN  \A i \in DOMAIN facts : IF i <= timeline.since THEN Times(i) = 1 ELSE Times(i) <= 1

\* An intervention is shown with all the parts it was registered with (the
\* transaction of InterventionRepository.Save and the two queries of list).
PartsAreWhole ==
    \A p \in DOMAIN timeline.entry : timeline.parts[p] = facts[timeline.entry[p]].parts

\* A warranty is valid at an instant exactly when seconds are left to the end of
\* its coverage: the time of day it was issued at, on the same day of the month
\* the coverage reaches, counted in days (NewWarranty and IsValidAt against the
\* calendar; a date asked for is its midnight, which comes before the end of a
\* coverage that ends on that date).
ValidUntilTheInstant ==
    LET issued(i) == Instants[facts[i].at]
        lastDay(i) == DaysBefore(issued(i).date.month + facts[i].coverage)
                      + issued(i).date.day
        left(i) == DaySeconds * (lastDay(i) - DayNumber(listing.at.date))
                   + issued(i).second - listing.at.second
    IN  /\ \A i \in listing.valid : left(i) > 0
        /\ \A i \in listing.expired : left(i) <= 0
=============================================================================
