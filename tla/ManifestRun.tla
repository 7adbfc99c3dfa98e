----------------------------- MODULE ManifestRun -----------------------------
(***************************************************************************)
(* POST /generate-draft-from-manifest: one request loads the candidates of *)
(* a manifest, reads what the regional lake says of all of them, one bulk  *)
(* query after the other, and then drafts an email for each in turn.       *)
(*                                                                         *)
(* The backend goes on writing to the lake meanwhile, so two reads of one  *)
(* request may see two different worlds.  A read keeps a copy of the world *)
(* it saw, and everything derived from it is an operator over the copies.  *)
(* A compact_only request reads the projections of one committed epoch     *)
(* instead of the current ones.  Whether an invoice is overdue is written  *)
(* in neither: the query compares its due date with the day it is run on.  *)
(*                                                                         *)
(* What the lake says of a party, a lane or an invoice is kept as far as   *)
(* the route decides on it; names, amounts, histories and mail texts are   *)
(* only passed on to the prompt and are left out.  AthenaQuery is the      *)
(* detailed model of one read, DraftGeneration that of one draft.          *)
(***************************************************************************)
EXTENDS Integers, Sequences, FiniteSets

CONSTANTS
  Parties, Lanes, Obligations,
  Manifests,    \* the manifests that may be handed over: sequences of candidates
  Worlds,       \* the states of the lake a request may start in
  MaxChanges,   \* bound: writes to the lake that are considered per request
  MaxDays       \* bound: how often the date changes while it is served

\* One DraftCandidate.  lanes is what lane_ids() returns, its own lane first;
\* named is its obligation_ids, empty when it has none.
Candidate == [id : STRING, party : Parties, lanes : Seq(Lanes),
              named : SUBSET Obligations, case : BOOLEAN]

\* What the lake holds, as far as a read returns it.
World == [
  party : [Parties -> {"ok", "noProvider", "absent"}],
  lane : [Lanes -> {"ok", "noPolicy", "absent"}],
  contact : SUBSET Parties,                    \* have a usable address
  linked : SUBSET (Lanes \X Obligations),      \* open lane invoices
  laneQuery : [Lanes \X Obligations -> {"null", "false", "true"}],
                                               \* their own is_source_disputed
  open : SUBSET Obligations,                   \* have an open balance
  due : [Obligations -> Int],                  \* the day they are due on
  queried : SUBSET Obligations,                \* is_source_disputed of the invoice
  promised : SUBSET Obligations ]              \* have a payment commitment

ASSUME ConstantsAssumption ==
  /\ Manifests \subseteq Seq(Candidate)
  /\ \A m \in Manifests : \A i \in DOMAIN m : m[i].lanes # <<>>
  /\ Worlds \subseteq World
  /\ MaxChanges \in Nat
  /\ MaxDays \in Nat

\* The reads of hydrate_batch, in its order.
Reads == <<"parties", "lanes", "obligations", "contacts", "history",
           "sentScope", "caseThreads", "temporal", "commitments">>
ReadNames == {Reads[k] : k \in 1..9}

\* They are about the cases of the candidates that have one.
OfCases == {"caseThreads", "temporal", "commitments"}

\* The reads that turn any exception into an empty result; an exception of
\* another one escapes hydrate_batch and the route.
Optional == {"sentScope", "caseThreads", "temporal", "commitments"}

VARIABLES
  mode,       \* current_read_mode: "compact_only", or "current" for the others
  epoch,      \* the world the compact epoch was committed from
  published,  \* the reads whose relations exist in the source
  manifest,   \* the object in S3
  world,      \* what the lake says now
  changes,    \* how often it was written to
  today,      \* CURRENT_DATE, in days since the request came
  phase,      \* where the request is
  got,        \* how each read ended
  from,       \* the world it saw
  asOf,       \* the date on which the invoices were read
  results,    \* results of the response, in order
  answer,     \* how the request was answered
  owed        \* history: the invoices that the lake of this request showed
              \* as open, overdue and not in query at one of its moments

request == <<mode, epoch, published, manifest>>
lake == <<world, changes, today, owed>>
reads == <<got, from, asOf>>
vars == <<request, lake, phase, reads, results, answer>>

Phases == {"received", "reading", "hydrated", "drafting", "answered"}

\* An entry of the response; rows are the lane invoices its draft chases.
Result == [id : STRING, status : {"generated", "failed"},
           rows : SUBSET (Lanes \X Obligations)]

TypeOK ==
  /\ mode \in {"compact_only", "current"}
  /\ epoch \in World
  /\ published \subseteq ReadNames
  /\ manifest \in Manifests
  /\ world \in World
  /\ changes \in 0..MaxChanges
  /\ today \in 0..MaxDays
  /\ phase \in Phases
  /\ got \in [ReadNames -> {"unread", "rows", "empty"}]
  /\ from \in [ReadNames -> World]
  /\ asOf \in 0..MaxDays
  /\ results \in Seq(Result)
  /\ answer \in {"none", "422", "500", "completed", "partial_failed", "failed"}
  /\ owed \subseteq Obligations

\* What the lake w shows as owed to a query that is run on day d.
Owed(w, d) == {o \in w.open : w.due[o] < d /\ o \notin w.queried}

Init ==
  /\ mode \in {"compact_only", "current"}
  /\ world \in Worlds
  /\ epoch = world
  /\ published \in {ReadNames \ gaps : gaps \in {{}, {"temporal", "commitments"}, {"history"}}}
  /\ manifest \in Manifests
  /\ changes = 0
  /\ today = 0
  /\ phase = "received"
  /\ got = [k \in ReadNames |-> "unread"]
  /\ from = [k \in ReadNames |-> epoch]
  /\ asOf = 0
  /\ results = <<>>
  /\ answer = "none"
  /\ owed = Owed(world, 0)

-----------------------------------------------------------------------------
(* What the backend does to the lake meanwhile, and the date.              *)

\* What a read of the request sees: the relations of its epoch, or the current
\* ones.
Source == IF mode = "compact_only" THEN epoch ELSE world

NoteWhatIsOwed == owed' = owed \cup Owed(Source', today')

Write(w) ==
  /\ changes < MaxChanges
  /\ phase # "answered"
  /\ world' = w
  /\ changes' = changes + 1
  /\ UNCHANGED <<request, today, phase, reads, results, answer>>
  /\ NoteWhatIsOwed

Pay(o) == Write([world EXCEPT !.open = @ \ {o}])
RaiseQuery(o) == Write([world EXCEPT !.queried = @ \cup {o}])
SettleQuery(o) == Write([world EXCEPT !.queried = @ \ {o}])
Promise(o) == Write([world EXCEPT !.promised = @ \cup {o}])
Link(l, o) == Write([world EXCEPT !.linked = @ \cup {<<l, o>>}])
Retire(l) == Write([world EXCEPT !.lane[l] = "absent"])

\* The lake is not written to: an invoice due yesterday is overdue all the same,
\* in the epoch as well.
DayTurns ==
  /\ today < MaxDays
  /\ phase # "answered"
  /\ today' = today + 1
  /\ UNCHANGED <<request, world, changes, phase, reads, results, answer>>
  /\ NoteWhatIsOwed

Backend ==
  \/ \E o \in Obligations :
       Pay(o) \/ RaiseQuery(o) \/ SettleQuery(o) \/ Promise(o)
  \/ \E l \in Lanes : Retire(l) \/ \E o \in Obligations : Link(l, o)

-----------------------------------------------------------------------------
(* Loading the manifest and reading the lake.                              *)

\* A compact_only handoff must name a complete epoch (validate_ai_context_epoch).
HandoffIsValid == mode = "compact_only" => published = ReadNames

\* Duplicate candidate ids make the loader raise.
IdsAreUnique == \A i, j \in DOMAIN manifest : manifest[i].id = manifest[j].id => i = j

Answer(a) == phase' = "answered" /\ answer' = a

Reject ==
  /\ phase = "received"
  /\ ~HandoffIsValid
  /\ Answer("422")
  /\ UNCHANGED <<request, lake, reads, results>>

Load ==
  /\ phase = "received"
  /\ HandoffIsValid
  /\ IdsAreUnique
  /\ manifest # <<>>
  /\ phase' = "reading"
  /\ UNCHANGED <<request, lake, reads, results, answer>>

\* S3 fails, the envelope or a candidate is not valid, ids are duplicate, or
\* there is no candidate.
LoadFails ==
  /\ phase = "received"
  /\ HandoffIsValid
  /\ Answer("500")
  /\ UNCHANGED <<request, lake, reads, results>>

\* The reads are made one after the other.
IsNext(n) ==
  /\ phase = "reading"
  /\ got[Reads[n]] = "unread"
  /\ \A m \in 1..(n - 1) : got[Reads[m]] # "unread"

\* A read of cases is not made when no candidate has one.
IsAsked(k) == k \in OfCases => \E i \in DOMAIN manifest : manifest[i].case

Proceed(n) == phase' = IF n = 9 THEN "hydrated" ELSE "reading"

ReadAnswers(n) ==
  /\ IsNext(n)
  /\ IsAsked(Reads[n])
  /\ Reads[n] \in published
  /\ got' = [got EXCEPT ![Reads[n]] = "rows"]
  /\ from' = [from EXCEPT ![Reads[n]] = Source]
  /\ asOf' = IF Reads[n] = "obligations" THEN today ELSE asOf
  /\ Proceed(n)
  /\ UNCHANGED <<request, lake, results, answer>>

ReadIsSkipped(n) ==
  /\ IsNext(n)
  /\ ~IsAsked(Reads[n])
  /\ got' = [got EXCEPT ![Reads[n]] = "empty"]
  /\ Proceed(n)
  /\ UNCHANGED <<request, lake, from, asOf, results, answer>>

\* The query fails, is cancelled, times out, or names a missing relation.
ReadIsSwallowed(n) ==
  /\ IsNext(n)
  /\ IsAsked(Reads[n])
  /\ Reads[n] \in Optional
  /\ got' = [got EXCEPT ![Reads[n]] = "empty"]
  /\ Proceed(n)
  /\ UNCHANGED <<request, lake, from, asOf, results, answer>>

ReadFails(n) ==
  /\ IsNext(n)
  /\ Reads[n] \notin Optional
  /\ Answer("500")
  /\ UNCHANGED <<request, lake, reads, results>>

-----------------------------------------------------------------------------
(* Putting the context of a candidate together.                            *)

\* The party or the lane is not in what was read: ContextHydrationError, which
\* hydrate_batch keeps for this candidate.
IsMissing(c) ==
  \/ from["parties"].party[c.party] = "absent"
  \/ from["lanes"].lane[c.lanes[1]] = "absent"

\* CaseContext refuses the row of the party: an error of another type, which
\* nobody keeps for this candidate.
IsMalformed(c) == ~IsMissing(c) /\ from["parties"].party[c.party] = "noProvider"

InvoiceRows == from["obligations"].linked

\* The rows of the candidate's lanes, which have an open balance.
OpenRows(c) ==
  {r \in InvoiceRows : /\ \E n \in DOMAIN c.lanes : c.lanes[n] = r[1]
                       /\ r[2] \in from["obligations"].open}

\* Row r comes before row s in the order of the candidate's lanes.
Before(c, r, s) ==
  \E m, n \in DOMAIN c.lanes : c.lanes[m] = r[1] /\ c.lanes[n] = s[1] /\ m < n

\* Faulty variants (a name ending in Mutant) are not part of the model: each is
\* a bug the next definition could have, which a property must tell apart.
CandidateRowsDoubledMutant(c) ==
  IF c.named = {} THEN OpenRows(c) ELSE {r \in OpenRows(c) : r[2] \in c.named}

CandidateRowsUnnamedMutant(c) ==
  {r \in OpenRows(c) : \A s \in OpenRows(c) : s[2] = r[2] => ~Before(c, s, r)}

\* candidate_obligations: with obligation_ids, those invoices and each of them
\* once, by its first row; without, every row.
CandidateRows(c) ==
  IF c.named = {}
    THEN OpenRows(c)
    ELSE {r \in OpenRows(c) :
            /\ r[2] \in c.named
            /\ \A s \in OpenRows(c) : s[2] = r[2] => ~Before(c, s, r)}

\* is_source_disputed of a row: the flag of the lane invoice hides that of the
\* invoice unless it is null.
IsDisputed(r) ==
  LET flag == from["obligations"].laneQuery[r]
  IN  flag = "true" \/ (flag = "null" /\ r[2] \in from["obligations"].queried)

\* obligation_info: is_chase_eligible, which is also is_sendable.
IsEligible(r) == from["obligations"].due[r[2]] < asOf /\ ~IsDisputed(r)

\* sendable_obligation_ids: the eligible invoices, of those the candidate names
\* if it names any.
Sendable(c) ==
  {r[2] : r \in {s \in CandidateRows(c) :
                   IsEligible(s) /\ (c.named # {} => s[2] \in c.named)}}

\* The list restricts nothing when it is empty.
IsListed(c, r) == Sendable(c) # {} => r[2] \in Sendable(c)

IsSendableByListMutant(c, r) == IsListed(c, r)

\* _is_sendable_candidate, which the generator repeats: the row is on the list,
\* if there is one, and is eligible itself.
IsSendable(c, r) == IsListed(c, r) /\ IsEligible(r)

\* _select_candidate_obligations: those whose state, which comes from the
\* invoice alone, is not "disputed" either.
Chased(c) ==
  {r \in CandidateRows(c) : IsSendable(c, r) /\ r[2] \notin from["obligations"].queried}

\* Some active contact of the party has an address.
HasRecipient(c) == c.party \in from["contacts"].contact

\* GenerateDraftRequest accepts the context: it has its lineage, a recipient
\* and an invoice that may be sent.
IsAccepted(c) ==
  /\ from["lanes"].lane[c.lanes[1]] # "noPolicy"
  /\ HasRecipient(c)
  /\ \E r \in CandidateRows(c) : IsSendable(c, r)

-----------------------------------------------------------------------------
(* Drafting.                                                               *)

\* hydrate_batch builds all the contexts before the first draft is asked for.
Hydrate ==
  /\ phase = "hydrated"
  /\ \A i \in DOMAIN manifest : ~IsMalformed(manifest[i])
  /\ phase' = "drafting"
  /\ UNCHANGED <<request, lake, reads, results, answer>>

HydrationFails ==
  /\ phase = "hydrated"
  /\ \E i \in DOMAIN manifest : IsMalformed(manifest[i])
  /\ Answer("500")
  /\ UNCHANGED <<request, lake, reads, results>>

\* The candidate whose turn it is.
Current == manifest[Len(results) + 1]

Report(status, rows) ==
  /\ results' = Append(results, [id |-> Current.id, status |-> status, rows |-> rows])
  /\ UNCHANGED <<request, lake, phase, reads, answer>>

DraftIsMade ==
  /\ phase = "drafting"
  /\ Len(results) < Len(manifest)
  /\ ~IsMissing(Current)
  /\ IsAccepted(Current)
  /\ Chased(Current) # {}
  /\ Report("generated", Chased(Current))

DraftFailsSilentlyMutant ==
  /\ phase = "drafting"
  /\ Len(results) < Len(manifest)
  /\ IF IsMissing(Current)
       THEN /\ Answer("partial_failed")
            /\ UNCHANGED <<request, lake, reads, results>>
       ELSE Report("failed", {})

\* Anything that is raised for a candidate is its own failure: hydration,
\* the request, the generator before or after it asks the model.
DraftFails ==
  /\ phase = "drafting"
  /\ Len(results) < Len(manifest)
  /\ Report("failed", {})

Generated == {i \in DOMAIN results : results[i].status = "generated"}

Finish ==
  /\ phase = "drafting"
  /\ Len(results) = Len(manifest)
  /\ Answer(IF Generated = DOMAIN results THEN "completed"
            ELSE IF Generated = {} THEN "failed" ELSE "partial_failed")
  /\ UNCHANGED <<request, lake, reads, results>>

Handler ==
  \/ Reject \/ Load \/ LoadFails
  \/ \E n \in 1..9 :
       ReadAnswers(n) \/ ReadIsSkipped(n) \/ ReadIsSwallowed(n) \/ ReadFails(n)
  \/ Hydrate \/ HydrationFails
  \/ DraftIsMade \/ DraftFails \/ Finish

Next == Backend \/ DayTurns \/ Handler

Spec == Init /\ [][Next]_vars

-----------------------------------------------------------------------------
(* Properties.                                                             *)

\* The answer of a request that drafted has one entry per candidate, in the
\* order of the manifest, each candidate once, and its status says whether
\* all, some or none of them have a draft: no candidate is lost whatever
\* fails (results of generate_draft_from_manifest).
ReportCoversManifest ==
  answer \in {"completed", "partial_failed", "failed"} =>
    /\ Len(results) = Len(manifest)
    /\ \A i \in 1..Len(manifest) : results[i].id = manifest[i].id
    /\ \A i, j \in 1..Len(manifest) : results[i].id = results[j].id => i = j
    /\ answer = "completed" <=> \A i \in 1..Len(manifest) : results[i].status = "generated"
    /\ answer = "failed" <=> \A i \in 1..Len(manifest) : results[i].status = "failed"

\* An invoice is chased only if at one moment of the request the lake it reads
\* showed it as open and not in query and the date was past its due date: one
\* that was paid or queried all that time is never asked for, although the
\* manifest names it, whatever the flag of its lane invoice says, and although
\* an empty sendable_obligation_ids lifts the restriction to that list
\* (_select_candidate_obligations).  The lake of a compact_only request is its
\* epoch: what was paid or queried after the commit may be chased.
ChasedIsOwed ==
  \A i \in DOMAIN results : \A r \in results[i].rows : r[2] \in owed

\* A draft chases invoices of the lanes of its own candidate only, and only
\* those the manifest names if it names any; a candidate whose invoices are
\* all blocked does not fall back to the whole lane.
ChasedInScope ==
  \A i \in DOMAIN results :
    /\ i \in DOMAIN manifest
    /\ \A r \in results[i].rows :
         /\ \E n \in DOMAIN manifest[i].lanes : manifest[i].lanes[n] = r[1]
         /\ manifest[i].named # {} => r[2] \in manifest[i].named

\* An invoice that two lanes of a candidate list is chased, and its amount
\* added, once, if the manifest names the candidate's invoices.
CountedOnce ==
  \A i \in DOMAIN results :
    manifest[i].named # {} =>
      \A r, s \in results[i].rows : r[2] = s[2] => r = s

\* No draft is made from a required read that failed: an empty answer that
\* stands for an error is never taken for "no rows".
DraftsNeedTheirReads ==
  results # <<>> =>
    \A k \in {"parties", "lanes", "obligations", "contacts", "history"} : got[k] = "rows"

\* What the API reference says of the route: a candidate that cannot be
\* hydrated is a partial failure.
HydrationIsPartialFailure ==
  (\A n \in 1..9 : got[Reads[n]] # "unread") => answer # "500"

=============================================================================
