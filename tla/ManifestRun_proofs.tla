-------------------------- MODULE ManifestRun_proofs --------------------------
(***************************************************************************)
(* Proofs about ManifestRun, for every lake, every set of manifests and    *)
(* every number of writes and days: its type is kept, and a draft chases   *)
(* only what is owed and in scope.  The inductive invariant says what each *)
(* read and each entry of the report may be at every moment of a request.  *)
(***************************************************************************)
EXTENDS ManifestRun, TLAPS

\* What the lake of the request shows as owed now, or showed when the invoices
\* were read, is in the history variable.
ReadsAreOwed ==
  /\ Owed(Source, today) \subseteq owed
  /\ Owed(from["obligations"], asOf) \subseteq owed

\* Where the reads of a request stand.
Required == {"parties", "lanes", "obligations", "contacts", "history"}

ReadsAreMade ==
  /\ \A k \in Required : got[k] # "empty"
  /\ phase \in {"hydrated", "drafting"} => \A k \in ReadNames : got[k] # "unread"
  /\ results # <<>> =>
       phase \in {"drafting", "answered"} /\ \A k \in Required : got[k] = "rows"

\* The report so far is about the first candidates of the manifest.
ReportIsPrefix ==
  /\ Len(results) <= Len(manifest)
  /\ \A i \in 1..Len(results) : results[i].id = manifest[i].id
  /\ phase \notin {"received", "answered"} => IdsAreUnique /\ manifest # <<>>
  /\ (phase # "answered") = (answer = "none")

\* Every entry of the report chases rows of its candidate as it was read.
RowsAreChosen ==
  \A i \in 1..Len(results) : results[i].rows \subseteq Chased(manifest[i])

IInv ==
  /\ TypeOK
  /\ ReadsAreOwed
  /\ ReadsAreMade
  /\ ReportIsPrefix
  /\ ReportCoversManifest
  /\ RowsAreChosen

-----------------------------------------------------------------------------
\* The nine names of the reads.
LEMMA ReadNamesAre ==
  /\ ReadNames = {"parties", "lanes", "obligations", "contacts", "history",
                  "sentScope", "caseThreads", "temporal", "commitments"}
  /\ \A n \in 1..9 : Reads[n] \in ReadNames
<1>1. /\ Reads[1] = "parties" /\ Reads[2] = "lanes" /\ Reads[3] = "obligations"
      /\ Reads[4] = "contacts" /\ Reads[5] = "history" /\ Reads[6] = "sentScope"
      /\ Reads[7] = "caseThreads" /\ Reads[8] = "temporal" /\ Reads[9] = "commitments"
  BY DEF Reads
<1>2. 1..9 = {1, 2, 3, 4, 5, 6, 7, 8, 9}
  OBVIOUS
<1> QED  BY <1>1, <1>2 DEF ReadNames

\* A write of the backend leaves a state of the lake.
LEMMA WritesAreWorlds ==
  ASSUME world \in World, NEW o \in Obligations
  PROVE  /\ [world EXCEPT !.open = @ \ {o}] \in World
         /\ [world EXCEPT !.queried = @ \cup {o}] \in World
         /\ [world EXCEPT !.queried = @ \ {o}] \in World
         /\ [world EXCEPT !.promised = @ \cup {o}] \in World
         /\ \A l \in Lanes : [world EXCEPT !.linked = @ \cup {<<l, o>>}] \in World
<1>1. [world EXCEPT !.open = @ \ {o}] \in World
  BY DEF World
<1>2. [world EXCEPT !.queried = @ \cup {o}] \in World
  BY DEF World
<1>3. [world EXCEPT !.queried = @ \ {o}] \in World
  BY DEF World
<1>4. [world EXCEPT !.promised = @ \cup {o}] \in World
  BY DEF World
<1>5. \A l \in Lanes : [world EXCEPT !.linked = @ \cup {<<l, o>>}] \in World
  BY DEF World
<1> QED  BY <1>1, <1>2, <1>3, <1>4, <1>5

\* So every action of the backend is a Write of a state of the lake.
LEMMA BackendWrites ==
  ASSUME TypeOK, Backend
  PROVE  \E w \in World : Write(w)
<1>1. world \in World
  BY DEF TypeOK
<1>2. CASE \E o \in Obligations :
             Pay(o) \/ RaiseQuery(o) \/ SettleQuery(o) \/ Promise(o)
  <2>1. PICK o \in Obligations :
          Pay(o) \/ RaiseQuery(o) \/ SettleQuery(o) \/ Promise(o)
    BY <1>2
  <2>2. /\ [world EXCEPT !.open = @ \ {o}] \in World
        /\ [world EXCEPT !.queried = @ \cup {o}] \in World
        /\ [world EXCEPT !.queried = @ \ {o}] \in World
        /\ [world EXCEPT !.promised = @ \cup {o}] \in World
    BY <1>1, WritesAreWorlds
  <2> QED  BY <2>1, <2>2 DEF Pay, RaiseQuery, SettleQuery, Promise
<1>3. CASE \E l \in Lanes : Retire(l) \/ \E o \in Obligations : Link(l, o)
  <2>1. PICK l \in Lanes : Retire(l) \/ \E o \in Obligations : Link(l, o)
    BY <1>3
  <2>2. CASE Retire(l)
    BY <1>1, <2>2 DEF World, Retire
  <2>3. CASE \E o \in Obligations : Link(l, o)
    <3>1. PICK o \in Obligations : Link(l, o)
      BY <2>3
    <3>2. [world EXCEPT !.linked = @ \cup {<<l, o>>}] \in World
      BY <1>1, WritesAreWorlds
    <3> QED  BY <3>1, <3>2 DEF Link
  <2> QED  BY <2>1, <2>2, <2>3
<1> QED  BY <1>2, <1>3 DEF Backend

-----------------------------------------------------------------------------
\* The first state of a request has the invariant.
LEMMA InitIsSound == Init => IInv
<1> SUFFICES ASSUME Init PROVE IInv
  OBVIOUS
<1>1. world \in World /\ epoch = world
  BY ConstantsAssumption DEF Init
<1>2. TypeOK
  <2>1. published \subseteq ReadNames
    BY DEF Init
  <2>2. from \in [ReadNames -> World] /\ got \in [ReadNames -> {"unread", "rows", "empty"}]
    BY <1>1 DEF Init
  <2>3. results \in Seq(Result)
    BY DEF Init
  <2>4. owed \subseteq Obligations
    BY <1>1 DEF Init, Owed, World
  <2>5. today \in 0..MaxDays /\ asOf \in 0..MaxDays /\ changes \in 0..MaxChanges
    BY ConstantsAssumption DEF Init
  <2> QED  BY <1>1, <2>1, <2>2, <2>3, <2>4, <2>5, ConstantsAssumption DEF TypeOK, Init, Phases
<1>3. ReadsAreOwed
  <2>1. from["obligations"] = world /\ Source = world /\ asOf = 0 /\ today = 0
    BY <1>1, ReadNamesAre DEF Init, Source
  <2> QED  BY <2>1 DEF ReadsAreOwed, Init
<1>4. ReadsAreMade
  BY ReadNamesAre DEF ReadsAreMade, Required, Init
<1>5. ReportIsPrefix
  <2>1. manifest \in Seq(Candidate)
    BY ConstantsAssumption DEF Init
  <2>2. Len(results) = 0 /\ Len(manifest) \in Nat
    BY <2>1 DEF Init
  <2> QED  BY <2>2 DEF ReportIsPrefix, Init
<1>6. ReportCoversManifest
  BY DEF ReportCoversManifest, Init
<1>7. RowsAreChosen
  <2>1. Len(results) = 0
    BY DEF Init
  <2> QED  BY <2>1 DEF RowsAreChosen
<1> QED  BY <1>2, <1>3, <1>4, <1>5, <1>6, <1>7 DEF IInv

\* A write to the lake or a new day changes nothing the request has read; what
\* it makes owed is noted.
LEMMA LakeKeeps ==
  ASSUME IInv, world' \in World, changes' \in 0..MaxChanges, today' \in 0..MaxDays,
         NoteWhatIsOwed, UNCHANGED <<request, phase, reads, results, answer>>
  PROVE  IInv'
<1> USE DEF request, reads
<1>1. TypeOK'
  <2>1. Source' \in World
    BY DEF IInv, TypeOK, Source
  <2>2. owed' \subseteq Obligations
    BY <2>1 DEF IInv, TypeOK, NoteWhatIsOwed, Owed, World
  <2> QED  BY <2>2 DEF IInv, TypeOK
<1>2. ReadsAreOwed'
  BY DEF IInv, ReadsAreOwed, NoteWhatIsOwed, Owed
<1>3. ReadsAreMade'
  BY DEF IInv, ReadsAreMade
<1>4. ReportIsPrefix'
  BY DEF IInv, ReportIsPrefix, IdsAreUnique
<1>5. ReportCoversManifest'
  BY DEF IInv, ReportCoversManifest
<1>6. RowsAreChosen'
  BY DEF IInv, RowsAreChosen, Chased, CandidateRows, OpenRows, InvoiceRows, Before,
         IsSendable, IsListed, Sendable, IsEligible, IsDisputed
<1> QED  BY <1>1, <1>2, <1>3, <1>4, <1>5, <1>6 DEF IInv

\* So a write of the backend keeps the invariant, and so does midnight.
LEMMA WriteKeeps ==
  ASSUME IInv, NEW w \in World, Write(w)
  PROVE  IInv'
<1>1. changes' \in 0..MaxChanges /\ today' \in 0..MaxDays /\ world' \in World
  BY ConstantsAssumption DEF IInv, TypeOK, Write
<1> QED  BY <1>1, LakeKeeps DEF Write

LEMMA DayTurnsKeeps ==
  ASSUME IInv, DayTurns
  PROVE  IInv'
<1>1. changes' \in 0..MaxChanges /\ today' \in 0..MaxDays /\ world' \in World
  BY ConstantsAssumption DEF IInv, TypeOK, DayTurns
<1> QED  BY <1>1, LakeKeeps DEF DayTurns

\* An answer that is an error ends the request and changes nothing else.
LEMMA ErrorKeeps ==
  ASSUME IInv, phase # "answered", NEW a \in {"422", "500"}, Answer(a),
         UNCHANGED <<request, lake, reads, results>>
  PROVE  IInv'
<1> USE DEF Answer, request, lake, reads
<1>1. TypeOK'
  BY DEF IInv, TypeOK, Phases
<1>2. ReadsAreOwed'
  BY DEF IInv, ReadsAreOwed, Owed, Source
<1>3. ReadsAreMade'
  BY DEF IInv, ReadsAreMade
<1>4. ReportIsPrefix'
  BY DEF IInv, ReportIsPrefix, IdsAreUnique
<1>5. ReportCoversManifest'
  BY DEF ReportCoversManifest
<1>6. RowsAreChosen'
  BY DEF IInv, RowsAreChosen, Chased, CandidateRows, OpenRows, InvoiceRows, Before,
         IsSendable, IsListed, Sendable, IsEligible, IsDisputed
<1> QED  BY <1>1, <1>2, <1>3, <1>4, <1>5, <1>6 DEF IInv

\* The manifest is loaded, or the contexts are built: only the phase changes.
LEMMA PhaseKeeps ==
  ASSUME IInv, Load \/ Hydrate
  PROVE  IInv'
<1> USE DEF Load, Hydrate, request, lake, reads
<1>1. TypeOK'
  BY DEF IInv, TypeOK, Phases
<1>2. ReadsAreOwed'
  BY DEF IInv, ReadsAreOwed, Owed, Source
<1>3. ReadsAreMade'
  BY DEF IInv, ReadsAreMade
<1>4. ReportIsPrefix'
  BY DEF IInv, ReportIsPrefix, IdsAreUnique
<1>5. ReportCoversManifest'
  BY DEF IInv, ReportCoversManifest
<1>6. RowsAreChosen'
  BY DEF IInv, RowsAreChosen, Chased, CandidateRows, OpenRows, InvoiceRows, Before,
         IsSendable, IsListed, Sendable, IsEligible, IsDisputed
<1> QED  BY <1>1, <1>2, <1>3, <1>4, <1>5, <1>6 DEF IInv

\* While the lake is read there is no report yet, and a read can only become
\* empty when the code allows it to.
LEMMA ReadKeeps ==
  ASSUME IInv, NEW n \in 1..9, ReadAnswers(n) \/ ReadIsSkipped(n) \/ ReadIsSwallowed(n)
  PROVE  IInv'
<1> DEFINE k == Reads[n]
<1>1. k \in ReadNames /\ IsNext(n) /\ phase = "reading"
  BY ReadNamesAre DEF ReadAnswers, ReadIsSkipped, ReadIsSwallowed, IsNext
<1>2. /\ UNCHANGED <<request, lake, results, answer>>
      /\ Proceed(n)
  BY DEF ReadAnswers, ReadIsSkipped, ReadIsSwallowed
<1>3. \/ /\ got' = [got EXCEPT ![k] = "rows"] /\ from' = [from EXCEPT ![k] = Source]
         /\ asOf' = IF k = "obligations" THEN today ELSE asOf
      \/ /\ got' = [got EXCEPT ![k] = "empty"] /\ k \in Optional
         /\ from' = from /\ asOf' = asOf
  BY DEF ReadAnswers, ReadIsSkipped, ReadIsSwallowed, IsAsked, OfCases, Optional
<1>4. Source \in {epoch, world} /\ Source' = Source
  BY <1>2 DEF Source, request, lake
<1>5. results = <<>> /\ answer = "none"
  <2>1. results \in Seq(Result)
    BY DEF IInv, TypeOK
  <2> QED  BY <1>1, <2>1 DEF IInv, ReadsAreMade, ReportIsPrefix
<1> HIDE DEF k
<1>6. TypeOK'
  <2>1. from' \in [ReadNames -> World]
    BY <1>1, <1>3, <1>4 DEF IInv, TypeOK
  <2>2. got' \in [ReadNames -> {"unread", "rows", "empty"}]
    BY <1>1, <1>3 DEF IInv, TypeOK
  <2>3. asOf' \in 0..MaxDays
    BY <1>3 DEF IInv, TypeOK
  <2> QED  BY <1>2, <2>1, <2>2, <2>3 DEF IInv, TypeOK, Proceed, Phases, request, lake
<1>7. ReadsAreOwed'
  <2>1. \/ from'["obligations"] = from["obligations"] /\ asOf' = asOf
        \/ from'["obligations"] = Source /\ asOf' = today
    BY <1>3, ReadNamesAre DEF IInv, TypeOK
  <2> QED  BY <1>2, <1>4, <2>1 DEF IInv, ReadsAreOwed, Owed, lake
<1>8. ReadsAreMade'
  <2>1. \A j \in Required : got'[j] # "empty"
    BY <1>3, ReadNamesAre DEF IInv, TypeOK, ReadsAreMade, Required, Optional
  <2>2. phase' = "hydrated" => \A j \in ReadNames : got'[j] # "unread"
    <3> SUFFICES ASSUME phase' = "hydrated", NEW j \in ReadNames PROVE got'[j] # "unread"
      OBVIOUS
    <3>1. n = 9
      BY <1>2 DEF Proceed
    <3>2. PICK m \in 1..9 : j = Reads[m]
      BY DEF ReadNames
    <3>3. CASE m = 9
      BY <1>3, <3>1, <3>2, <3>3 DEF IInv, TypeOK, k
    <3>4. CASE m \in 1..8
      BY <1>1, <1>3, <3>1, <3>2, <3>4 DEF IInv, TypeOK, IsNext, k
    <3> QED  BY <3>3, <3>4
  <2>3. phase' # "drafting" /\ results' = <<>>
    BY <1>2, <1>5 DEF Proceed
  <2> QED  BY <2>1, <2>2, <2>3 DEF ReadsAreMade
<1>9. ReportIsPrefix'
  BY <1>1, <1>2 DEF IInv, ReportIsPrefix, IdsAreUnique, Proceed, request
<1>10. ReportCoversManifest'
  BY <1>2, <1>5 DEF ReportCoversManifest
<1>11. RowsAreChosen'
  <2>1. Len(results') = 0
    BY <1>2, <1>5
  <2> QED  BY <2>1 DEF RowsAreChosen
<1> QED  BY <1>6, <1>7, <1>8, <1>9, <1>10, <1>11 DEF IInv

\* An entry is added for the candidate whose turn it is.
LEMMA DraftKeeps ==
  ASSUME IInv, DraftIsMade \/ DraftFails
  PROVE  IInv'
<1> DEFINE n == Len(results) + 1
<1>1. PICK s \in {"generated", "failed"}, rs \in {{}, Chased(Current)} : Report(s, rs)
  BY DEF DraftIsMade, DraftFails
<1>2. phase = "drafting" /\ Len(results) < Len(manifest)
  BY DEF DraftIsMade, DraftFails
<1>3. /\ manifest \in Seq(Candidate) /\ results \in Seq(Result)
      /\ n \in 1..Len(manifest) /\ Current = manifest[n] /\ Current \in Candidate
  BY <1>2, ConstantsAssumption DEF IInv, TypeOK, Current
<1> DEFINE e == [id |-> Current.id, status |-> s, rows |-> rs]
<1>4. e \in Result
  <2>1. Chased(Current) \subseteq Lanes \X Obligations
    <3>1. from["obligations"] \in World
      BY ReadNamesAre DEF IInv, TypeOK
    <3> QED  BY <3>1 DEF Chased, CandidateRows, OpenRows, InvoiceRows, World
  <2> QED  BY <1>1, <1>3, <2>1 DEF Result, Candidate
<1>5. /\ results' = Append(results, e)
      /\ UNCHANGED <<request, lake, phase, reads, answer>>
  BY <1>1 DEF Report
<1>6. e.id = manifest[n].id /\ e.rows \subseteq Chased(manifest[n])
  BY <1>1, <1>3
<1> HIDE DEF e
<1>7. /\ results' \in Seq(Result)
      /\ Len(results') = n
      /\ results'[n] = e
      /\ \A i \in 1..Len(results) : results'[i] = results[i]
  BY <1>3, <1>4, <1>5
<1>8. \A i \in 1..n : i = n \/ i \in 1..Len(results)
  BY <1>3
<1>9. TypeOK'
  BY <1>5, <1>7 DEF IInv, TypeOK, request, lake, reads
<1>10. ReadsAreOwed'
  BY <1>5 DEF IInv, ReadsAreOwed, Owed, Source, request, lake, reads
<1>11. ReadsAreMade'
  <2>1. \A k \in Required : got[k] = "rows"
    <3>1. \A k \in Required : k \in ReadNames
      BY ReadNamesAre DEF Required
    <3> QED  BY <1>2, <3>1 DEF IInv, TypeOK, ReadsAreMade
  <2> QED  BY <1>2, <1>5, <2>1 DEF IInv, ReadsAreMade, request, lake, reads
<1>12. ReportIsPrefix'
  BY <1>3, <1>5, <1>6, <1>7, <1>8 DEF IInv, ReportIsPrefix, IdsAreUnique, request
<1>13. ReportCoversManifest'
  <2>1. answer' = "none"
    BY <1>2, <1>5 DEF IInv, ReportIsPrefix
  <2> QED  BY <2>1 DEF ReportCoversManifest
<1>14. RowsAreChosen'
  <2>1. \A i \in 1..n : results'[i].rows \subseteq Chased(manifest[i])
    BY <1>6, <1>7, <1>8 DEF IInv, RowsAreChosen
  <2>2. \A i \in 1..n : Chased(manifest[i])' = Chased(manifest[i])
    BY <1>5 DEF Chased, CandidateRows, OpenRows, InvoiceRows, Before, IsSendable,
                IsListed, Sendable, IsEligible, IsDisputed, reads, request
  <2>3. manifest' = manifest
    BY <1>5 DEF request
  <2> QED  BY <1>7, <2>1, <2>2, <2>3 DEF RowsAreChosen
<1> QED  BY <1>9, <1>10, <1>11, <1>12, <1>13, <1>14 DEF IInv

\* The request is answered with a report of every candidate.
LEMMA FinishKeeps ==
  ASSUME IInv, Finish
  PROVE  IInv'
<1>1. /\ phase = "drafting" /\ phase' = "answered" /\ Len(results) = Len(manifest)
      /\ UNCHANGED <<request, lake, reads, results>>
  BY DEF Finish, Answer
<1>2. results \in Seq(Result) /\ DOMAIN results = 1..Len(results)
  BY DEF IInv, TypeOK
<1>3. \A i \in 1..Len(results) : results[i].status \in {"generated", "failed"}
  <2>1. \A i \in 1..Len(results) : results[i] \in Result
    BY <1>2
  <2> QED  BY <2>1 DEF Result
<1>4. /\ answer' \in {"completed", "partial_failed", "failed"}
      /\ answer' = "completed" <=> Generated = DOMAIN results
      /\ answer' = "failed" <=> Generated # DOMAIN results /\ Generated = {}
  BY DEF Finish, Answer
<1>5. TypeOK'
  BY <1>1, <1>4 DEF IInv, TypeOK, Phases, request, lake, reads
<1>6. ReadsAreOwed'
  BY <1>1 DEF IInv, ReadsAreOwed, Owed, Source, request, lake, reads
<1>7. ReadsAreMade'
  BY <1>1 DEF IInv, ReadsAreMade, reads
<1>8. ReportIsPrefix'
  BY <1>1, <1>4 DEF IInv, ReportIsPrefix, IdsAreUnique, request
<1>9. ReportCoversManifest'
  <2>1. IdsAreUnique /\ \A i \in 1..Len(manifest) : results[i].id = manifest[i].id
    BY <1>1 DEF IInv, ReportIsPrefix
  <2>2. manifest # <<>> /\ Len(manifest) \in Nat \ {0} /\ DOMAIN manifest = 1..Len(manifest)
    BY <1>1, ConstantsAssumption DEF IInv, TypeOK, ReportIsPrefix
  <2>3. \A i, j \in 1..Len(manifest) : results[i].id = results[j].id => i = j
    BY <2>1, <2>2 DEF IdsAreUnique
  <2>4. answer' = "completed" <=> \A i \in 1..Len(manifest) : results[i].status = "generated"
    BY <1>1, <1>2, <1>4 DEF Generated
  <2>5. answer' = "failed" <=> \A i \in 1..Len(manifest) : results[i].status = "failed"
    BY <1>1, <1>2, <1>3, <1>4, <2>2 DEF Generated
  <2> QED  BY <1>1, <2>1, <2>3, <2>4, <2>5 DEF ReportCoversManifest, request
<1>10. RowsAreChosen'
  <2>1. UNCHANGED <<results, manifest, got, from, asOf>>
    BY <1>1 DEF request, reads
  <2> QED  BY <2>1 DEF IInv, RowsAreChosen, Chased, CandidateRows, OpenRows, InvoiceRows,
                       Before, IsSendable, IsListed, Sendable, IsEligible, IsDisputed
<1> QED  BY <1>5, <1>6, <1>7, <1>8, <1>9, <1>10 DEF IInv

\* A step that changes nothing keeps the invariant.
LEMMA StutterKeeps ==
  ASSUME IInv, UNCHANGED vars
  PROVE  IInv'
<1>1. /\ UNCHANGED <<mode, epoch, published, manifest, world, changes, today, owed>>
      /\ UNCHANGED <<phase, got, from, asOf, results, answer>>
  BY DEF vars, request, lake, reads
<1>2. TypeOK'
  BY <1>1 DEF IInv, TypeOK
<1>3. ReadsAreOwed'
  BY <1>1 DEF IInv, ReadsAreOwed, Owed, Source
<1>4. ReadsAreMade'
  BY <1>1 DEF IInv, ReadsAreMade
<1>5. ReportIsPrefix'
  BY <1>1 DEF IInv, ReportIsPrefix, IdsAreUnique
<1>6. ReportCoversManifest'
  BY <1>1 DEF IInv, ReportCoversManifest
<1>7. RowsAreChosen'
  BY <1>1 DEF IInv, RowsAreChosen, Chased, CandidateRows, OpenRows, InvoiceRows, Before,
              IsSendable, IsListed, Sendable, IsEligible, IsDisputed
<1> QED  BY <1>2, <1>3, <1>4, <1>5, <1>6, <1>7 DEF IInv

\* Every step of the request or of the backend keeps the invariant.
LEMMA NextKeeps == IInv /\ [Next]_vars => IInv'
<1> SUFFICES ASSUME IInv, [Next]_vars PROVE IInv'
  OBVIOUS
<1>1. CASE Backend
  BY <1>1, BackendWrites, WriteKeeps DEF IInv
<1>2. CASE Reject
  BY <1>2, ErrorKeeps DEF Reject
<1>3. CASE LoadFails
  BY <1>3, ErrorKeeps DEF LoadFails
<1>4. CASE \E n \in 1..9 : ReadFails(n)
  BY <1>4, ErrorKeeps DEF ReadFails, IsNext
<1>5. CASE HydrationFails
  BY <1>5, ErrorKeeps DEF HydrationFails
<1>6. CASE Load \/ Hydrate
  BY <1>6, PhaseKeeps
<1>7. CASE \E n \in 1..9 : ReadAnswers(n) \/ ReadIsSkipped(n) \/ ReadIsSwallowed(n)
  BY <1>7, ReadKeeps
<1>8. CASE DraftIsMade \/ DraftFails
  BY <1>8, DraftKeeps
<1>9. CASE Finish
  BY <1>9, FinishKeeps
<1>10. CASE UNCHANGED vars
  BY <1>10, StutterKeeps
<1>11. CASE DayTurns
  BY <1>11, DayTurnsKeeps
<1> QED
  BY <1>1, <1>2, <1>3, <1>4, <1>5, <1>6, <1>7, <1>8, <1>9, <1>10, <1>11 DEF Next, Handler

\* The inductive invariant holds in every reachable state, for every lake, every
\* manifest and every number of writes.
THEOREM Invariance == Spec => []IInv
<1>1. Init => IInv
  BY InitIsSound
<1>2. IInv /\ [Next]_vars => IInv'
  BY NextKeeps
<1> QED  BY <1>1, <1>2, PTL DEF Spec

-----------------------------------------------------------------------------
(* What the invariant says of the drafts.                                  *)

\* The variables of a manifest request keep their types, whatever fails and
\* whatever the backend writes (the state of generate_draft_from_manifest).
THEOREM TypeCorrect == Spec => []TypeOK
<1>1. IInv => TypeOK
  BY DEF IInv
<1> QED  BY <1>1, Invariance, PTL

\* No candidate is lost: a report has one entry per candidate, in the order of
\* the manifest, and its status fits them (the end of
\* generate_draft_from_manifest).
THEOREM ReportAlwaysCovers == Spec => []ReportCoversManifest
<1>1. IInv => ReportCoversManifest
  BY DEF IInv
<1> QED  BY <1>1, Invariance, PTL

\* The entries of a report and their candidates.
LEMMA EntriesOfCandidates ==
  ASSUME IInv, NEW i \in DOMAIN results
  PROVE  /\ i \in DOMAIN manifest
         /\ results[i].rows \subseteq Chased(manifest[i])
<1>1. /\ DOMAIN results = 1..Len(results) /\ DOMAIN manifest = 1..Len(manifest)
      /\ Len(results) \in Nat /\ Len(manifest) \in Nat
  BY ConstantsAssumption DEF IInv, TypeOK
<1> QED  BY <1>1 DEF IInv, ReportIsPrefix, RowsAreChosen

\* An invoice is chased only if, at one moment of the request, the lake it reads
\* showed it open and not in query and the date was past its due date, whatever
\* is written or turns midnight between the reads
\* (_select_candidate_obligations).
THEOREM OnlyOwedIsChased == Spec => []ChasedIsOwed
<1>1. IInv => ChasedIsOwed
  <2> SUFFICES ASSUME IInv, NEW i \in DOMAIN results, NEW r \in results[i].rows
               PROVE  r[2] \in owed
    BY DEF ChasedIsOwed
  <2>1. r \in Chased(manifest[i])
    BY EntriesOfCandidates
  <2>2. /\ r[2] \in from["obligations"].open /\ r[2] \notin from["obligations"].queried
        /\ from["obligations"].due[r[2]] < asOf
    BY <2>1 DEF Chased, CandidateRows, OpenRows, IsSendable, IsEligible
  <2>3. Owed(from["obligations"], asOf) \subseteq owed
    BY DEF IInv, ReadsAreOwed
  <2> QED  BY <2>2, <2>3 DEF Owed
<1> QED  BY <1>1, Invariance, PTL

\* A draft chases invoices of its candidate's lanes only, and of those it names
\* if it names any (candidate_obligations).
THEOREM ScopeIsKept == Spec => []ChasedInScope
<1>1. IInv => ChasedInScope
  <2> SUFFICES ASSUME IInv, NEW i \in DOMAIN results
               PROVE  /\ i \in DOMAIN manifest
                      /\ \A r \in results[i].rows :
                           /\ \E n \in DOMAIN manifest[i].lanes : manifest[i].lanes[n] = r[1]
                           /\ manifest[i].named # {} => r[2] \in manifest[i].named
    BY DEF ChasedInScope
  <2>1. i \in DOMAIN manifest /\ results[i].rows \subseteq Chased(manifest[i])
    BY EntriesOfCandidates
  <2> QED  BY <2>1 DEF Chased, CandidateRows, OpenRows
<1> QED  BY <1>1, Invariance, PTL

\* An invoice that several lanes of a candidate list is counted once when the
\* candidate names its invoices (candidate_obligations).
THEOREM CountedOnceAlways == Spec => []CountedOnce
<1>1. IInv => CountedOnce
  <2> SUFFICES ASSUME IInv, NEW i \in DOMAIN results, manifest[i].named # {},
                      NEW r \in results[i].rows, NEW s \in results[i].rows, r[2] = s[2]
               PROVE  r = s
    BY DEF CountedOnce
  <2> DEFINE c == manifest[i]
  <2>1. r \in Chased(c) /\ s \in Chased(c) /\ c \in Candidate
    BY EntriesOfCandidates, ConstantsAssumption DEF IInv, TypeOK
  <2>2. /\ r \in OpenRows(c) /\ s \in OpenRows(c)
        /\ ~Before(c, r, s) /\ ~Before(c, s, r)
    BY <2>1 DEF Chased, CandidateRows
  <2>3. PICK m \in DOMAIN c.lanes, n \in DOMAIN c.lanes : c.lanes[m] = r[1] /\ c.lanes[n] = s[1]
    BY <2>2 DEF OpenRows
  <2>4. m \in Nat /\ n \in Nat
    BY <2>1, <2>3 DEF Candidate
  <2>5. m = n
    BY <2>2, <2>3, <2>4 DEF Before
  <2>6. r \in Lanes \X Obligations /\ s \in Lanes \X Obligations
    <3>1. from["obligations"] \in World
      BY ReadNamesAre DEF IInv, TypeOK
    <3> QED  BY <2>2, <3>1 DEF OpenRows, InvoiceRows, World
  <2> QED  BY <2>3, <2>5, <2>6
<1> QED  BY <1>1, Invariance, PTL

\* No draft is made after a required read has failed (hydrate_batch).
THEOREM DraftsAlwaysHaveTheirReads == Spec => []DraftsNeedTheirReads
<1>1. IInv => DraftsNeedTheirReads
  BY DEF IInv, ReadsAreMade, Required, DraftsNeedTheirReads
<1> QED  BY <1>1, Invariance, PTL
=============================================================================
