------------------------------ MODULE SentScope ------------------------------
(***************************************************************************)
(* SentDraftScopeAnalyzer.analyze: which invoices does the e-mail that was *)
(* really sent ask for, compared with the draft the engine generated?  A   *)
(* model decides per invoice; its decisions may name an invoice twice, or  *)
(* not at all, or one nobody asked about, or contradict the draft, and are *)
(* reconciled with the request q before anything is reported.              *)
(*                                                                         *)
(* An invoice number is known by its spelling; Norm strips and upcases it. *)
(* Confidence is in percent.                                               *)
(***************************************************************************)
EXTENDS Integers, Sequences

CONSTANTS
  Spellings,    \* invoice numbers as they are written
  Norm,         \* _norm_ref
  Blank,        \* what an empty number is normalized to
  Obligations   \* the ids of the candidates

Statuses == {"retained", "added", "removed", "not_present", "ambiguous"}

Candidates == [number : Spellings, obligation : Obligations]

Decisions == [number : Spellings, status : Statuses, confidence : 0..100]

\* A request: the candidates, and the invoices of the generated draft.
IsAnalysis(q) == q.candidates \in Seq(Candidates) /\ q.generated \subseteq Spellings

\* An answer e of the model, readable or not.
DecisionLists == [readable : BOOLEAN, decisions : Seq(Decisions)]

-----------------------------------------------------------------------------
(* The invoices of the request.                                            *)

CandidateRefs(q) ==
  {Norm[q.candidates[i].number] : i \in DOMAIN q.candidates} \ {Blank}

GeneratedRefs(q) == {Norm[s] : s \in q.generated} \ {Blank}

Spelled(q, i, r) == Norm[q.candidates[i].number] = r

\* candidate_map keeps the last candidate of a number.
ObligationOf(q, r) ==
  LET last == CHOOSE i \in DOMAIN q.candidates :
                /\ Spelled(q, i, r)
                /\ \A j \in DOMAIN q.candidates : j > i => ~Spelled(q, j, r)
  IN  q.candidates[last].obligation

-----------------------------------------------------------------------------
(* What is made of an answer a.                                            *)

Decides(a, i, r) == Norm[a[i].number] = r

Named(a, r) == \E i \in DOMAIN a : Decides(a, i, r)

\* Faulty variants (a name ending in Mutant) are not part of the model: each is
\* a bug the next definition could have, which a property must tell apart.
IsDecisionOnMutant(a, i, r) ==
  Decides(a, i, r) /\ \A j \in DOMAIN a : j > i => ~Decides(a, j, r)

\* The first decision on an invoice counts.
IsDecisionOn(a, i, r) ==
  Decides(a, i, r) /\ \A j \in DOMAIN a : j < i => ~Decides(a, j, r)

DecisionOn(a, r) == a[CHOOSE i \in DOMAIN a : IsDecisionOn(a, i, r)]

CorrectedMutant(q, status, r) ==
  IF status = "retained" /\ r \notin GeneratedRefs(q) THEN "added" ELSE status

\* What the model says of the draft is corrected by the draft.
Corrected(q, status, r) ==
  IF r \in GeneratedRefs(q)
  THEN IF status = "added" THEN "retained" ELSE status
  ELSE IF status = "retained" THEN "added"
       ELSE IF status = "removed" THEN "not_present" ELSE status

\* The validated decision on a candidate.
Verdict(q, a, r) ==
  IF Named(a, r)
  THEN [obligation |-> ObligationOf(q, r),
        status |-> Corrected(q, DecisionOn(a, r).status, r),
        confidence |-> DecisionOn(a, r).confidence]
  ELSE [obligation |-> ObligationOf(q, r), status |-> "not_present", confidence |-> 100]

Verdicts(q, a) == [r \in CandidateRefs(q) |-> Verdict(q, a, r)]

With(verdicts, status) == {r \in DOMAIN verdicts : verdicts[r].status = status}

Present(verdicts) == DOMAIN verdicts \ With(verdicts, "not_present")

ReviewCodesMutant(a, verdicts) ==
  {c \in {"ambiguous", "low_confidence"} :
     \/ c = "ambiguous" /\ With(verdicts, "ambiguous") # {}
     \/ c = "low_confidence" /\ \E r \in Present(verdicts) : verdicts[r].confidence < 75}

ReviewCodes(a, verdicts) ==
  {c \in {"ambiguous", "low_confidence", "decisions_repaired"} :
     \/ c = "ambiguous" /\ With(verdicts, "ambiguous") # {}
     \/ c = "low_confidence" /\ \E r \in Present(verdicts) : verdicts[r].confidence < 75
     \/ c = "decisions_repaired" /\ \E r \in DOMAIN verdicts : ~Named(a, r)}

Weakest(verdicts) ==
  IF Present(verdicts) = {} THEN 100
  ELSE CHOOSE n \in {verdicts[r].confidence : r \in Present(verdicts)} :
         \A r \in Present(verdicts) : n <= verdicts[r].confidence

ReportOf(q, a) ==
  LET verdicts == Verdicts(q, a)
      codes == ReviewCodes(a, verdicts)
  IN  [status |-> IF codes = {} THEN "succeeded" ELSE "review_required",
       review |-> codes # {},
       codes |-> codes,
       sent |-> With(verdicts, "retained") \cup With(verdicts, "added"),
       retained |-> With(verdicts, "retained"),
       added |-> With(verdicts, "added"),
       removed |-> With(verdicts, "removed"),
       ambiguous |-> With(verdicts, "ambiguous"),
       changed |-> With(verdicts, "added") \cup With(verdicts, "removed")
                     \cup With(verdicts, "ambiguous") # {},
       confidence |-> Weakest(verdicts),
       decisions |-> verdicts]

\* A response that does not come from an answer.
ReportWithout(status, code) ==
  [status |-> status, review |-> TRUE, codes |-> {code},
   sent |-> {}, retained |-> {}, added |-> {}, removed |-> {}, ambiguous |-> {},
   changed |-> FALSE, confidence |-> 0, decisions |-> <<>>]

-----------------------------------------------------------------------------
(* The service.                                                            *)

\* Nothing is asked about a request without candidates.
HasNoCandidates(q) == CandidateRefs(q) = {}

Unasked == ReportWithout("review_required", "no_candidates")

\* What analyze() makes of most failures of the providers.
Unavailable == ReportWithout("failed", "provider_unavailable")

\* Decisions of any kind and order are reconciled; only what is no list of
\* decisions is an error.
IsValid(e) == e.readable

Response(q, e) == ReportOf(q, e.decisions)

-----------------------------------------------------------------------------
(* What properties say of a report r on q, made of the decisions a.        *)

\* What was retained or removed was generated, what was added was not, and no
\* invoice is in two of the lists.
AgreesWithDraft(q, r) ==
  /\ r.retained \subseteq GeneratedRefs(q)
  /\ r.removed \subseteq GeneratedRefs(q)
  /\ r.added \cap GeneratedRefs(q) = {}
  /\ r.ambiguous \cap (r.sent \cup r.removed) = {}
  /\ r.removed \cap r.sent = {}
  /\ r.sent = r.retained \cup r.added

\* An invoice that was generated, and asked about, is in one of the lists, unless
\* the report asks for a review or the first decision calls it not present.
AccountsForDraft(q, a, r) ==
  \A ref \in GeneratedRefs(q) \cap CandidateRefs(q) :
    \/ ref \in r.retained \cup r.removed \cup r.ambiguous
    \/ r.review
    \/ \E i \in DOMAIN a :
         /\ Decides(a, i, ref)
         /\ a[i].status = "not_present"
         /\ \A j \in DOMAIN a : j < i => ~Decides(a, j, ref)

\* What is reported as sent is called so by the first decision on it, and is a
\* candidate, with an obligation of that number.
IsDecided(q, a, r) ==
  \A ref \in r.sent :
    /\ \E i \in DOMAIN a :
         /\ Decides(a, i, ref)
         /\ a[i].status \in {"retained", "added"}
         /\ \A j \in DOMAIN a : j < i => ~Decides(a, j, ref)
    /\ \E c \in DOMAIN q.candidates :
         /\ Spelled(q, c, ref)
         /\ r.decisions[ref].obligation = q.candidates[c].obligation

\* A report without review: every candidate was decided, and surely.
IsEarned(q, a, r) ==
  /\ ~r.review
  /\ \A ref \in CandidateRefs(q) : Named(a, ref)
  /\ r.ambiguous = {}
  /\ \A ref \in r.sent \cup r.removed :
       /\ r.confidence <= r.decisions[ref].confidence
       /\ r.decisions[ref].confidence >= 75
=============================================================================
