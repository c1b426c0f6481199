------------------------------ MODULE ReviewGate ------------------------------
(***************************************************************************)
(* What has to be true of a candidate before it may land: the gates of     *)
(* accept_task and record_integration (service.py, orchestrator.py), over  *)
(* the evidence other calls and other workers produce meanwhile.           *)
(*                                                                         *)
(* One implement task and the candidates its turns produce; the operator,  *)
(* who reads the diff page by page and decides on what a past look showed; *)
(* review tasks, which look at one candidate while the next may be made;   *)
(* and the operator's profile edits and grants.  Landing itself is the     *)
(* subject of Acceptance: here an accept lands, comes back, or is left to   *)
(* a person.                                                               *)
(***************************************************************************)
EXTENDS Naturals, Sequences, FiniteSets, SequencesExt

CONSTANTS
    Author,         \* the provider of the task
    Reviewers,      \* the providers a review may be asked of
    Families,       \* provider families
    FamilyOf,       \* the families the profiles name at first
    ReviewTasks,    \* review tasks that may be started
    Outcomes,       \* what a turn may produce: [digest, checks, scope, root]
    SizeOf,         \* the size of each diff, by its digest
    Pages,          \* page lengths the operator asks for
    MaxPage,        \* DIFF_PAGE_MAX_BYTES
    Verdicts,       \* what a review may say: [verdict, findings, critical]
    Flags,          \* the sets of opt-in gates a request may name
    MaxRevision,    \* bound: candidates
    MaxReceipts,    \* bound: receipts
    MaxVersion      \* bound: state versions

Providers == Reviewers \cup {Author}
Digests == DOMAIN SizeOf
Findings == UNION {v.findings : v \in Verdicts}
NoReview == "none"

ASSUME GateAssumption ==
    /\ FamilyOf \in [Providers -> Families]
    /\ NoReview \notin ReviewTasks
    /\ SizeOf \in [Digests -> Nat] /\ Pages \subseteq Nat \ {0}
    /\ Outcomes \subseteq [digest : Digests, checks : BOOLEAN, scope : BOOLEAN, root : BOOLEAN]
    /\ MaxPage \in Nat \ {0} /\ MaxRevision \in Nat \ {0} /\ MaxVersion \in Nat

VARIABLES
    state,      \* RESULT_READY, REPAIRING, ACCEPTING, ACCEPTED or RECOVERY_AMBIGUOUS
    version,    \* state_version
    cands,      \* the candidate of each revision
    receipts,   \* artifact_receipts: [digest, offset, length]
    reviews,    \* each review task, with the row it recorded in reviews
    family,     \* the family each configured profile names now
    granted,    \* providers with an active review grant on the repository
    acked,      \* revisions with a root_mutation_acknowledged record
    seen,       \* what the operator last looked at: version and revision
    manual,     \* a record_integration on its way: past its gates, or past its first transition
    claim,      \* the acceptance in progress or made: the revision it lands, the call it came by,
                \* the revision and the flags of that call's gates, review, dispositions, warned
    profileEdits

vars == <<state, version, cands, receipts, reviews, family, granted, acked, seen, manual, claim, profileEdits>>

Revision == Len(cands)
Current == cands[Revision]
Unsaid == [verdict |-> "none", findings |-> {}, critical |-> {}]
Idle == [st |-> "none", provider |-> Author, family |-> FamilyOf[Author], rev |-> 0, shown |-> 0,
         said |-> Unsaid]
NoManual == [at |-> "none", version |-> 0, rev |-> 0, flags |-> {}]
NoClaim == [rev |-> 0, via |-> "none", gated |-> 0, flags |-> {}, review |-> NoReview,
            disposed |-> {}, overridden |-> {}, warned |-> FALSE]

ReviewRow == [st : {"none", "placed", "prompted", "recorded", "discarded", "failed"},
              provider : Providers, family : Families, rev : Nat, shown : Nat,
              said : Verdicts \cup {Unsaid}]
ManualRow == [at : {"none", "gated", "accepting"}, version : Nat, rev : Nat, flags : Flags \cup {{}}]
ClaimRow == [rev : Nat, via : {"none", "accept_task", "record_integration"}, gated : Nat,
             flags : Flags \cup {{}}, review : ReviewTasks \cup {NoReview},
             disposed : SUBSET Findings, overridden : SUBSET Findings, warned : BOOLEAN]

TypeOK ==
    /\ state \in {"RESULT_READY", "REPAIRING", "ACCEPTING", "ACCEPTED", "RECOVERY_AMBIGUOUS"}
    /\ version \in Nat \ {0}
    /\ cands \in Seq(Outcomes) /\ cands # <<>>
    /\ receipts \subseteq [digest : Digests, offset : Nat, length : Nat \ {0}]
    /\ reviews \in [ReviewTasks -> ReviewRow]
    /\ family \in [Providers -> Families] /\ granted \subseteq Reviewers
    /\ acked \subseteq 1..Revision
    /\ seen \in [version : Nat, rev : Nat] /\ seen.rev <= Revision
    /\ manual \in ManualRow
    /\ claim \in ClaimRow
    /\ profileEdits \in {0, 1}

Init ==
    /\ state = "RESULT_READY" /\ version = 1
    /\ cands \in {<<c>> : c \in Outcomes}
    /\ receipts = {} /\ reviews = [r \in ReviewTasks |-> Idle]
    /\ family = FamilyOf /\ granted = Reviewers /\ acked = {}
    /\ seen = [version |-> 0, rev |-> 0] /\ manual = NoManual /\ claim = NoClaim /\ profileEdits = 0

-----------------------------------------------------------------------------
(* Diff receipts.                                                            *)

Before(x, y) == x.offset < y.offset \/ (x.offset = y.offset /\ x.length <= y.length)

(* The rows in the order the query returns them.                             *)
Ascending(rows) ==
    CHOOSE s \in [1..Cardinality(rows) -> rows] :
        Range(s) = rows /\ \A i, j \in DOMAIN s : i < j => Before(s[i], s[j])

(* A row that starts within or at the end of the last range extends it.       *)
Merged(m, x) ==
    LET last == Len(m)
        end == x.offset + x.length
    IN  IF m # <<>> /\ x.offset <= m[last][2]
        THEN [m EXCEPT ![last] = <<m[last][1], IF end > m[last][2] THEN end ELSE m[last][2]>>]
        ELSE Append(m, <<x.offset, end>>)

(* Faulty variant: receipts are looked up by task, not by digest. *)
ReceiptCoverageOfTask(digest) ==
    FoldLeft(Merged, <<>>, Ascending({x \in receipts : x.length > 0}))

(* store.receipt_coverage: the delivered byte ranges, sorted and merged.      *)
ReceiptCoverage(digest) ==
    FoldLeft(Merged, <<>>, Ascending({x \in receipts : x.digest = digest /\ x.length > 0}))

(* Faulty variant: only the end of the ranges is looked at. *)
DiffRetrievedToEnd(digest) == \E range \in Range(ReceiptCoverage(digest)) : range[2] >= SizeOf[digest]

(* service.diff_fully_retrieved: a cursor runs over the ranges; a range that  *)
(* starts after it, or an end before the size, leaves something missing.      *)
Walk(size, c, range) ==
    [cursor |-> IF range[2] > c.cursor THEN range[2] ELSE c.cursor,
     gap |-> c.gap \/ (c.cursor < size /\ range[1] > c.cursor)]

DiffFullyRetrieved(digest) ==
    LET size == SizeOf[digest]
        end == FoldLeft(LAMBDA c, range : Walk(size, c, range), [cursor |-> 0, gap |-> FALSE],
                        ReceiptCoverage(digest))
    IN  ~end.gap /\ end.cursor >= size

(* task_diff: one page of the current candidate's diff and its receipt.       *)
TaskDiff(offset, wanted) ==
    LET size == SizeOf[Current.digest]
        length == CHOOSE n \in {wanted, MaxPage, size - offset} :
                      \A k \in {wanted, MaxPage, size - offset} : n <= k
        row == [digest |-> Current.digest, offset |-> offset, length |-> length]
    IN  /\ offset < size
        /\ row \in receipts \/ Cardinality(receipts) < MaxReceipts
        /\ receipts' = receipts \cup {row}
        /\ UNCHANGED <<state, version, cands, reviews, family, granted, acked, seen, manual, claim, profileEdits>>

-----------------------------------------------------------------------------
(* Turns and reviews.                                                        *)

(* The operator looks at the task: later requests name what this look showed. *)
Look ==
    /\ seen' = [version |-> version, rev |-> Revision]
    /\ UNCHANGED <<state, version, cands, receipts, reviews, family, granted, acked, manual, claim, profileEdits>>

(* continue_task: another turn on the candidate, pinned to the version seen.  *)
Repair ==
    /\ state = "RESULT_READY" /\ seen.version = version
    /\ Revision < MaxRevision /\ version + 2 < MaxVersion
    /\ family[Author] = FamilyOf[Author]
    /\ state' = "REPAIRING" /\ version' = version + 1
    /\ UNCHANGED <<cands, receipts, reviews, family, granted, acked, seen, manual, claim, profileEdits>>

(* The worker's turn and runner._finalize_implement: a new candidate with the *)
(* warnings this turn earned.                                                 *)
FinishTurn(c) ==
    /\ state = "REPAIRING"
    /\ state' = "RESULT_READY" /\ version' = version + 2      \* RUNNING, RESULT_READY
    /\ cands' = Append(cands, c)
    /\ UNCHANGED <<receipts, reviews, family, granted, acked, seen, manual, claim, profileEdits>>

(* providers.reviewer_independent, for profiles of the built-in families.     *)
ReviewerIndependent(author, reviewer) == author # reviewer /\ family[author] # family[reviewer]

(* orchestrator._require_independent with require_task_profile: the profiles  *)
(* are independent now and still the ones the tasks were bound to.            *)
RequireIndependent(provider, bound) ==
    /\ ReviewerIndependent(Author, provider)
    /\ family[Author] = FamilyOf[Author]
    /\ family[provider] = bound

(* start_task in review mode, _review_placement: the candidate the operator   *)
(* names is the current one, the reviewer independent and granted.            *)
PlaceReview(r, p) ==
    /\ reviews[r].st = "none"
    /\ state = "RESULT_READY" /\ seen.rev = Revision
    /\ RequireIndependent(p, family[p])
    /\ p \in granted
    /\ reviews' = [reviews EXCEPT ![r] = [Idle EXCEPT !.st = "placed", !.provider = p,
                                                      !.family = family[p], !.rev = Revision]]
    /\ UNCHANGED <<state, version, cands, receipts, family, granted, acked, seen, manual, claim, profileEdits>>

(* _prepare with _review_diff: the prompt carries the subject's diff of now.  *)
PrepareReview(r) ==
    /\ reviews[r].st = "placed"
    /\ reviews' = [reviews EXCEPT ![r].st = "prompted", ![r].shown = Revision]
    /\ UNCHANGED <<state, version, cands, receipts, family, granted, acked, seen, manual, claim, profileEdits>>

(* runner._finalize_review: a dirty worktree discards the verdict, an answer  *)
(* that does not parse (review.parse_review_output) fails the review, and a   *)
(* verdict is recorded against the candidate the review was asked for.        *)
(* The row keeps the candidate that the review was prepared with.          *)
insert_review(r, said) == [reviews EXCEPT ![r].st = "recorded", ![r].said = said]

FinishReview(r, said) ==
    /\ reviews[r].st = "prompted"
    /\ \/ reviews' = insert_review(r, said)
       \/ \E end \in {"discarded", "failed"} : reviews' = [reviews EXCEPT ![r].st = end]
    /\ UNCHANGED <<state, version, cands, receipts, family, granted, acked, seen, manual, claim, profileEdits>>

(* authorize_repository and revoke_repository, which touch no started task.   *)
Authorize(p) ==
    /\ granted' = granted \cup {p}
    /\ UNCHANGED <<state, version, cands, receipts, reviews, family, acked, seen, manual, claim, profileEdits>>

Revoke(p) ==
    /\ granted' = granted \ {p}
    /\ UNCHANGED <<state, version, cands, receipts, reviews, family, acked, seen, manual, claim, profileEdits>>

(* The operator edits the profile configuration (external to the calls).      *)
EditProfile(p, f) ==
    /\ profileEdits = 0 /\ family[p] # f
    /\ family' = [family EXCEPT ![p] = f]
    /\ profileEdits' = 1
    /\ UNCHANGED <<state, version, cands, receipts, reviews, granted, acked, seen, manual, claim>>

-----------------------------------------------------------------------------
(* The gates.                                                                *)

(* service._undisposed_finding_ids: what the dispositions leave open.  A      *)
(* BLOCK verdict without findings is open under its own name.                 *)
Undisposed(said, disposed, overridden) ==
    LET mustOverride == IF said.verdict = "BLOCK" THEN said.findings ELSE said.critical
    IN  (IF said.verdict = "BLOCK" /\ said.findings = {} THEN {"BLOCK"} ELSE {})
        \cup (mustOverride \ overridden)
        \cup (IF said.verdict = "CONCERN" THEN said.findings \ disposed ELSE {})

(* Faulty variant: the review need not be of the candidate being accepted. *)
BoundReviewAny(r, rev) == reviews[r].st = "recorded" /\ reviews[r].provider # Author

(* service._bound_review: a named review is recorded, of this candidate and   *)
(* by another provider.                                                       *)
BoundReview(r, rev) ==
    /\ reviews[r].st = "recorded"
    /\ reviews[r].rev = rev
    /\ reviews[r].provider # Author

(* orchestrator._unacknowledged_root_mutation.                                *)
UnacknowledgedRootMutation(rev) == cands[rev].root /\ rev \notin acked

(* orchestrator._accept_gates.                                                *)
AcceptGates(rev, requireChecks, flags) ==
    /\ requireChecks => cands[rev].checks
    /\ ~cands[rev].scope
    /\ "root" \in flags => ~UnacknowledgedRootMutation(rev)

(* Every disposition names a finding; where the review is required, every     *)
(* finding that stands in the way has one, but for those whose id is the      *)
(* verdict's own name: they are filtered out with the marker of an empty      *)
(* BLOCK, which is refused before.                                            *)
check_dispositions(required, said, disposed, overridden) ==
    /\ disposed \subseteq said.findings          \* _check_unknown_dispositions
    /\ required =>
           /\ ~(said.verdict = "BLOCK" /\ said.findings = {})
           /\ Undisposed(said, disposed, overridden) \subseteq {said.verdict}

(* service.check_acceptance and the rest of accept_task's transaction.        *)
CheckAcceptance(flags, r, disposed, overridden) ==
    /\ state = "RESULT_READY"
    /\ seen.version = version
    /\ seen.rev = Revision
    /\ "receipts" \in flags => DiffFullyRetrieved(Current.digest)
    /\ r = NoReview => "review" \notin flags /\ disposed = {}
    /\ r # NoReview =>
           /\ BoundReview(r, seen.rev)
           /\ RequireIndependent(reviews[r].provider, reviews[r].family)
           /\ check_dispositions("review" \in flags, reviews[r].said, disposed, overridden)
    /\ AcceptGates(Revision, "rerun" \notin flags, flags)

(* accept_task: the gates and apply_acceptance, in one transaction.  Findings *)
(* left open by a review that was not required become a warning of the task.  *)
Accept(flags, r, disposed, overridden) ==
    /\ version + 1 < MaxVersion /\ overridden \subseteq disposed
    /\ CheckAcceptance(flags, r, disposed, overridden)
    /\ state' = "ACCEPTING" /\ version' = version + 1
    /\ claim' = [rev |-> Revision, via |-> "accept_task", gated |-> Revision, flags |-> flags,
                 review |-> r, disposed |-> disposed, overridden |-> overridden,
                 warned |-> r # NoReview /\ "review" \notin flags
                            /\ Undisposed(reviews[r].said, disposed, overridden) # {}]
    /\ UNCHANGED <<cands, receipts, reviews, family, granted, acked, seen, manual, profileEdits>>

(* The accept unit of accept_task lands the candidate or gives it back (see   *)
(* Acceptance).  A sweep of another server gives back an ACCEPTING task       *)
(* without a unit, a record_integration half way through, or leaves it to a   *)
(* person while the last turn's heartbeat is fresh.                           *)
AcceptEnds ==
    /\ state = "ACCEPTING" /\ version' = version + 1
    /\ \/ claim.via = "accept_task" /\ state' = "ACCEPTED" /\ UNCHANGED claim
       \/ state' \in {"RESULT_READY", "RECOVERY_AMBIGUOUS"} /\ claim' = NoClaim
    /\ UNCHANGED <<cands, receipts, reviews, family, granted, acked, seen, manual, profileEdits>>

(* record_integration of kind root_mutation_acknowledged: bound to the        *)
(* revision of now, in whatever state the task is.                            *)
Acknowledge ==
    /\ seen.version = version
    /\ acked' = acked \cup {Revision}
    /\ UNCHANGED <<state, version, cands, receipts, reviews, family, granted, seen, manual, claim, profileEdits>>

(* service.require_independent_review: a review of this candidate, if there   *)
(* is one, was not written by its author; the latest row is the one looked at *)
RequireIndependentReview(required) ==
    LET found == {r \in ReviewTasks : reviews[r].st = "recorded" /\ reviews[r].rev = Revision}
    IN  /\ required => found # {}
        /\ found # {} => \E r \in found :
               /\ reviews[r].provider # Author
               /\ RequireIndependent(reviews[r].provider, reviews[r].family)

(* record_integration of a merge made by hand, up to its gates: the record    *)
(* that is read here is what the first transition is pinned to.               *)
IntegrationGates(flags) ==
    /\ manual = NoManual
    /\ state = "RESULT_READY" /\ seen.version = version /\ version + 2 < MaxVersion
    /\ "receipts" \in flags => DiffFullyRetrieved(Current.digest)
    /\ RequireIndependentReview("review" \in flags)
    /\ AcceptGates(Revision, "rerun" \in flags, flags)
    /\ manual' = [at |-> "gated", version |-> version, rev |-> Revision, flags |-> flags]
    /\ UNCHANGED <<state, version, cands, receipts, reviews, family, granted, acked, seen, claim, profileEdits>>

(* The acceptance a record_integration claims: what it lands is the candidate *)
(* of now, what its gates looked at is the one it read.                       *)
Recorded == [NoClaim EXCEPT !.rev = Revision, !.via = "record_integration",
                            !.gated = manual.rev, !.flags = manual.flags]

(* Faulty variant: the first transition is not pinned to the version the gates read. *)
RecordAcceptingUnpinned ==
    /\ manual.at = "gated"
    /\ IF state = "RESULT_READY"
       THEN /\ state' = "ACCEPTING" /\ version' = version + 1 /\ claim' = Recorded
            /\ manual' = [manual EXCEPT !.at = "accepting"]
       ELSE manual' = NoManual /\ UNCHANGED <<state, version, claim>>
    /\ UNCHANGED <<cands, receipts, reviews, family, granted, acked, seen, profileEdits>>

(* record_integration, its first transition: a version that moved since the   *)
(* gates refuses it.                                                          *)
RecordAccepting ==
    /\ manual.at = "gated"
    /\ IF state = "RESULT_READY" /\ version = manual.version
       THEN /\ state' = "ACCEPTING" /\ version' = version + 1 /\ claim' = Recorded
            /\ manual' = [manual EXCEPT !.at = "accepting"]
       ELSE manual' = NoManual /\ UNCHANGED <<state, version, claim>>
    /\ UNCHANGED <<cands, receipts, reviews, family, granted, acked, seen, profileEdits>>

(* Its second transition is pinned to nothing: it takes any ACCEPTING task,   *)
(* also one that another call brought there after a sweep gave this one back. *)
RecordAccepted ==
    /\ manual.at = "accepting"
    /\ IF state = "ACCEPTING"
       THEN state' = "ACCEPTED" /\ version' = version + 1 /\ claim' = Recorded
       ELSE UNCHANGED <<state, version, claim>>
    /\ manual' = NoManual
    /\ UNCHANGED <<cands, receipts, reviews, family, granted, acked, seen, profileEdits>>

Next ==
    \/ \E o \in 0..3, n \in Pages : TaskDiff(o, n)
    \/ Look \/ Repair \/ AcceptEnds \/ Acknowledge \/ RecordAccepting \/ RecordAccepted
    \/ \E c \in Outcomes : FinishTurn(c)
    \/ \E r \in ReviewTasks :
           \/ \E p \in Reviewers : PlaceReview(r, p)
           \/ PrepareReview(r)
           \/ \E said \in Verdicts : FinishReview(r, said)
    \/ \E p \in Reviewers : Authorize(p) \/ Revoke(p)
    \/ \E p \in Reviewers, f \in Families : EditProfile(p, f)
    \/ \E flags \in Flags :
           \/ IntegrationGates(flags)
           \/ \E r \in ReviewTasks \cup {NoReview}, d, o \in SUBSET Findings : Accept(flags, r, d, o)

Spec == Init /\ [][Next]_vars

-----------------------------------------------------------------------------
(* Every byte of a diff lies in a page that was handed out.                   *)
Delivered(digest) ==
    \A b \in 0..(SizeOf[digest] - 1) :
        \E x \in receipts : x.digest = digest /\ x.offset <= b /\ b < x.offset + x.length

(* What the walk over the merged ranges calls complete is complete, in        *)
(* whatever order and with whatever overlaps the pages were fetched           *)
(* (store.receipt_coverage, service.diff_fully_retrieved).                    *)
CoverageSound == \A d \in Digests : DiffFullyRetrieved(d) => Delivered(d)

(* A call that accepted a candidate with diff receipts required had handed    *)
(* that candidate's diff out byte for byte, not an earlier one's; and what     *)
(* accept_task lands is the candidate its gates looked at, however turns,      *)
(* sweeps and other calls interleave (service.require_diff_retrieved,          *)
(* store.receipt_coverage, the pinned transition to ACCEPTING).                *)
AcceptedWasRead ==
    claim.rev # 0 =>
        /\ "receipts" \in claim.flags => Delivered(cands[claim.gated].digest)
        /\ claim.via = "accept_task" => claim.gated = claim.rev

(* A call that accepted a candidate with a review required had a recorded      *)
(* review of that very candidate by a provider of another family; through      *)
(* accept_task, one whose blocking and critical findings are all overridden    *)
(* and whose concerns are all answered, except for a finding that bears the    *)
(* verdict's name (service._bound_review, require_independent_review,          *)
(* _check_dispositions).                                                       *)
Answered(said, f) ==
    /\ said.verdict = "BLOCK" \/ f \in said.critical => f \in claim.overridden
    /\ said.verdict = "CONCERN" => f \in claim.disposed

AcceptedWasReviewed ==
    claim.rev # 0 /\ "review" \in claim.flags =>
        \E r \in ReviewTasks :
            /\ reviews[r].st = "recorded" /\ reviews[r].rev = claim.gated
            /\ reviews[r].provider # Author /\ reviews[r].family # FamilyOf[Author]
            /\ claim.review \in {r, NoReview}
            /\ claim.review = r =>
                   LET said == reviews[r].said
                   IN  /\ \A f \in said.findings \ {said.verdict} : Answered(said, f)
                       /\ ~(said.verdict = "BLOCK" /\ said.findings = {})

(* What lands is the latest candidate and inside its scope, also when a        *)
(* record_integration is overtaken between its two transitions; and with root  *)
(* stability required the root mutation of the candidate that the gates looked *)
(* at was signed for: an acknowledgement of another one does not carry over    *)
(* (orchestrator._accept_gates, _unacknowledged_root_mutation,                 *)
(* record_integration).                                                        *)
AcceptedIsClean ==
    claim.rev # 0 =>
        /\ claim.rev = Revision
        /\ ~cands[claim.rev].scope
        /\ "root" \in claim.flags /\ cands[claim.gated].root => claim.gated \in acked

(* What docs/tools.md says of require_diff_receipts, for accept_task and       *)
(* record_integration alike: every byte of the diff of the candidate that is   *)
(* accepted was retrieved.                                                     *)
RecordedWasRead ==
    state = "ACCEPTED" /\ "receipts" \in claim.flags => Delivered(cands[claim.rev].digest)

(* What docs/tools.md says of a CONCERN review that accept_task requires:      *)
(* every finding needs some disposition.                                       *)
EveryFindingDisposed ==
    claim.via = "accept_task" /\ "review" \in claim.flags =>
        \A r \in ReviewTasks \cap {claim.review} :
            reviews[r].said.verdict = "CONCERN" => reviews[r].said.findings \subseteq claim.disposed
===============================================================================
