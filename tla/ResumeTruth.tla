------------------------------ MODULE ResumeTruth ------------------------------
(***************************************************************************)
(* What a generated resume may say (resume_docx.py, local_ui.py).  A model *)
(* proposes a text for every approved claim; a validator judges each;      *)
(* rejected claims get their source text back, or the whole draft does;    *)
(* the draft is written into the DOCX and read back; an expert model may   *)
(* patch it, and the patched draft is judged again; a receipt then gives a *)
(* status to every claim the DOCX holds.                                   *)
(*                                                                         *)
(* A text is who wrote it and what the validator says of it; how it says   *)
(* that (terms, numbers, anchors) is left out.  The source text of a claim *)
(* may itself be refused, or warned of, when it is judged against the      *)
(* facts of an evidence pack.                                              *)
(***************************************************************************)
EXTENDS Naturals, FiniteSets

CONSTANTS Bullet,    \* the approved bullets, PROFILE-nn
          Summary    \* SUMMARY, where the resume has one

ResumeTruthAssumption ==
    Summary \notin Bullet /\ Bullet # {} /\ IsFiniteSet(Bullet)

VARIABLES stage,     \* how far the request is
          claims,    \* the claims of this resume
          source,    \* verdict on the source text of each bullet
          text,      \* the text of each claim in the role strategy
          docx,      \* the text of each claim in the DOCX
          warned,    \* claims with an editorial warning
          rejected,  \* rejected_count of the diagnostics
          tally,     \* the other counts of the diagnostics
          rejectedRewrites, \* the count that the page shows and the run keeps
          candidate, \* status of the model's artifact
          review,    \* the expert's patches
          expert,    \* status of the expert's artifact
          receipt    \* the receipt's status of each claim

vars == <<stage, claims, source, text, docx, warned, rejected, tally,
          rejectedRewrites, candidate, review, expert, receipt>>

-----------------------------------------------------------------------------
(* _validate_role_strategy *)

\* For zh-CN a claim without a lexical anchor is warned of, not rejected.
Verdict == {"pass", "warn", "fail"}

Source  == [by |-> "source", verdict |-> "own"]
By(who) == [by: {who}, verdict: Verdict]

\* A Summary that is not rewritten is not judged.
Judged(c, t) == IF t # Source THEN t.verdict
                ELSE IF c = Summary THEN "pass" ELSE source[c]

Failing(texts) == {c \in claims : Judged(c, texts[c]) = "fail"}
Unsure(texts)  == {c \in claims : Judged(c, texts[c]) = "warn"}
Changed(texts) == {c \in claims : texts[c] # Source}

Tally(texts, warnings, rejections) ==
    [verified   |-> Cardinality(claims) - rejections - Cardinality(Changed(texts)),
     supported  |-> Cardinality(Changed(texts)) - Cardinality(warnings),
     unverified |-> Cardinality(warnings)]

-----------------------------------------------------------------------------
(* tailor_resume_docx_with_gateway *)

\* One call; its answer is kept for inspection before it is judged.
Propose ==
    /\ stage = "asked"
    /\ stage' = "proposed"
    /\ text' \in [claims -> {Source} \cup By("model")]
    /\ candidate' = "PENDING_VALIDATION"
    /\ UNCHANGED <<claims, source, docx, warned, rejected, tally,
                   rejectedRewrites, review, expert, receipt>>

Selected(texts, warnings, rejections, status) ==
    /\ stage = "proposed"
    /\ stage' = "selected"
    /\ text' = texts /\ warned' = warnings /\ rejected' = rejections
    /\ candidate' = status
    /\ UNCHANGED <<claims, source, docx, tally, rejectedRewrites, review, expert,
                   receipt>>

Accept ==
    /\ Failing(text) = {}
    /\ Selected(text, Unsure(text), 0, "VALIDATED")

Restored == [c \in claims |-> IF c \in Failing(text) THEN Source ELSE text[c]]

\* _select_safe_rewrites: the rejected claims alone go back to their sources,
\* and the draft is judged again.
Restore ==
    /\ Failing(text) # {} /\ Failing(Restored) = {}
    /\ Selected(Restored, Unsure(Restored), Cardinality(Failing(text)),
                "REJECTED")

\* A failure of no one claim, of a kind no claim can be cured of, or of the
\* second judgement: the deterministic strategy exports the sources.
Fallback ==
    \E named \in SUBSET claims :
        /\ Failing(Restored) \subseteq named
        /\ Selected([c \in claims |-> Source], {}, Cardinality(named), "REJECTED")

\* The Summary is replaced where one paragraph holds it, else left alone.
Placed(placed) == IF placed THEN text ELSE [text EXCEPT ![Summary] = Source]

\* The DOCX is written, and the strategy takes the texts read back from it.
Render(placed) ==
    /\ stage = "selected"
    /\ stage' = "rendered"
    /\ ~placed => Summary \in Changed(text)
    /\ docx' = Placed(placed)
    /\ text' = docx' /\ warned' = warned \cap Changed(text')
    /\ rejected' = IF placed THEN rejected ELSE rejected + 1
    /\ tally' = Tally(text', warned', rejected')
    /\ rejectedRewrites' = rejected'
    /\ UNCHANGED <<claims, source, candidate, review, expert, receipt>>

-----------------------------------------------------------------------------
(* request_resume_expert_review, apply_resume_expert_review *)

\* Patches for some bullets, of the text they have now.
RequestReview ==
    /\ stage = "rendered"
    /\ stage' = "reviewing"
    /\ \E patched \in SUBSET (claims \ {Summary}) :
          review' \in [patched -> By("expert")]
    /\ expert' = "PENDING_VALIDATION"
    /\ UNCHANGED <<claims, source, text, docx, warned, rejected, tally,
                   rejectedRewrites, candidate, receipt>>

Patched == [c \in claims |-> IF c \in DOMAIN review THEN review[c] ELSE text[c]]

\* Mutant of ApplyReview: the warnings of the first draft are kept.
ApplyReviewStale ==
    /\ stage = "reviewing" /\ Failing(Patched) = {}
    /\ stage' = "done"
    /\ text' = Patched /\ docx' = Patched
    /\ rejected' = 0
    /\ tally' = Tally(Patched, warned, 0)
    /\ expert' = "VALIDATED"
    /\ UNCHANGED <<claims, source, warned, rejectedRewrites, candidate, review,
                   receipt>>

\* The whole patched draft is judged; nothing of it may fail.  The diagnostics
\* are counted anew, rejected_rewrites is not: it tells of the draft before.
ApplyReview ==
    /\ stage = "reviewing" /\ Failing(Patched) = {}
    /\ stage' = "done"
    /\ text' = Patched /\ docx' = Patched
    /\ warned' = Unsure(Patched) \cap Changed(Patched)
    /\ rejected' = 0
    /\ tally' = Tally(Patched, warned', 0)
    /\ expert' = "VALIDATED"
    /\ UNCHANGED <<claims, source, rejectedRewrites, candidate, review, receipt>>

\* The call failed; a patch names another text, adds a fact or fails: the
\* draft goes on as it was.
RefuseReview ==
    /\ stage \in {"rendered", "reviewing"}
    /\ stage' = "done"
    /\ expert' = "REJECTED"
    /\ UNCHANGED <<claims, source, text, docx, warned, rejected, tally,
                   rejectedRewrites, candidate, review, receipt>>

NoReview ==
    /\ stage = "rendered"
    /\ stage' = "done"
    /\ UNCHANGED <<claims, source, text, docx, warned, rejected, tally,
                   rejectedRewrites, candidate, review, expert, receipt>>

-----------------------------------------------------------------------------
(* _build_resume_provenance_receipt *)

Status(c) == IF text[c] = Source THEN "VERIFIED"
             ELSE IF c \in warned THEN "UNVERIFIED" ELSE "SUPPORTED"

\* Refused unless the DOCX holds what the strategy says.
Export ==
    /\ stage = "done" /\ docx = text
    /\ stage' = "exported"
    /\ receipt' = [c \in claims |-> Status(c)]
    /\ UNCHANGED <<claims, source, text, docx, warned, rejected, tally,
                   rejectedRewrites, candidate, review, expert>>

\* Anything may raise; an answer refused as a whole is marked so.
Raise ==
    /\ stage \notin {"exported", "raised"}
    /\ stage' = "raised"
    /\ candidate' \in IF stage = "proposed" THEN {candidate, "REJECTED"}
                      ELSE {candidate}
    /\ UNCHANGED <<claims, source, text, docx, warned, rejected, tally,
                   rejectedRewrites, review, expert, receipt>>

Init ==
    /\ stage = "asked"
    /\ claims \in {Bullet, Bullet \cup {Summary}}
    /\ source \in [Bullet -> Verdict]
    /\ text = [c \in claims |-> Source] /\ docx = text
    /\ warned = {} /\ rejected = 0 /\ rejectedRewrites = 0
    /\ tally = [verified |-> 0, supported |-> 0, unverified |-> 0]
    /\ candidate = "none" /\ review = <<>> /\ expert = "none"
    /\ receipt = <<>>

Next ==
    \/ Propose \/ Accept \/ Restore \/ Fallback
    \/ \E placed \in BOOLEAN : Render(placed)
    \/ RequestReview \/ ApplyReview \/ RefuseReview \/ NoReview
    \/ Export \/ Raise

Spec == Init /\ [][Next]_vars

-----------------------------------------------------------------------------
(* Properties *)

Text == {Source} \cup By("model") \cup By("expert")

TypeOK ==
    /\ claims \subseteq Bullet \cup {Summary}
    /\ source \in [Bullet -> Verdict]
    /\ text \in [claims -> Text] /\ docx \in [claims -> Text]
    /\ warned \subseteq claims /\ rejected \in 0..Cardinality(claims)
    /\ tally \in [verified: 0..Cardinality(claims),
                  supported: 0..Cardinality(claims),
                  unverified: 0..Cardinality(claims)]
    /\ rejectedRewrites \in 0..Cardinality(claims)
    /\ DOMAIN review \subseteq Bullet

\* What the receipt says of a claim is true of the text the DOCX holds, after
\* any mix of restored claims, unplaced Summary and expert patches: VERIFIED is
\* the approved source word for word, SUPPORTED passed the validator in its
\* final text, UNVERIFIED was warned of; and no expert's text is there unless
\* the patches were validated as a whole.
ExportIsBacked ==
    stage = "exported" =>
        \A c \in claims :
            /\ receipt[c] = "VERIFIED" => docx[c] = Source
            /\ receipt[c] = "SUPPORTED" => docx[c].verdict = "pass"
            /\ receipt[c] = "UNVERIFIED" => docx[c].verdict = "warn"
            /\ docx[c].by = "expert" => expert = "VALIDATED"

Claims(status) == {c \in claims : receipt[c] = status}

\* The claims that an expert rewrote (expert_rewrites is their number).
Rewritten == IF expert = "VALIDATED" THEN DOMAIN review ELSE {}

\* The counts of the diagnostics are those of the receipt, every claim is counted
\* once, and the rejected are among those exported word for word.  The number of
\* rejected suggestions that the page shows is another: it is that of the
\* diagnostics unless an expert's patches were applied, and then it may still
\* count restored claims that were patched, but no more than those.
CountsMatchTheReceipt ==
    stage = "exported" =>
        /\ tally.supported = Cardinality(Claims("SUPPORTED"))
        /\ tally.unverified = Cardinality(Claims("UNVERIFIED"))
        /\ tally.verified + rejected = Cardinality(Claims("VERIFIED"))
        /\ expert # "VALIDATED" => rejectedRewrites = rejected
        /\ rejectedRewrites <= Cardinality(Claims("VERIFIED") \cup Rewritten)
=============================================================================
