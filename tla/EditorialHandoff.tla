---------------------------- MODULE EditorialHandoff ----------------------------
(***************************************************************************)
(* The handoff of a sealed editorial day to one channel                    *)
(* (editorial_publishing_handoff.py) beside the accounts of that channel:  *)
(* the stored preview of a BuildLog publication plan, the receipt of the   *)
(* last publication, and the publishing page in the owner's tabs, which    *)
(* are only as new as their last loading.                                  *)
(*                                                                         *)
(* BuildLog's publication-plan gateway is not in this repository: it binds *)
(* a plan to an account of its own choice, and a call to publish may post  *)
(* and return, post and raise, or raise.                                   *)
(***************************************************************************)
EXTENDS ChannelAccounts

CONSTANTS Plan, NoPlan,
          Tab           \* browser tabs on the publishing page

HandoffAssumption == AccountsAssumption /\ NoPlan \notin Plan

VARIABLES preview,      \* the plan of the stored preview
          boundTo,      \* account_reference of each staged plan
          lastReceipt,  \* the stored receipt
          shown         \* the plan whose PUBLISH form each tab shows

handoffVars == <<preview, boundTo, lastReceipt, shown>>
vars == <<accountVars, handoffVars>>

--------------------------------------------------------------------------------

DoNotRetry == "PUBLICATION_FAILED_OR_INDETERMINATE_DO_NOT_RETRY"

Status == {"none", "succeeded", DoNotRetry}

NoReceipt == [plan |-> NoPlan, status |-> "none"]

HandoffInit == /\ Init
               /\ preview = NoPlan
               /\ boundTo = [p \in Plan |-> NoAccount]
               /\ lastReceipt = NoReceipt
               /\ shown = [t \in Tab |-> NoPlan]

\* preview_editorial_day: the sealed day is verified and staged, BuildLog names
\* the account, and the preview replaces the one before.
PreviewDay(p, x) ==
    /\ doing = Idle /\ boundTo[p] = NoAccount
    /\ boundTo' = [boundTo EXCEPT ![p] = x]
    /\ preview' = p
    /\ UNCHANGED <<accountVars, lastReceipt, shown>>

\* The page offers the form if some account may publish and the plan has no
\* receipt (_editorial_channel_html), unless the preview says that the plan is a
\* duplicate or an earlier attempt is unresolved: BuildLog's answer.
Offered == IF Eligible # {} /\ lastReceipt.plan # preview THEN preview ELSE NoPlan

LoadPage(t) == /\ doing = Idle
               /\ \E form \in {Offered, NoPlan} : shown' = [shown EXCEPT ![t] = form]
               /\ UNCHANGED <<accountVars, preview, boundTo, lastReceipt>>

\* Mutant of Approve: any eligible account will do (require_publish_identity).
ApproveForAnybody(t) ==
    /\ doing = Idle /\ shown[t] # NoPlan /\ preview # NoPlan
    /\ Eligible # {}
    /\ doing' = [Idle EXCEPT !.at = "publish", !.account = boundTo[preview]]
    /\ UNCHANGED <<attempt, overdue, current, token, listed, exchanged, parted, handoffVars>>

\* publish_editorial_preview up to the call: PUBLISH typed into any tab with a
\* form stands for the preview stored now, and its account must be eligible.
Approve(t) ==
    /\ doing = Idle /\ shown[t] # NoPlan /\ preview # NoPlan
    /\ boundTo[preview] \in Eligible
    /\ doing' = [Idle EXCEPT !.at = "publish", !.account = boundTo[preview]]
    /\ UNCHANGED <<attempt, overdue, current, token, listed, exchanged, parted, handoffVars>>

\* The gateway answers; when it raises, the plan was posted or was not.
Publish(answer) ==
    /\ doing.at = "publish"
    /\ Goto(answer)
    /\ UNCHANGED <<attempt, overdue, current, token, listed, exchanged, parted,
                   preview, boundTo, lastReceipt, shown>>

WriteReceipt ==
    /\ doing.at \in {"succeeded", "raised"}
    /\ lastReceipt' = [plan |-> preview,
                       status |-> IF doing.at = "succeeded" THEN "succeeded" ELSE DoNotRetry]
    /\ doing' = Idle
    /\ UNCHANGED <<attempt, overdue, current, token, listed, exchanged, parted,
                   preview, boundTo, shown>>

HandoffNext ==
    \/ AccountNext /\ UNCHANGED handoffVars
    \/ \E p \in Plan, x \in Account : PreviewDay(p, x)
    \/ \E t \in Tab : LoadPage(t) \/ Approve(t)
    \/ \E answer \in {"succeeded", "raised"} : Publish(answer)
    \/ WriteReceipt

Spec == HandoffInit /\ [][HandoffNext]_vars

--------------------------------------------------------------------------------
(* Properties *)

HandoffTypeOK == /\ AccountTypeOK
                 /\ preview \in Plan \cup {NoPlan}
                 /\ boundTo \in [Plan -> Account \cup {NoAccount}]
                 /\ lastReceipt \in [plan : Plan \cup {NoPlan}, status : Status]
                 /\ shown \in [Tab -> Plan \cup {NoPlan}]

\* The gateway is asked to publish the stored plan.
Asks == doing.at = "publish" /\ doing'.at \in {"succeeded", "raised"}

\* A plan is published only to the account it was previewed for, while that
\* account is listed with the scope to publish: never to one the owner was told
\* is disconnected, whichever others were connected since the preview
\* (require_publish_account_reference).
PostsGoToTheConnected ==
    [][Asks => boundTo[preview] \notin parted /\ listed[boundTo[preview]] = "write"]_vars

\* A publication that failed, or of which nobody knows, is terminal: the plan
\* whose receipt says DO_NOT_RETRY is not published again.
DoNotRetryStands ==
    [][Asks => lastReceipt # [plan |-> preview, status |-> DoNotRetry]]_vars

================================================================================
