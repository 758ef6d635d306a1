------------------------- MODULE CompactionProperties -------------------------
(***************************************************************************)
(* What a compaction, and an approval that waits for one, promise.         *)
(***************************************************************************)
EXTENDS Compaction

Result == IF request # NoRequest THEN request ELSE compact_pending

\* The step rebuilds the conversation around a summary.
Applies == (Compacted \/ ApplyDue) /\ conversation' # conversation

\* Whole when the request was made, and not a call whose answer begins the tail.
Whole(k) ==
    /\ ~Torn(conversation, k)
    /\ ~(/\ conversation[k].kind = "calls"
         /\ Result.tail # <<>> /\ conversation[k + 1] = Head(Result.tail))

\* A plan that is armed for execution after the compaction is the one approved
\* last, and the session is in a mode that may execute it, whatever mode
\* changes, decisions, interrupts and failures came between (rest.rs:946,
\* plan_decision.rs:153: the approval is not mutable plan.md or an older one).
ArmedIsApproved ==
    pending_plan_seed # NoPlan =>
        pending_plan_seed = approved_plan /\ agent_mode \in Executing

\* What /clear, a rewind or a resend cut from the conversation is never told to
\* the model again, by a summary computed before the cut or otherwise
\* (drains.rs:120: "never apply a late result").
NothingComesBack ==
    [][\A id \in Standing(conversation') : id \in Standing(conversation) \/ id > said]_vars

\* A compaction that is applied keeps or summarises every message that stood
\* when it was asked, but for calls torn from their answers, by a note between
\* them or by the split itself: only what was said meanwhile may be lost (conversation.rs:358, drains.rs:102).
KeptOrSummarised ==
    [][Applies =>
         \A k \in DOMAIN conversation :
            Whole(k) => \A id \in conversation[k].of :
                            id <= Result.until => id \in Standing(conversation')]_vars

\* A compaction ends: applied, failed or cut (chat.rs:443: no animation is left
\* stuck).
CompactionEnds == compact_anim_start ~> ~compact_anim_start

\* An approved plan is executed by the compaction its approval asked for, never
\* by a later one (drains.rs:125: "discard the one-shot arm in every case so a
\* later compact cannot revive it").
ExecutedByItsOwn ==
    [][Applies /\ conversation'[Len(conversation')].kind = "execute" => Result.asked = "approval"]_vars
=============================================================================
