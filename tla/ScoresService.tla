---------------------------- MODULE ScoresService ----------------------------
(* The credit scores kept in the backend's `scores` table                      *)
(* (backend/src/services/scoresService.ts).  A table is a function from the    *)
(* borrowers that have a row to their score.                                   *)
EXTENDS Integers, FiniteSets, FiniteSetsExt

\* LEAST(850, GREATEST(300, x)), the band every relative update is kept in.
clamp(x) == Min({850, Max({300, x})})

\* updateUserScoresBulk before its clamps: the sign the statement gives a delta.
\* A new row gets 500 - delta, an old one score + EXCLUDED.score - 500.
inserted_score(delta) == clamp(500 - delta)

updateUserScoresBulk(scores, updates) ==
    [u \in DOMAIN scores \cup DOMAIN updates |->
        IF u \notin DOMAIN updates THEN scores[u]
        ELSE IF u \in DOMAIN scores THEN clamp(scores[u] + inserted_score(updates[u]) - 500)
        ELSE inserted_score(updates[u])]

\* setAbsoluteUserScoresBulk: reconciliation overwrites, without a clamp.
setAbsoluteUserScoresBulk(scores, values) ==
    [u \in DOMAIN scores \cup DOMAIN values |->
        IF u \in DOMAIN values THEN values[u] ELSE scores[u]]
=============================================================================
