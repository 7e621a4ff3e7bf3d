----------------------------- MODULE RiskPolicy -----------------------------
(***************************************************************************)
(* The two exposure risk policies, which write to the same table:          *)
(* ExposureRiskService (v1, behind /investigations) and RiskService        *)
(* (behind /cases).  Scores are in quarter points, in which every weight   *)
(* of both is a whole number: 400 is a score of 100.  The code rounds the  *)
(* sum to a tenth before it compares; a multiple of a quarter does not     *)
(* cross a whole threshold by that.                                        *)
(***************************************************************************)
EXTENDS Integers

Level == {"LOW", "MEDIUM", "HIGH", "CRITICAL"}

Rank == [l \in Level |->
          CASE l = "LOW" -> 0 [] l = "MEDIUM" -> 1
            [] l = "HIGH" -> 2 [] l = "CRITICAL" -> 3]

Cap(n, most) == IF n > most THEN most ELSE n

Points(flag, n) == IF flag THEN n ELSE 0

\* Volume 35%, domain spread 25%, breach repositories 30%, clustering 10%, for n
\* verified rows on d domains in c clusters; nothing for no row.
ExposureScore(n, d, c, breach) ==
  IF n = 0 THEN 0
  ELSE Cap(14 * n, 140) + Cap(15 * d, 100) + Points(breach, 120) + Cap(4 * c, 40)

ExposureLevel(n, score, breach) ==
  CASE n > 0 /\ (score >= 320 \/ (breach /\ n >= 10)) -> "CRITICAL"
    [] score >= 240 /\ score < 320 /\ ~(breach /\ n >= 10) -> "HIGH"
    [] score >= 100 /\ score < 240 /\ ~(breach /\ n >= 10) -> "MEDIUM"
    [] OTHER -> "LOW"

\* A baseline of 20, up to 35 for n rows, up to 25 for d domains, 20 for a breach
\* or darkweb domain and 10 for a paste site; at most 100.
CaseScore(n, d, breach, paste) ==
  Cap(80 + Cap(28 * n, 140) + Cap(20 * d, 100) + Points(breach, 80)
         + Points(paste, 40), 400)

CaseLevel(score) ==
  CASE score >= 320 -> "CRITICAL"
    [] score >= 240 /\ score < 320 -> "HIGH"
    [] score >= 140 /\ score < 240 -> "MEDIUM"
    [] OTHER -> "LOW"
=============================================================================
