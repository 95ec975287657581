----------------------------- MODULE MCWeather -----------------------------
(***************************************************************************)
(* Instances of WeatherIngest for TLC: who takes part and what is sent.    *)
(***************************************************************************)
EXTENDS WeatherIngest, TLC

CONSTANTS s1, s2, x1, r1, r2, r3, r4, r5

\* The station of r1, r3 and r5 is one worker's, that of the others the other's.
MCStation == r1 :> 10 @@ r2 :> 11 @@ r3 :> 12 @@ r4 :> 11 @@ r5 :> 14

\* A batch that is split between the workers and one that is not, so that one
\* worker gets two parts, then a session that replaces the dataset.
TwoSessions == s1 :> <<{r1, r2}, {r3}>> @@ s2 :> <<{r4}>>

\* One session whose first batch has two records.
Single == s1 :> <<{r1, r2}, {r3}>>

\* A session with three batches for one worker, more than its queue and its
\* stream take while it folds nothing, and an empty session.
Busy == s1 :> <<{r1}, {r3}, {r2, r5}>> @@ s2 :> <<>>
=============================================================================
