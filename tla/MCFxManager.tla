------------------------------ MODULE MCFxManager ------------------------------
(* FxManager on small instances. *)
EXTENDS FxManager

\* More subintegrations than two Cores are filled up with.  The last integration
\* of the first scan is short; the second scan has no configuration.
MCDuration == <<7, 3, 4>>
MCIntTime == <<2, 0, 2>>

\* One subintegration per integration: two Cores are given more integrations
\* than a small buffer holds.
MCShortDuration == <<6, 3, 4>>
MCShortIntTime == <<1, 0, 1>>

\* Configurations with different integration times.
MCMixedDuration == <<4, 6>>
MCMixedIntTime == <<1, 2>>
===============================================================================
