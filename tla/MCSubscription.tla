---------------------------- MODULE MCSubscription ----------------------------
\* Instances for the subscription runs: one paid plan that lasts longer than
\* the trial and allows one unit more.
EXTENDS Subscription, TLC

CONSTANTS basic, trial, r1, r2

MCDays == basic :> 1 @@ trial :> 1
MCQuota == basic :> 1 @@ trial :> 0
=============================================================================
