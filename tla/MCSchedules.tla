------------------------------ MODULE MCSchedules ------------------------------
(* Instances of Schedules for TLC: the schedules users create.             *)
EXTENDS Schedules

Once == [kind |-> "once", missed |-> "skip", on_failure |-> "pause", retries |-> 0, delay |-> 0]

Retried == [Once EXCEPT !.kind = "every", !.missed = "coalesce", !.on_failure = "continue", !.retries = 1]

Replayed == [Once EXCEPT !.kind = "cron", !.missed = "replay"]

SomePolicies == {Once, Retried, Replayed}
=============================================================================
